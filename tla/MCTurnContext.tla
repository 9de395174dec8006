--------------------------- MODULE MCTurnContext ---------------------------
(* Instances of TurnContext for TLC; the bounds are in the .cfg files.  The *)
(* messages are interchangeable: nothing but their order of arrival counts. *)
(* The second message has the text of the first, the third has not.         *)
EXTENDS TurnContext

MCScript == <<"yes", "yes", "more">>

Symmetry == Permutations(Msgs)
=============================================================================
