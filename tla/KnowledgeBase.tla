---------------------------- MODULE KnowledgeBase ----------------------------
(* The knowledge base of an agent (memory_manager.py, evomem_writer.py): each  *)
(* summary of a session starts a thread that has what is new in it turned into *)
(* operations on pages, by an organizer sub-agent ("agentic") or by one call   *)
(* of a model ("author", which stands for non-agentic and sefton), and applies *)
(* them.  A command starts an organizer without any check.  A fact is about    *)
(* one title; a page is named by the title it was made for, but a fact may be  *)
(* filed in a page that is called otherwise.  The recent turns that go with a  *)
(* summary, collections, thumbnails and the sync of the index are left out.    *)
EXTENDS Naturals, FiniteSets

CONSTANTS
    KbSessions,
    Fact,
    Title,
    TitleOf,      \* the title each fact is about
    MaxFilings,   \* bound on threads
    MaxDeaths     \* bound on restarts

ASSUME KbAssumption ==
    /\ TitleOf \in [Fact -> Title] /\ "none" \notin Title
    /\ MaxFilings \in Nat /\ MaxDeaths \in Nat

Filer == 1 .. MaxFilings

VARIABLES
    kbMode,      \* agentic or author: a setting
    organized,   \* by session: the summary an organizer was last given
    cooling,     \* the last filing is younger than the minimal interval
    slot,        \* the organizer slot: running, and debounced
    filing,      \* the threads
    doc,         \* by title: whether its page is there, and the facts on it
    pageLock,    \* by title: who holds the lock of that name
    deaths,
    answered,    \* history: by session, what organizers that answered were given
    wrote,       \* history: the page each fact was written to, until a write takes it out
    torn         \* history: pages written under two names at once, or renamed onto

kbVars == <<kbMode, organized, cooling, slot, filing, doc, pageLock, deaths, answered,
           wrote, torn>>
pages == <<doc, pageLock, wrote, torn>>
cursors == <<organized, cooling, answered>>

NoPage == [there |-> FALSE, facts |-> {}]
Page(facts) == [there |-> TRUE, facts |-> facts]
NoFiler == 0
NoOp == [do |-> "none", page |-> "none", to |-> "none", fact |-> "none"]
OffFiling == [at |-> "off", session |-> "none", source |-> {}, base |-> {}, feed |-> {},
              manual |-> FALSE, ops |-> {}, op |-> NoOp, read |-> {}]
FreeSlot == [running |-> FALSE, debounced |-> FALSE]
Exists(p) == doc[p].there

KbTypeOK ==
    /\ kbMode \in {"agentic", "author"} /\ cooling \in BOOLEAN /\ deaths \in 0 .. MaxDeaths
    /\ organized \in [KbSessions -> SUBSET Fact] /\ answered \in [KbSessions -> SUBSET Fact]
    /\ slot \in [running : BOOLEAN, debounced : BOOLEAN]
    /\ \A p \in Title : doc[p].facts \subseteq Fact
    /\ pageLock \in [Title -> Filer \union {NoFiler}]
    /\ wrote \subseteq Title \X Fact /\ torn \subseteq Title

KbInit ==
    /\ kbMode \in {"agentic", "author"}
    /\ organized = [s \in KbSessions |-> {}] /\ cooling = FALSE /\ slot = FreeSlot
    /\ filing = [k \in Filer |-> OffFiling]
    /\ doc = [p \in Title |-> NoPage] /\ pageLock = [p \in Title |-> NoFiler] /\ deaths = 0
    /\ answered = [s \in KbSessions |-> {}] /\ wrote = {} /\ torn = {}

FilingAt(k, place) == filing[k].at = place
FilingGoes(k, place) == filing' = [filing EXCEPT ![k].at = place]
FilingEnds(k) == filing' = [filing EXCEPT ![k] = [OffFiling EXCEPT !.at = "ended"]]
NextFiler == 1 + Cardinality({k \in Filer : ~FilingAt(k, "off")})
SessionOf(k) == filing[k].session

-----------------------------------------------------------------------------
(* From a summary to operations. *)

\* The summary may have gained and lost facts; the thread keeps the one of its event.
SummaryUpdated(s, summary) ==
    /\ NextFiler \in Filer /\ summary # {}
    /\ filing' = [filing EXCEPT ![NextFiler] =
         [OffFiling EXCEPT !.at = "cooldown", !.session = s, !.source = summary]]
    /\ UNCHANGED <<kbMode, cursors, slot, pages, deaths>>

\* /kb-organize: no cooldown, no delta, no slot.
TriggerOrganizer(s, summary) ==
    /\ kbMode = "agentic" /\ NextFiler \in Filer /\ summary # {}
    /\ filing' = [filing EXCEPT ![NextFiler] =
         [OffFiling EXCEPT !.at = "exploring", !.session = s, !.feed = summary, !.manual = TRUE]]
    /\ UNCHANGED <<kbMode, cursors, slot, pages, deaths>>

CheckCooldown(k) ==
    /\ FilingAt(k, "cooldown")
    /\ IF cooling THEN FilingEnds(k)
       ELSE IF kbMode = "agentic" THEN FilingGoes(k, "delta")
       ELSE filing' = [filing EXCEPT ![k].at = "authoring", ![k].feed = filing[k].source]
    /\ UNCHANGED <<kbMode, cursors, slot, pages, deaths>>

\* What is new against the last summary that was filed; nothing new is no reason to ask.
TakeDelta(k) ==
    LET base == organized[SessionOf(k)]
        new == filing[k].source \ base
    IN  /\ FilingAt(k, "delta")
        /\ IF base # {} /\ new = {} THEN FilingEnds(k)
           ELSE filing' = [filing EXCEPT ![k].at = "claim",
                                         ![k].feed = IF base = {} THEN filing[k].source ELSE new]
        /\ UNCHANGED <<kbMode, cursors, slot, pages, deaths>>

ClaimSlot(k) ==
    /\ FilingAt(k, "claim")
    /\ IF slot.running \/ slot.debounced THEN FilingEnds(k) /\ UNCHANGED slot
       ELSE FilingGoes(k, "exploring") /\ slot' = [running |-> TRUE, debounced |-> TRUE]
    /\ UNCHANGED <<kbMode, cursors, pages, deaths>>

\* What a model asks for: each fact in the page of its title or in one the model has found,
\* or nothing, and at most one page to rename or to write back with a link, a text or a copy mended.
File(f, hint) == [do |-> "file", page |-> hint, to |-> "none", fact |-> f]
Edit(p) == [do |-> "edit", page |-> p, to |-> "none", fact |-> "none"]
Rename(p, q) == [do |-> "rename", page |-> p, to |-> q, fact |-> "none"]
Tidy == {{}} \union {{Edit(p)} : p \in {p \in Title : Exists(p)}}
             \union {{Rename(p, q)} : p \in {p \in Title : Exists(p)}, q \in Title}
Answers(feed) ==
    {{}} \union
    {{File(f, hint[f]) : f \in feed} \union tidy :
        hint \in {h \in [feed -> Title] : \A f \in feed : h[f] = TitleOf[f] \/ Exists(h[f])},
        tidy \in Tidy}

\* The next step is taken whether there was an answer or not.
MutNoAnswer(k) ==
    /\ FilingAt(k, "exploring") /\ FilingGoes(k, "last_run")
    /\ slot' = [slot EXCEPT !.running = IF filing[k].manual THEN @ ELSE FALSE]
    /\ UNCHANGED <<kbMode, cursors, pages, deaths>>

\* An organizer that failed or took too long leaves no trace; the slot is free either way.
NoAnswer(k) ==
    /\ FilingAt(k, "exploring") /\ FilingEnds(k)
    /\ slot' = [slot EXCEPT !.running = IF filing[k].manual THEN @ ELSE FALSE]
    /\ UNCHANGED <<kbMode, cursors, pages, deaths>>

OrganizerAnswers(k, ops) ==
    /\ FilingAt(k, "exploring")
    /\ filing' = [filing EXCEPT ![k].at = IF filing[k].manual THEN "apply" ELSE "last_run",
                                ![k].ops = ops]
    /\ slot' = [slot EXCEPT !.running = IF filing[k].manual THEN @ ELSE FALSE]
    /\ answered' = [answered EXCEPT ![SessionOf(k)] = @ \union filing[k].feed]
    /\ UNCHANGED <<kbMode, organized, cooling, pages, deaths>>

SaveLastRun(k) ==
    /\ FilingAt(k, "last_run") /\ cooling' = TRUE /\ FilingGoes(k, "snapshot")
    /\ UNCHANGED <<kbMode, organized, answered, slot, pages, deaths>>

SaveSnapshot(k) ==
    /\ FilingAt(k, "snapshot") /\ FilingGoes(k, "apply")
    /\ organized' = [organized EXCEPT ![SessionOf(k)] = filing[k].source]
    /\ UNCHANGED <<kbMode, cooling, answered, slot, pages, deaths>>

\* The author has no slot and no cursor; the interval begins even if its answer is no use.
AuthorAnswers(k, ops) ==
    /\ FilingAt(k, "authoring") /\ cooling' = TRUE
    /\ filing' = [filing EXCEPT ![k].at = "apply", ![k].ops = ops]
    /\ UNCHANGED <<kbMode, organized, answered, slot, pages, deaths>>

-----------------------------------------------------------------------------
(* Operations on pages, under the lock of the name the operation gives. *)

\* _resolve_doc_slug2: the page the model has found, if it is still there.
TargetOf(op) ==
    IF op.do # "file" \/ Exists(op.page) THEN op.page ELSE TitleOf[op.fact]
LockName(op) == IF op.do = "file" THEN TitleOf[op.fact] ELSE op.page
InHand(k) == filing[k].op
Touches(k, p) ==
    FilingAt(k, "writing") /\ (p = TargetOf(InHand(k)) \/ p = InHand(k).to)

\* Pages that two operations under different names, or a rename and its target, meet at.
Met(k, op) ==
    {p \in {TargetOf(op), op.to} \ {"none"} :
        \/ \E j \in Filer \ {k} : Touches(j, p) /\ LockName(InHand(j)) # LockName(op)
        \/ op.do = "rename" /\ p = op.to /\ p # op.page /\ Exists(p)}

Take(k, op) ==
    /\ filing' = [filing EXCEPT ![k].at = "writing", ![k].ops = @ \ {op},
                                ![k].op = [op EXCEPT !.page = TargetOf(op)],
                                ![k].read = doc[TargetOf(op)].facts]
    /\ torn' = torn \union Met(k, op)

\* Locks are not looked at.
MutBeginOp(k, op) ==
    /\ FilingAt(k, "apply") /\ op \in filing[k].ops /\ Take(k, op)
    /\ UNCHANGED <<kbMode, cursors, slot, doc, pageLock, wrote, deaths>>

BeginOp(k, op) ==
    /\ FilingAt(k, "apply") /\ op \in filing[k].ops /\ pageLock[LockName(op)] = NoFiler
    /\ pageLock' = [pageLock EXCEPT ![LockName(op)] = k] /\ Take(k, op)
    /\ UNCHANGED <<kbMode, cursors, slot, doc, wrote, deaths>>

NewText(op) == IF op.do = "file" THEN {op.fact} ELSE {}

\* All of what was read is written back, with the new text; or, of a page that is
\* there, less.  replace_in_doc puts other words in the place of those it finds, exact
\* or much alike, and they may have been a fact.  _dedupe_body, in an append, in one
\* that comes with a rename and in a clean-up, cuts a page off at a copy of its own
\* header, and the new text, which comes last, with it.
Written(k, kept, added) ==
    LET op == InHand(k)  read == filing[k].read
        stays == wrote \ ({op.page} \X (read \ kept))
    IN  /\ \/ kept = read /\ added = NewText(op)
           \/ kept \subseteq read /\ added = {} /\ Exists(op.page)
        /\ IF op.do = "rename"
           THEN /\ doc' = [p \in Title |-> IF p = op.to THEN Page(kept)
                                            ELSE IF p = op.page THEN NoPage ELSE doc[p]]
                /\ wrote' = {w \in stays : w[1] # op.page} \union {<<op.to, w[2]>> : w \in
                               {w \in stays : w[1] = op.page}}
                /\ torn' = IF op.page \in torn THEN torn \union {op.to} ELSE torn
           ELSE /\ doc' = [doc EXCEPT ![op.page] = Page(kept \union added)]
                /\ wrote' = stays \union ({op.page} \X added) /\ UNCHANGED torn

\* The writer's functions catch what they raise, and the operation is skipped; an edit
\* or a rename of a page that is gone does nothing.  What raises outside of them ends
\* the batch, and the operations after it (as those past the twelfth) are not done.
EndOp(k, ok, goesOn) ==
    /\ FilingAt(k, "writing")
    /\ filing' = [filing EXCEPT ![k] = [@ EXCEPT !.at = "apply", !.op = NoOp, !.read = {},
                                                !.ops = {op \in filing[k].ops : goesOn}]]
    /\ pageLock' = [p \in Title |-> IF pageLock[p] = k THEN NoFiler ELSE pageLock[p]]
    /\ IF ok /\ (InHand(k).do = "file" \/ Exists(InHand(k).page))
       THEN \E kept \in SUBSET filing[k].read, added \in SUBSET NewText(InHand(k)) :
               Written(k, kept, added)
       ELSE UNCHANGED <<doc, wrote, torn>>
    /\ UNCHANGED <<kbMode, cursors, slot, deaths>>

OpsDone(k) ==
    /\ FilingAt(k, "apply") /\ filing[k].ops = {} /\ FilingEnds(k)
    /\ UNCHANGED <<kbMode, cursors, slot, pages, deaths>>

-----------------------------------------------------------------------------
IntervalPasses ==
    /\ cooling /\ cooling' = FALSE /\ UNCHANGED <<kbMode, organized, answered, slot, filing, pages, deaths>>

DebouncePasses ==
    /\ slot.debounced /\ slot' = [slot EXCEPT !.debounced = FALSE]
    /\ UNCHANGED <<kbMode, cursors, filing, pages, deaths>>

\* Cursors and pages outlive the server, threads, locks and the slot do not.
KbServerDies ==
    /\ deaths < MaxDeaths /\ deaths' = deaths + 1
    /\ filing' = [k \in Filer |-> IF FilingAt(k, "off") THEN filing[k] ELSE [OffFiling EXCEPT !.at = "ended"]]
    /\ slot' = FreeSlot /\ pageLock' = [p \in Title |-> NoFiler]
    /\ UNCHANGED <<kbMode, cursors, doc, wrote, torn>>

KbNext ==
    \/ \E s \in KbSessions, summary \in SUBSET Fact :
          SummaryUpdated(s, summary) \/ TriggerOrganizer(s, summary)
    \/ \E k \in Filer :
         \/ CheckCooldown(k) \/ TakeDelta(k) \/ ClaimSlot(k) \/ NoAnswer(k)
         \/ \E ops \in Answers(filing[k].feed) : OrganizerAnswers(k, ops) \/ AuthorAnswers(k, ops)
         \/ SaveLastRun(k) \/ SaveSnapshot(k)
         \/ \E op \in filing[k].ops : BeginOp(k, op)
         \/ \E ok, goesOn \in BOOLEAN : EndOp(k, ok, goesOn)
         \/ OpsDone(k)
    \/ IntervalPasses \/ DebouncePasses \/ KbServerDies

KbSpec == KbInit /\ [][KbNext]_kbVars

-----------------------------------------------------------------------------
\* What a session's cursor calls filed was given to an organizer that answered.
CursorIsEarned == \A s \in KbSessions : organized[s] \subseteq answered[s]

\* A fact stays on the page it was written to, until a write that had read it there
\* replaces it or cuts it off: no write loses what it has not read.  Except on a page
\* that was written under two names at once, or that another was renamed onto.
WrittenFactStays ==
    \A w \in wrote : w[1] \in torn \/ w[2] \in doc[w[1]].facts

KnowledgeIsKept == CursorIsEarned /\ WrittenFactStays

\* Not kept by the code (README):
\* "serialise read-modify-write on a single KB page so concurrent background
\* extractions can't lost-update each other" (memory_manager.py 2025-2026).
NoLostUpdate == \A w \in wrote : \E p \in Title : w[2] \in doc[p].facts

\* What a session's cursor calls filed is on a page once the threads are over.
FiledIsOnPages ==
    (\A k \in Filer : filing[k].at \in {"off", "ended"}) =>
        \A s \in KbSessions : \A f \in organized[s] : \E w \in wrote : w[2] = f
=============================================================================
