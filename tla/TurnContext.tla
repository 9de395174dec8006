---------------------------- MODULE TurnContext ----------------------------
(***************************************************************************)
(* What one turn of a session is told: the chat log (models/chatlog.py),   *)
(* the running summary that replaces its older part (summarizer.py), the   *)
(* prefetch cache that replaces both (prefetch.py), and the turn that      *)
(* picks one of them (runtime.py, _do_process_inner).                      *)
(*                                                                         *)
(* Five threads meet here: the handler of each incoming message, the turn, *)
(* the prefetch executor (one thread), the summarizer on the background    *)
(* executor, and the handler of /clear.  None of them holds a lock over    *)
(* the two steps "read the log or the summary" and "write the cache or the *)
(* summary".                                                               *)
(*                                                                         *)
(* A log entry is its timestamp, a number that only grows, its type and    *)
(* the text of the user, which two messages may share; a summary is the    *)
(* set of entries its text was made from, the watermark (0 stands for      *)
(* None) and whether it holds the fact noted by `remember`; the LLM that   *)
(* merges summaries is taken to lose nothing.                              *)
(***************************************************************************)
EXTENDS Integers, Sequences, FiniteSets, SequencesExt

CONSTANTS Msgs,          \* the user's messages
          Texts,         \* what the user may write
          Script,        \* what the user does write, in this order
          HistoryLimit,  \* limit: the messages read when there is no watermark
          TailSize,      \* summarize_tail
          Threshold,     \* summarize_threshold
          MaxPins,       \* bound on facts noted between two clears
          MaxClears,     \* bound on /clear commands
          MaxInputs      \* bound on messages and commands together

ASSUME ContextAssumption ==
    /\ TailSize \in Nat \ {0}
    /\ HistoryLimit \in Nat \ {0}
    /\ Script \in Seq(Texts)
    /\ Threshold \in Nat
    /\ {MaxPins, MaxClears, MaxInputs} \subseteq Nat

VARIABLES
    log,        \* the session's log: a sequence of [ts, type, text]
    clock,      \* the timestamp of the last entry
    row,        \* the session's row in chat_summaries
    handler,    \* handler[m]: how far the handler of message m has come
    tasks,      \* the turns queued for the session, each its message's ts
    inject,     \* the inject queue of a busy session
    turn,       \* the turn in progress and the context it was given
    cache,      \* TurnPrefetcher._cache[session]
    jobs, job,  \* prefetch tasks waiting in the executor, and the one running
    sums, sum,  \* summarizer tasks waiting, and the one running
    pinned,     \* history: how many facts were noted since the last clear
    clear,      \* /clear: commands under way and given; history: what they cleared
    waited      \* history: the user has waited for each answer so far

vars == <<log, clock, row, handler, tasks, inject, turn, cache,
          jobs, job, sums, sum, pinned, clear, waited>>

Entry == [ts : Nat, type : {"user", "final", "error"}, text : Texts \cup {""}]
Summary == [exists : BOOLEAN, mark : Nat, covers : SUBSET Nat, pin : BOOLEAN]
NoRow == [exists |-> FALSE, mark |-> 0, covers |-> {}, pin |-> FALSE]
Prefetched == [state : {"none", "fresh", "old"}, mark : Nat, covers : SUBSET Nat, tail : Seq(Entry)]
NoEntry == [state |-> "none", mark |-> 0, covers |-> {}, tail |-> <<>>]

NoTurn == [pc |-> "idle", msg |-> 0, rec |-> NoRow, note |-> NoRow, covers |-> {},
           tail |-> <<>>, hit |-> FALSE, alias |-> FALSE, floor |-> 0]
NoJob == [pc |-> "idle", rec |-> NoRow, tail |-> <<>>]
NoSum == [pc |-> "idle", rec |-> NoRow, todo |-> {}]

Unsaid == [ts |-> 0, type |-> "user", text |-> ""]
HandlerPlace == {"new", "saved", "invalidated", "done"}
TurnPlace == {"idle", "lookup", "append", "load", "running", "pinning"}
Context == [pc : TurnPlace, msg : Nat, rec : Summary, note : Summary, covers : SUBSET Nat,
            tail : Seq(Entry), hit : BOOLEAN, alias : BOOLEAN, floor : Nat]
JobPlace == {"idle", "read", "store"}

TypeOK ==
    /\ log \in Seq(Entry)
    /\ clock \in Nat
    /\ row \in Summary
    /\ handler \in [Msgs -> [pc : HandlerPlace, said : Entry]]
    /\ tasks \in Seq(Nat)
    /\ inject \in Seq(Entry)
    /\ turn \in Context
    /\ cache \in Prefetched
    /\ jobs \in Nat
    /\ job \in [pc : JobPlace, rec : Summary, tail : Seq(Entry)]
    /\ sums \in Nat
    /\ sum \in [pc : {"idle", "llm"}, rec : Summary, todo : SUBSET Nat]
    /\ pinned \in Nat
    /\ clear \in [open : Nat, given : Nat, upTo : Nat, done : Nat]
    /\ waited \in BOOLEAN

Init ==
    /\ log = <<>>
    /\ clock = 0
    /\ row = NoRow
    /\ handler = [m \in Msgs |-> [pc |-> "new", said |-> Unsaid]]
    /\ tasks = <<>>
    /\ inject = <<>>
    /\ turn = NoTurn
    /\ cache = NoEntry
    /\ jobs = 0
    /\ job = NoJob
    /\ sums = 0
    /\ sum = NoSum
    /\ pinned = 0
    /\ clear = [open |-> 0, given |-> 0, upTo |-> 0, done |-> 0]
    /\ waited = TRUE

Stamps(es) == {es[i].ts : i \in DOMAIN es}

\* The role an entry is given in the context: errors are the assistant's.
SaidByUser(e) == e.type = "user"

Users(es) == {i \in DOMAIN es : SaidByUser(es[i])}

From(es, S) == IF S = {} THEN <<>> ELSE SubSeq(es, Min(S), Len(es))
UpTo(es, S) == IF S = {} THEN <<>> ELSE SubSeq(es, 1, Max(S))

\* The messages that count: errors do not.
Semantic(es) == {i \in DOMAIN es : es[i].type # "error"}
SaidAfter(es, i) == Cardinality({j \in Semantic(es) : j > i})

\* What is read of the log: the entries after the watermark, all of them, or
\* without one the last HistoryLimit messages with the errors between them.
Unread(es, mark) ==
    IF mark = 0 THEN {i \in DOMAIN es : SaidAfter(es, i) < HistoryLimit}
    ELSE {i \in DOMAIN es : es[i].ts > mark}

\* Without a summary the conversation is made to start with a user's message.
History(es, rec) ==
    LET after == From(es, Unread(es, rec.mark))
    IN  IF rec.exists THEN after ELSE From(after, Users(after))

\* The assistant's messages at the end of a context are dropped.
DropTrailingReplies(es) == UpTo(es, Users(es))

\* The messages a turn or a prefetch builds from what it has read.
Assemble(es, rec) == DropTrailingReplies(History(es, rec))

(***************************************************************************)
(* The handler of a message: it saves the message, drops the prefetched    *)
(* context, and hands the message to the running turn or queues a turn.    *)
(***************************************************************************)
Written == Cardinality({m \in Msgs : handler[m].pc # "new"})
MoreInput == Written + clear.given < MaxInputs

Quiet == /\ turn.pc = "idle" /\ tasks = <<>>
         /\ \A m \in Msgs : handler[m].pc \in {"new", "done"}

SaveMessage(m) ==
    /\ handler[m].pc = "new"
    /\ MoreInput
    /\ Written + 1 \in DOMAIN Script
    /\ waited' = (waited /\ Quiet)
    /\ clock' = clock + 1
    /\ LET said == [ts |-> clock', type |-> "user", text |-> Script[Written + 1]]
       IN  /\ log' = Append(log, said)
           /\ handler' = [handler EXCEPT ![m] = [pc |-> "saved", said |-> said]]
    /\ UNCHANGED <<row, tasks, inject, turn, cache, jobs, job, sums, sum, pinned, clear>>

DropEntry ==
    /\ cache' = NoEntry
    /\ turn' = [turn EXCEPT !.alias = FALSE]

Invalidate(m) ==
    /\ handler[m].pc = "saved"
    /\ DropEntry
    /\ handler' = [handler EXCEPT ![m].pc = "invalidated"]
    /\ UNCHANGED <<log, clock, row, tasks, inject, jobs, job, sums, sum, pinned, clear, waited>>

EnqueueMessage(m) ==
    /\ handler[m].pc = "invalidated"
    /\ IF turn.pc # "idle"
       THEN inject' = Append(inject, handler[m].said) /\ UNCHANGED tasks
       ELSE tasks' = Append(tasks, handler[m].said.ts) /\ UNCHANGED inject
    /\ handler' = [handler EXCEPT ![m] = [pc |-> "done", said |-> Unsaid]]
    /\ UNCHANGED <<log, clock, row, turn, cache, jobs, job, sums, sum, pinned, clear, waited>>

(***************************************************************************)
(* The turn.                                                               *)
(***************************************************************************)
StartTurn ==
    /\ turn.pc = "idle"
    /\ tasks # <<>>
    /\ turn' = [NoTurn EXCEPT !.pc = "lookup", !.msg = Head(tasks),
                              !.rec = row, !.floor = clear.done]
    /\ tasks' = Tail(tasks)
    /\ UNCHANGED <<log, clock, row, handler, inject, cache, jobs, job, sums, sum, pinned, clear, waited>>

Hit == cache.state = "fresh" /\ cache.mark = turn.rec.mark

\* try_get returns the entry and leaves it in the cache, or evicts it.
LookUp ==
    /\ turn.pc = "lookup"
    /\ IF Hit
       THEN /\ turn' = [turn EXCEPT !.pc = "append", !.covers = cache.covers,
                                    !.tail = cache.tail, !.hit = TRUE, !.alias = TRUE]
            /\ UNCHANGED cache
       ELSE /\ turn' = [turn EXCEPT !.pc = "load"]
            /\ cache' = NoEntry
    /\ UNCHANGED <<log, clock, row, handler, tasks, inject, jobs, job, sums, sum, pinned, clear, waited>>

\* The list of a hit is the cached list itself: what the turn appends to its
\* messages is appended to the entry as long as the entry is in the cache.
SetTail(t, pc) ==
    /\ turn' = [turn EXCEPT !.tail = t, !.pc = pc]
    /\ cache' = IF turn.alias THEN [cache EXCEPT !.tail = t] ELSE cache

\* A plausible bug: the message is appended without looking at the last one.
MutAppendLastUser ==
    /\ turn.pc = "append"
    /\ IF Users(log) = {} THEN SetTail(turn.tail, "running")
       ELSE SetTail(Append(turn.tail, log[Max(Users(log))]), "running")
    /\ UNCHANGED <<log, clock, row, handler, tasks, inject, jobs, job, sums, sum, pinned, clear, waited>>

\* A context that ends with a message of the user that has this text.
EndsWith(t, text) == t # <<>> /\ SaidByUser(Last(t)) /\ Last(t).text = text

\* A plausible bug: only the role of the last message is compared.
MutRoleOnly ==
    /\ turn.pc = "append"
    /\ LET newest == log[Max(Users(log))]
       IN  IF Users(log) = {} \/ (turn.tail # <<>> /\ SaidByUser(Last(turn.tail)))
           THEN SetTail(turn.tail, "running")
           ELSE SetTail(Append(turn.tail, newest), "running")
    /\ UNCHANGED <<log, clock, row, handler, tasks, inject, jobs, job, sums, sum, pinned, clear, waited>>

\* On a hit only the last user message of the log is added, and only when the
\* context does not end with the same text, whichever message that was.
AppendLastUser ==
    /\ turn.pc = "append"
    /\ LET newest == log[Max(Users(log))]
       IN  IF Users(log) = {} \/ EndsWith(turn.tail, newest.text)
           THEN SetTail(turn.tail, "running")
           ELSE SetTail(Append(turn.tail, newest), "running")
    /\ UNCHANGED <<log, clock, row, handler, tasks, inject, jobs, job, sums, sum, pinned, clear, waited>>

\* A plausible bug: the tail is cut at a watermark read again.
MutLoadHistory ==
    /\ turn.pc = "load"
    /\ turn' = [turn EXCEPT !.pc = "running", !.covers = turn.rec.covers,
                            !.tail = Assemble(log, row)]
    /\ UNCHANGED <<log, clock, row, handler, tasks, inject, cache, jobs, job, sums, sum, pinned, clear, waited>>

LoadHistory ==
    /\ turn.pc = "load"
    /\ turn' = [turn EXCEPT !.pc = "running", !.covers = turn.rec.covers,
                            !.tail = Assemble(log, turn.rec)]
    /\ UNCHANGED <<log, clock, row, handler, tasks, inject, cache, jobs, job, sums, sum, pinned, clear, waited>>

\* The loop takes the injected messages at the start of a round.
TakeInjected ==
    /\ turn.pc = "running"
    /\ inject # <<>>
    /\ SetTail(turn.tail \o inject, "running")
    /\ inject' = <<>>
    /\ UNCHANGED <<log, clock, row, handler, tasks, jobs, job, sums, sum, pinned, clear, waited>>

\* store_memory reads the summary, adds the bullet and writes the row back
\* with the watermark it has read.
ReadPinned ==
    /\ turn.pc = "running"
    /\ pinned < MaxPins
    /\ turn' = [turn EXCEPT !.pc = "pinning", !.note = row]
    /\ UNCHANGED <<log, clock, row, handler, tasks, inject, cache, jobs, job, sums, sum, pinned, clear, waited>>

WritePinned ==
    /\ turn.pc = "pinning"
    /\ row' = [turn.note EXCEPT !.exists = TRUE, !.pin = TRUE]
    /\ pinned' = pinned + 1
    /\ turn' = [turn EXCEPT !.pc = "running", !.note = NoRow]
    /\ UNCHANGED <<log, clock, handler, tasks, inject, cache, jobs, job, sums, sum, clear, waited>>

\* The turn logs its answer or its error, and schedules the summarizer and a
\* prefetch; messages injected too late get a turn of their own.
EndTurn(type) ==
    /\ turn.pc = "running"
    /\ clock' = clock + 1
    /\ log' = Append(log, [ts |-> clock', type |-> type, text |-> ""])
    /\ sums' = sums + 1
    /\ jobs' = jobs + 1
    /\ tasks' = IF inject = <<>> THEN tasks ELSE Append(tasks, Last(inject).ts)
    /\ inject' = <<>>
    /\ turn' = NoTurn
    /\ UNCHANGED <<row, handler, cache, job, sum, pinned, clear, waited>>

(***************************************************************************)
(* The prefetch executor.                                                  *)
(***************************************************************************)
JobReadSummary ==
    /\ job.pc = "idle"
    /\ jobs > 0
    /\ jobs' = jobs - 1
    /\ job' = [NoJob EXCEPT !.pc = "read", !.rec = row]
    /\ UNCHANGED <<log, clock, row, handler, tasks, inject, turn, cache, sums, sum, pinned, clear, waited>>

JobReadLog ==
    /\ job.pc = "read"
    /\ job' = [job EXCEPT !.pc = "store", !.tail = Assemble(log, job.rec)]
    /\ UNCHANGED <<log, clock, row, handler, tasks, inject, turn, cache, jobs, sums, sum, pinned, clear, waited>>

JobStore ==
    /\ job.pc = "store"
    /\ cache' = [state |-> "fresh", mark |-> job.rec.mark,
                 covers |-> job.rec.covers, tail |-> job.tail]
    /\ turn' = [turn EXCEPT !.alias = FALSE]
    /\ job' = NoJob
    /\ UNCHANGED <<log, clock, row, handler, tasks, inject, jobs, sums, sum, pinned, clear, waited>>

\* _PREFETCH_TTL_SECONDS pass.
Expire ==
    /\ cache.state = "fresh"
    /\ cache' = [cache EXCEPT !.state = "old"]
    /\ UNCHANGED <<log, clock, row, handler, tasks, inject, turn, jobs, job, sums, sum, pinned, clear, waited>>

(***************************************************************************)
(* The summarizer.                                                         *)
(***************************************************************************)
\* The entries to fold in: those up to the cut, or, when the summary already
\* reaches the cut, everything after the summary.  The cut leaves TailSize
\* entries, and is not at a user's message.
ToSummarize(es, rec) ==
    LET counted == Semantic(es)
        older == {i \in counted : SaidAfter(es, i) >= TailSize}
        whole == IF older # {} /\ SaidByUser(es[Max(older)]) THEN older \ {Max(older)} ELSE older
        cut == es[Max(whole)].ts
    IN  IF Cardinality(counted) < Threshold \/ whole = {} THEN {}
        ELSE {es[i].ts : i \in {j \in counted : /\ es[j].ts > rec.mark
                                                /\ cut > rec.mark => es[j].ts <= cut}}

SumRead ==
    /\ sums > 0
    /\ sum.pc = "idle"
    /\ sums' = sums - 1
    /\ LET todo == ToSummarize(log, row)
       IN  sum' = IF todo = {} THEN sum ELSE [pc |-> "llm", rec |-> row, todo |-> todo]
    /\ UNCHANGED <<log, clock, row, handler, tasks, inject, turn, cache, jobs, job, pinned, clear, waited>>

\* Another summarization of the session is in progress.
SumSkip ==
    /\ sums > 0
    /\ sum.pc # "idle"
    /\ sums' = sums - 1
    /\ UNCHANGED <<log, clock, row, handler, tasks, inject, turn, cache, jobs, job, sum, pinned, clear, waited>>

\* The text of a summary without a watermark is not built upon.
Base(rec) == IF rec.mark = 0 THEN NoRow ELSE rec

\* A plausible bug: the watermark moves to the cut when a later batch failed.
MutSumWrite(upTo) ==
    /\ sum.pc = "llm"
    /\ row' = IF upTo = 0 THEN row
              ELSE [exists |-> TRUE, mark |-> Max(sum.todo), pin |-> Base(sum.rec).pin,
                    covers |-> Base(sum.rec).covers \cup {ts \in sum.todo : ts <= upTo}]
    /\ sum' = NoSum
    /\ UNCHANGED <<log, clock, handler, tasks, inject, turn, cache, jobs, job, sums, pinned, clear, waited>>

\* The LLM has answered for the entries up to one of them, or for none (a batch
\* may fail or be cut off, and the rest is left for the next run); the row is
\* overwritten.
SumWrite(upTo) ==
    /\ sum.pc = "llm"
    /\ row' = IF upTo = 0 THEN row
              ELSE [exists |-> TRUE, mark |-> upTo, pin |-> Base(sum.rec).pin,
                    covers |-> Base(sum.rec).covers \cup {ts \in sum.todo : ts <= upTo}]
    /\ sum' = NoSum
    /\ UNCHANGED <<log, clock, handler, tasks, inject, turn, cache, jobs, job, sums, pinned, clear, waited>>

(***************************************************************************)
(* /clear: the command handler empties the session, then its caller drops  *)
(* the prefetched context.  Commands may overlap; what was cleared by one  *)
(* that has returned is known for certain when none is under way.          *)
(***************************************************************************)
ClearSession ==
    /\ clear.given < MaxClears
    /\ MoreInput
    /\ log # <<>>
    /\ row' = NoRow
    /\ log' = <<>>
    /\ pinned' = 0
    /\ clear' = [clear EXCEPT !.open = @ + 1, !.given = @ + 1, !.upTo = clock]
    /\ UNCHANGED <<clock, handler, tasks, inject, turn, cache, jobs, job, sums, sum, waited>>

ClearDone ==
    /\ clear.open > 0
    /\ DropEntry
    /\ clear' = [clear EXCEPT !.open = @ - 1,
                              !.done = IF clear.open = 1 THEN clear.upTo ELSE @]
    /\ UNCHANGED <<log, clock, row, handler, tasks, inject, jobs, job, sums, sum, pinned, waited>>

Turn == \/ StartTurn \/ LookUp \/ AppendLastUser \/ LoadHistory \/ TakeInjected
        \/ ReadPinned \/ WritePinned
        \/ \E type \in {"final", "error"} : EndTurn(type)

Background ==
    \/ JobReadSummary \/ JobReadLog \/ JobStore \/ Expire
    \/ SumRead \/ SumSkip
    \/ \E upTo \in sum.todo \union {0} : SumWrite(upTo)

Next ==
    \/ \E m \in Msgs : SaveMessage(m) \/ Invalidate(m) \/ EnqueueMessage(m)
    \/ Turn
    \/ Background
    \/ ClearSession \/ ClearDone

Spec == Init /\ [][Next]_vars

---------------------------------------------------------------------------
Built == turn.pc \in {"running", "pinning"}
Told == turn.covers \cup Stamps(turn.tail)
Counted == {log[i].ts : i \in Semantic(log)}

\* Of what was said since the last /clear the summary holds every message up to
\* its watermark and no other, whatever the order in which the summarizer, a
\* failed batch and the remember tool write it: nothing falls between the
\* summary and the tail of the log (summarizer.py 300-355, memory_manager.py
\* 2083-2116).
SummaryMatchesMark ==
    row.exists =>
        {ts \in row.covers : ts > clear.upTo} = {ts \in Counted : ts <= row.mark}

\* A turn that finds nothing prefetched is told every user message up to the
\* one it answers, in the summary or in the tail, although the summary, the
\* log and the watermark are read at three moments and the summarizer writes
\* in between (runtime.py 2163-2187, 2308-2373).  Only a turn that had no
\* watermark may miss messages, those with HistoryLimit others after them
\* (chatlog.py 390-424).
LoadedHistoryIsWhole ==
    Built /\ ~turn.hit =>
        \A i \in Users(log) :
            log[i].ts <= turn.msg =>
                \/ log[i].ts \in Told
                \/ turn.rec.mark = 0 /\ SaidAfter(log, i) >= HistoryLimit

\* A user who waits for each answer is never quoted twice, also when the
\* prefetch has read the log after the message was saved (runtime.py 2290-2292).
\* A message that is injected into a turn whose history has it is.
NothingIsToldTwice ==
    waited /\ Built => IsInjective(turn.tail)

\* What a turn is told of the conversation has neither gaps nor repetitions (runtime.py
\* 2278-2373).
HistoryIsToldWhole == LoadedHistoryIsWhole /\ NothingIsToldTwice

\* A user who waits for each answer is heard: the turn is told the message it
\* is for, from the prefetched context, from the log or in the summary, whatever
\* the prefetch and the summarizer of the turn before do meanwhile, and also
\* across a /clear (runtime.py 2278-2373).  A prefetched context that ends with
\* the same text from the user counts as telling it (runtime.py 2290-2292).
PatientUserIsHeard ==
    waited /\ Built =>
        \A i \in DOMAIN log :
            log[i].ts = turn.msg =>
                \/ turn.msg \in Told
                \/ turn.hit /\ EndsWith(turn.tail, log[i].text)

---------------------------------------------------------------------------
(* What comments of the code say and the model refutes.                    *)

\* The prefetched context has the whole conversation (runtime.py 2283-2284:
\* "Prefetch already contains the full conversation history (system prompt +
\* all prior turns)").  Violated: the prefetch runs when the log ends with the
\* turn's answer, and drops it.
HitHasWholeHistory ==
    waited /\ Built /\ turn.hit =>
        \A i \in DOMAIN log : log[i].ts < turn.msg /\ log[i].type = "final" => log[i].ts \in Told

\* The new message is added unless the prefetched context has it already
\* (runtime.py 2290-2291: "Guard against the rare race where prefetch ran after
\* the user message was saved and already includes it as the last message").
\* Violated: only the texts are compared.  A user who answers "yes" twice in a
\* row is not quoted the second time, as the prefetched context always ends
\* with the message before, whose answer was dropped.
RepeatedTextIsHeard ==
    waited /\ Built /\ turn.hit /\ (\E i \in DOMAIN log : log[i].ts = turn.msg)
        => turn.msg \in Told

\* A context from before a new user message is not used (prefetch.py 34-36:
\* "lightweight staleness check (if a new user message arrived, the last
\* content will differ)").  Violated: no code makes that check, and only the
\* last message of the log is appended.
HitHearsItsUser ==
    Built /\ turn.hit => turn.msg \in Told

\* After /clear has returned, no turn is told what was cleared
\* (slash_commands.py 261: "Clear chat history and agent LLM log").  Violated:
\* a summarizer or a prefetch that has read the log writes after the clear.
ClearedStaysCleared ==
    Built => \A ts \in Told : ts > turn.floor

\* A noted fact stays in the summary (memory_manager.py 2052-2053: "pinned
\* into the session's running summary so it is immediately visible for the
\* rest of the session").  Violated: the first summary starts from nothing.
NotedFactIsKept == pinned > 0 => row.pin

\* A turn is given the message it answers as a message, also when the summary
\* covers the whole log (runtime.py 2330-2331: "sufficient context is already
\* provided by the summary + the current user message").  Violated: on that
\* path nothing adds the current message.
CurrentMessageIsGiven ==
    Built => turn.msg \in Stamps(turn.tail)
=============================================================================
