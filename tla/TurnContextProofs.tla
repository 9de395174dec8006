------------------------- MODULE TurnContextProofs -------------------------
(* What a turn is told: proofs about TurnContext.                           *)
EXTENDS TurnContext, FiniteSetTheorems, SequenceTheorems, TLAPS

CountedIn(l) == {l[i].ts : i \in Semantic(l)}

\* The stamps of a list grow.
InOrder(l) == \A i, j \in DOMAIN l : i < j => l[i].ts < l[j].ts

\* The log l of a session that was cleared at up, when the last stamp is c.
GoodLog(l, up, c) ==
    /\ up <= c
    /\ \A i \in DOMAIN l : up < l[i].ts /\ l[i].ts <= c
    /\ InOrder(l)

\* A summary of cov with a watermark agrees with the log: since the last clear
\* it has what was said up to the watermark and nothing else.
Agrees(cov, mark, l, up, c) ==
    /\ mark <= c
    /\ \A ts \in cov : ts <= c
    /\ \A ts \in Nat : ts > up => (ts \in cov <=> ts \in CountedIn(l) /\ ts <= mark)

\* What the summarizer will have when it stops after the entry u.
CoveredUpTo(s, u) == Base(s.rec).covers \cup {ts \in s.todo : ts <= u}

LogInv == GoodLog(log, clear.upTo, clock)

\* Not only the row, but also every copy of it that may be written back.
SummaryInv ==
    /\ Agrees(row.covers, row.mark, log, clear.upTo, clock)
    /\ Agrees(turn.rec.covers, turn.rec.mark, log, clear.upTo, clock)
    /\ Agrees(turn.note.covers, turn.note.mark, log, clear.upTo, clock)
    /\ \A u \in sum.todo : Agrees(CoveredUpTo(sum, u), u, log, clear.upTo, clock)

\* No turn is for a message that has not been logged yet.
StampsInv ==
    /\ turn.msg <= clock
    /\ \A i \in DOMAIN tasks : tasks[i] <= clock
    /\ \A i \in DOMAIN inject : inject[i].ts <= clock
    /\ \A m \in Msgs : handler[m].said.ts <= clock

\* Nothing is newer than p, and p is not a reply.
NewestUser(p, l) ==
    /\ \A i \in DOMAIN l : l[i].ts <= p
    /\ \A i \in DOMAIN l : l[i].ts = p => SaidByUser(l[i])

\* A context t that was read from a log l, or from one that is cleared now.
Sound(t, l, up, c) ==
    /\ InOrder(t)
    /\ \A i \in DOMAIN t : t[i].ts <= c
    /\ t # <<>> => SaidByUser(t[Len(t)])
    /\ \A i \in DOMAIN t : t[i].ts > up => \E j \in DOMAIN l : l[j] = t[i]

InHand(m) == handler[m].pc \in {"saved", "invalidated"}

\* While the user waits, one message is on its way: in the hand of its handler,
\* in the queue or in its turn.
OneUnderWay ==
    /\ inject = <<>>
    /\ Len(tasks) <= 1
    /\ turn.pc # "idle" => tasks = <<>>
    /\ \A m \in Msgs : InHand(m) =>
           /\ turn.pc = "idle"
           /\ tasks = <<>>
           /\ \A n \in Msgs : InHand(n) => n = m

\* And it is the newest.
NewestUnderWay ==
    /\ \A m \in Msgs : InHand(m) => NewestUser(handler[m].said.ts, log)
    /\ tasks # <<>> => NewestUser(Head(tasks), log)
    /\ turn.pc # "idle" => NewestUser(turn.msg, log)

ContextsSound ==
    /\ Sound(cache.tail, log, clear.upTo, clock)
    /\ Sound(job.tail, log, clear.upTo, clock)
    /\ Sound(turn.tail, log, clear.upTo, clock)

\* The message of the turn, or what was taken for it.
Heard(e) == e.ts \in Told \/ EndsWith(turn.tail, e.text)

HitIsHeard ==
    Built /\ turn.hit => \A i \in DOMAIN log : log[i].ts = turn.msg => Heard(log[i])

WaitedInv == waited => OneUnderWay /\ NewestUnderWay /\ ContextsSound /\ HitIsHeard

\* Which way a turn takes to its context.
PathInv ==
    /\ turn.pc = "append" => turn.hit
    /\ turn.pc \in {"lookup", "load"} => ~turn.hit

IInv == TypeOK /\ PathInv /\ LogInv /\ SummaryInv /\ StampsInv /\ LoadedHistoryIsWhole /\ WaitedInv

-----------------------------------------------------------------------------
\* Every nonempty set of numbers has a least one: among the segments below its
\* members one has no proper part that is another.
LEMMA LeastElement ==
  ASSUME NEW S \in SUBSET Nat, S # {}
  PROVE  \E n \in S : \A k \in S : n <= k
<1> DEFINE Segments == {1..n : n \in S}
<1>1. Segments \subseteq FiniteSubsetsOf(Nat)
  <2> SUFFICES ASSUME NEW n \in S PROVE 1..n \in FiniteSubsetsOf(Nat)
    OBVIOUS
  <2>1. IsFiniteSet(1..n)
    BY FS_Interval
  <2>2. QED
    BY <2>1 DEF FiniteSubsetsOf
<1>2. PICK s \in Segments : \A r \in Segments : <<r, s>> \notin StrictSubsetOrdering(Nat)
  <2>1. Segments # {}
    OBVIOUS
  <2> HIDE DEF Segments
  <2>2. QED
    BY <1>1, <2>1, FS_StrictSubsetOrderingWellFounded, WFMin
<1>3. PICK n \in S : s = 1..n
  OBVIOUS
<1>4. ASSUME NEW k \in S, k < n PROVE FALSE
  <2>1. 1..k \in Segments /\ 1..k \subseteq 1..n /\ n \in 1..n /\ n \notin 1..k
    BY <1>4
  <2>4. 1..k \in SUBSET Nat /\ 1..n \in SUBSET Nat
    OBVIOUS
  <2>2. <<1..k, s>> \in StrictSubsetOrdering(Nat)
    BY <1>3, <2>1, <2>4 DEF StrictSubsetOrdering
  <2>3. QED
    BY <1>2, <2>1, <2>2
<1>5. QED
  BY <1>4

\* Min and Max are what their names say.
LEMMA MinIsLeast ==
  ASSUME NEW S \in SUBSET Nat, S # {}
  PROVE  Min(S) \in S /\ \A k \in S : Min(S) <= k
BY LeastElement DEF Min

\* A bounded set is counted down from its bound.
LEMMA MaxIsGreatest ==
  ASSUME NEW n \in Nat, NEW S \in SUBSET (0..n), S # {}
  PROVE  Max(S) \in S /\ \A k \in S : k <= Max(S)
<1> DEFINE T == {n - k : k \in S}
<1>1. T \in SUBSET Nat /\ T # {}
  OBVIOUS
<1>2. PICK t \in T : \A k \in T : t <= k
  <2> HIDE DEF T
  <2>1. QED BY <1>1, LeastElement
<1>3. PICK m \in S : t = n - m
  OBVIOUS
<1>4. \A k \in S : m >= k
  BY <1>2, <1>3
<1>5. QED
  BY <1>4 DEF Max

\* The indices of a list are bounded, so a set of them has ends.
LEMMA EndsOfIndices ==
  ASSUME NEW es \in Seq(Entry), NEW S \in SUBSET DOMAIN es, S # {}
  PROVE  /\ Min(S) \in S /\ \A k \in S : Min(S) <= k
         /\ Max(S) \in S /\ \A k \in S : k <= Max(S)
<1>1. Len(es) \in Nat /\ S \in SUBSET (0..Len(es)) /\ S \in SUBSET Nat
  OBVIOUS
<1>2. QED
  BY <1>1, MinIsLeast, MaxIsGreatest

\* What is left of a list is a list of its entries in their order.
PartOf(f, es) ==
    /\ f \in Seq(Entry)
    /\ \A k \in DOMAIN f : \E i \in DOMAIN es : f[k] = es[i]
    /\ InOrder(es) => InOrder(f)

LEMMA NothingIsPart ==
  ASSUME NEW es
  PROVE  PartOf(<<>>, es)
<1>1. <<>> \in Seq(Entry) /\ DOMAIN <<>> = {}
  OBVIOUS
<1>2. QED
  BY <1>1 DEF PartOf, InOrder

\* From keeps what it is asked for.
LEMMA FromKeeps ==
  ASSUME NEW es \in Seq(Entry), NEW S \in SUBSET DOMAIN es
  PROVE  /\ PartOf(From(es, S), es)
         /\ \A i \in S : \E k \in DOMAIN From(es, S) : From(es, S)[k] = es[i]
<1>1. CASE S = {}
  <2>1. From(es, S) = <<>>
    BY <1>1 DEF From
  <2>2. QED
    BY <1>1, <2>1, NothingIsPart
<1>2. CASE S # {}
  <2> DEFINE m == Min(S)
             f == From(es, S)
  <2>1. m \in S /\ \A k \in S : m <= k
    BY <1>2, EndsOfIndices
  <2>2. m \in 1..Len(es) /\ Len(es) \in Nat /\ DOMAIN es = 1..Len(es)
    BY <2>1
  <2>3. f = SubSeq(es, m, Len(es))
    BY <1>2 DEF From
  <2> HIDE DEF m, f
  <2>4. \A i \in m..Len(es) : es[i] \in Entry
    BY <2>2
  <2>5. /\ f \in Seq(Entry)
        /\ Len(f) = Len(es) - m + 1
        /\ \A i \in 1..(Len(es) - m + 1) : f[i] = es[m + i - 1]
    BY <2>2, <2>3, <2>4, SubSeqProperties
  <2>6. DOMAIN f = 1..(Len(es) - m + 1)
    BY <2>5
  <2>7. \A k \in DOMAIN f : m + k - 1 \in DOMAIN es /\ f[k] = es[m + k - 1]
    BY <2>2, <2>5, <2>6
  <2>8. InOrder(es) => InOrder(f)
    BY <2>2, <2>6, <2>7 DEF InOrder
  <2>9. ASSUME NEW i \in S PROVE \E k \in DOMAIN f : f[k] = es[i]
    <3>1. i - m + 1 \in DOMAIN f /\ m + (i - m + 1) - 1 = i
      BY <2>1, <2>2, <2>6
    <3>2. QED
      BY <2>7, <3>1
  <2>10. QED
    BY <2>5, <2>7, <2>8, <2>9 DEF PartOf, f
<1>3. QED
  BY <1>1, <1>2

\* UpTo keeps what it is asked for and ends with the last of it.
LEMMA UpToKeeps ==
  ASSUME NEW es \in Seq(Entry), NEW S \in SUBSET DOMAIN es
  PROVE  /\ PartOf(UpTo(es, S), es)
         /\ \A i \in S : \E k \in DOMAIN UpTo(es, S) : UpTo(es, S)[k] = es[i]
         /\ UpTo(es, S) # <<>> => \E i \in S : UpTo(es, S)[Len(UpTo(es, S))] = es[i]
<1>1. CASE S = {}
  <2>1. UpTo(es, S) = <<>>
    BY <1>1 DEF UpTo
  <2>2. QED
    BY <1>1, <2>1, NothingIsPart
<1>2. CASE S # {}
  <2> DEFINE m == Max(S)
             f == UpTo(es, S)
  <2>1. m \in S /\ \A k \in S : k <= m
    BY <1>2, EndsOfIndices
  <2>2. m \in 1..Len(es) /\ Len(es) \in Nat /\ DOMAIN es = 1..Len(es)
    BY <2>1
  <2>3. f = SubSeq(es, 1, m)
    BY <1>2 DEF UpTo
  <2> HIDE DEF m, f
  <2>4. \A i \in 1..m : es[i] \in Entry
    BY <2>2
  <2>5. /\ f \in Seq(Entry)
        /\ Len(f) = m
        /\ \A i \in 1..m : f[i] = es[i]
    BY <2>2, <2>3, <2>4, SubSeqProperties
  <2>6. DOMAIN f = 1..m
    BY <2>5
  <2>7. \A k \in DOMAIN f : k \in DOMAIN es /\ f[k] = es[k]
    BY <2>2, <2>5, <2>6
  <2>8. InOrder(es) => InOrder(f)
    BY <2>2, <2>6, <2>7 DEF InOrder
  <2>9. ASSUME NEW i \in S PROVE i \in DOMAIN f /\ f[i] = es[i]
    BY <2>1, <2>2, <2>6, <2>7
  <2>10. f[Len(f)] = es[m]
    BY <2>2, <2>5
  <2>11. QED
    BY <2>1, <2>5, <2>7, <2>8, <2>9, <2>10 DEF PartOf, f
<1>3. QED
  BY <1>1, <1>2

LEMMA PartOfPart ==
  ASSUME NEW es, NEW f, NEW g, PartOf(f, es), PartOf(g, f)
  PROVE  PartOf(g, es)
BY DEF PartOf

\* What a turn or a prefetch builds from a log has every message of the user
\* that is read, in the order of the log, and ends with one of them.
LEMMA AssembledIsWhole ==
  ASSUME NEW l \in Seq(Entry), NEW rec \in Summary
  PROVE  LET a == Assemble(l, rec)
         IN  /\ PartOf(a, l)
             /\ \A i \in Users(l) : i \in Unread(l, rec.mark) => \E k \in DOMAIN a : a[k] = l[i]
             /\ a # <<>> => SaidByUser(a[Len(a)])
<1> DEFINE S == Unread(l, rec.mark)
           after == From(l, S)
           h == History(l, rec)
           a == Assemble(l, rec)
<1>1. PartOf(after, l) /\ \A i \in S : \E k \in DOMAIN after : after[k] = l[i]
  <2>1. S \in SUBSET DOMAIN l
    BY DEF Unread
  <2> HIDE DEF S
  <2>2. QED
    BY <2>1, FromKeeps
<1>2. h = IF rec.exists THEN after ELSE From(after, Users(after))
  BY DEF History
<1>3. a = UpTo(h, Users(h))
  BY DEF Assemble, DropTrailingReplies
<1> HIDE DEF S, after, h, a
<1>5. PartOf(h, after) /\ \A k \in Users(after) : \E j \in DOMAIN h : h[j] = after[k]
  <2>1. after \in Seq(Entry)
    BY <1>1 DEF PartOf
  <2>2. CASE rec.exists
    BY <1>2, <2>1, <2>2 DEF PartOf, Users
  <2>3. CASE ~rec.exists
    <3>1. Users(after) \in SUBSET DOMAIN after
      BY DEF Users
    <3>2. QED
      BY <1>2, <2>1, <2>3, <3>1, FromKeeps
  <2>4. QED
    BY <2>2, <2>3
<1>6. /\ PartOf(a, h)
      /\ \A j \in Users(h) : \E k \in DOMAIN a : a[k] = h[j]
      /\ a # <<>> => \E j \in Users(h) : a[Len(a)] = h[j]
  <2>1. h \in Seq(Entry) /\ Users(h) \in SUBSET DOMAIN h
    BY <1>5 DEF PartOf, Users
  <2>2. QED
    BY <1>3, <2>1, UpToKeeps
<1>7. PartOf(a, l)
  BY <1>1, <1>5, <1>6, PartOfPart
<1>8. ASSUME NEW i \in Users(l), i \in Unread(l, rec.mark)
      PROVE  \E k \in DOMAIN a : a[k] = l[i]
  <2>1. PICK k \in DOMAIN after : after[k] = l[i]
    BY <1>1, <1>8 DEF S
  <2>2. k \in Users(after)
    BY <2>1 DEF Users
  <2>3. PICK j \in DOMAIN h : h[j] = after[k]
    BY <1>5, <2>2
  <2>4. j \in Users(h)
    BY <2>1, <2>3 DEF Users
  <2>5. QED
    BY <1>6, <2>1, <2>3, <2>4
<1>9. a # <<>> => SaidByUser(a[Len(a)])
  BY <1>6 DEF Users
<1>10. QED
  BY <1>7, <1>8, <1>9 DEF a

-----------------------------------------------------------------------------
(* Types.                                                                   *)
LEMMA EntriesAre ==
  ASSUME NEW ts \in Nat, NEW type \in {"user", "final", "error"}, NEW text \in Texts \cup {""}
  PROVE  [ts |-> ts, type |-> type, text |-> text] \in Entry
BY DEF Entry

LEMMA WhatIsSaved ==
  ASSUME TypeOK, NEW m \in Msgs, SaveMessage(m)
  PROVE  \E said \in Entry : /\ said.ts = clock + 1
                             /\ SaidByUser(said)
                             /\ log' = Append(log, said)
                             /\ handler' = [handler EXCEPT ![m] = [pc |-> "saved", said |-> said]]
<1> DEFINE said == [ts |-> clock + 1, type |-> "user", text |-> Script[Written + 1]]
<1>1. clock + 1 \in Nat /\ Script[Written + 1] \in Texts
  BY ContextAssumption DEF TypeOK, SaveMessage
<1>2. said \in Entry /\ said.ts = clock + 1 /\ SaidByUser(said)
  BY <1>1, EntriesAre DEF SaidByUser
<1>3. /\ log' = Append(log, said)
      /\ handler' = [handler EXCEPT ![m] = [pc |-> "saved", said |-> said]]
  BY DEF SaveMessage
<1> HIDE DEF said
<1>4. QED
  BY <1>2, <1>3

LEMMA UnsaidIsEntry == Unsaid \in Entry /\ Unsaid.ts = 0
BY DEF Unsaid, Entry

LEMMA StampsOfList ==
  ASSUME NEW q \in Seq(Entry)
  PROVE  \A i \in DOMAIN q : q[i] \in Entry /\ q[i].ts \in Nat
<1>1. \A i \in DOMAIN q : q[i] \in Entry
  OBVIOUS
<1>2. \A e \in Entry : e.ts \in Nat
  BY DEF Entry
<1>3. QED
  BY <1>1, <1>2

LEMMA WhatIsAnswered ==
  ASSUME TypeOK, NEW type \in {"final", "error"}, EndTurn(type)
  PROVE  \E e \in Entry : /\ e.ts = clock + 1
                          /\ log' = Append(log, e)
                          /\ clock' = clock + 1 /\ clock' \in Nat
                          /\ clear' = clear
<1> DEFINE e == [ts |-> clock + 1, type |-> type, text |-> ""]
<1>1. clock + 1 \in Nat /\ clock' = clock + 1
  <2>1. clock \in Nat
    BY DEF TypeOK
  <2>2. clock' = clock + 1
    BY DEF EndTurn
  <2>3. QED
    BY <2>1, <2>2
<1>2. e \in Entry /\ e.ts = clock + 1
  BY <1>1, EntriesAre
<1>3. log' = Append(log, e) /\ clear' = clear
  BY <1>1 DEF EndTurn
<1> HIDE DEF e
<1>4. QED
  BY <1>1, <1>2, <1>3

LEMMA NoRowIsSummary == NoRow \in Summary
BY DEF NoRow, Summary

LEMMA NothingCached == NoEntry \in Prefetched /\ NoTurn \in Context
<1>1. <<>> \in Seq(Entry)
  OBVIOUS
<1>2. QED
  BY <1>1, NoRowIsSummary DEF NoEntry, NoTurn, Prefetched, Context, TurnPlace

LEMMA AssembledType ==
  ASSUME NEW l \in Seq(Entry), NEW rec \in Summary
  PROVE  Assemble(l, rec) \in Seq(Entry)
BY AssembledIsWhole DEF PartOf

LEMMA BaseType ==
  ASSUME NEW rec \in Summary
  PROVE  Base(rec) \in Summary
BY NoRowIsSummary DEF Base

LEMMA ToSummarizeType ==
  ASSUME NEW l \in Seq(Entry), NEW rec \in Summary
  PROVE  ToSummarize(l, rec) \in SUBSET Nat
<1>1. \A e \in Entry : e.ts \in Nat
  BY DEF Entry
<1> DEFINE counted == Semantic(l)
<1>2. \A i \in counted : l[i].ts \in Nat
  BY <1>1 DEF Semantic
<1>3. \E T \in SUBSET counted : ToSummarize(l, rec) = {} \/ ToSummarize(l, rec) = {l[i].ts : i \in T}
  BY DEF ToSummarize
<1>4. QED
  BY <1>2, <1>3

LEMMA TypeInit == Init => TypeOK
<1> SUFFICES ASSUME Init PROVE TypeOK
  OBVIOUS
<1>1. <<>> \in Seq(Entry) /\ <<>> \in Seq(Nat)
  OBVIOUS
<1>2. QED
  BY <1>1, NoRowIsSummary, NothingCached
     DEF Init, TypeOK, NoJob, NoSum, HandlerPlace, JobPlace, Unsaid, Entry

LEMMA TailSet ==
  ASSUME TypeOK, NEW t \in Seq(Entry), NEW pc \in TurnPlace, SetTail(t, pc)
  PROVE  turn' \in Context /\ cache' \in Prefetched
<1>1. turn' \in Context
  BY DEF TypeOK, SetTail, Context
<1>2. cache' \in Prefetched
  BY DEF TypeOK, SetTail, Prefetched
<1>3. QED
  BY <1>1, <1>2

LEMMA TypeStep == TypeOK /\ [Next]_vars => TypeOK'
<1> SUFFICES ASSUME TypeOK, [Next]_vars PROVE TypeOK'
  OBVIOUS
<1>1. ASSUME NEW m \in Msgs, SaveMessage(m) PROVE TypeOK'
  <2>1. PICK said \in Entry : /\ log' = Append(log, said)
                              /\ handler' = [handler EXCEPT ![m] = [pc |-> "saved", said |-> said]]
    BY <1>1, WhatIsSaved
  <2>2. log' \in Seq(Entry)
    BY <2>1 DEF TypeOK
  <2>3. handler' \in [Msgs -> [pc : HandlerPlace, said : Entry]]
    BY <2>1 DEF TypeOK, HandlerPlace
  <2>4. clock' \in Nat /\ waited' \in BOOLEAN
    BY <1>1 DEF TypeOK, SaveMessage, Quiet
  <2>5. QED
    BY <1>1, <2>2, <2>3, <2>4 DEF TypeOK, SaveMessage
<1>2. ASSUME NEW m \in Msgs, Invalidate(m) PROVE TypeOK'
  <2>1. turn' \in Context /\ cache' \in Prefetched
    BY <1>2, NothingCached DEF TypeOK, Invalidate, DropEntry, Context
  <2>2. QED
    BY <1>2, <2>1 DEF TypeOK, Invalidate, HandlerPlace
<1>3. ASSUME NEW m \in Msgs, EnqueueMessage(m) PROVE TypeOK'
  <2>1. /\ handler[m].said \in Entry /\ handler[m].said.ts \in Nat
        /\ tasks \in Seq(Nat) /\ inject \in Seq(Entry)
    BY DEF TypeOK, Entry
  <2>2. tasks' \in Seq(Nat) /\ inject' \in Seq(Entry)
    <3> DEFINE said == handler[m].said
    <3>1. Append(tasks, said.ts) \in Seq(Nat) /\ Append(inject, said) \in Seq(Entry)
      BY <2>1
    <3>2. QED
      BY <1>3, <2>1, <3>1 DEF EnqueueMessage
  <2>3. handler' \in [Msgs -> [pc : HandlerPlace, said : Entry]]
    <3>1. handler' = [handler EXCEPT ![m] = [pc |-> "done", said |-> Unsaid]]
      BY <1>3 DEF EnqueueMessage
    <3>2. QED
      BY <3>1, UnsaidIsEntry DEF TypeOK, HandlerPlace
  <2>4. QED
    BY <1>3, <2>2, <2>3 DEF TypeOK, EnqueueMessage
<1>4. CASE StartTurn
  <2>1. Head(tasks) \in Nat /\ Tail(tasks) \in Seq(Nat)
    BY <1>4 DEF TypeOK, StartTurn
  <2>2. turn' \in Context
    BY <1>4, <2>1, NothingCached DEF TypeOK, StartTurn, Context, TurnPlace
  <2>3. QED
    BY <1>4, <2>1, <2>2 DEF TypeOK, StartTurn
<1>5. CASE LookUp
  <2>0. cache.covers \in SUBSET Nat /\ cache.tail \in Seq(Entry)
    BY DEF TypeOK, Prefetched
  <2>1. turn' \in Context
    <3>1. CASE Hit
      <4>1. turn' = [turn EXCEPT !.pc = "append", !.covers = cache.covers,
                                 !.tail = cache.tail, !.hit = TRUE, !.alias = TRUE]
        BY <1>5, <3>1 DEF LookUp
      <4>2. turn \in Context
        BY DEF TypeOK
      <4>3. QED
        BY <2>0, <4>1, <4>2 DEF Context, TurnPlace
    <3>2. CASE ~Hit
      <4>1. turn' = [turn EXCEPT !.pc = "load"] /\ turn \in Context
        BY <1>5, <3>2 DEF TypeOK, LookUp
      <4>2. QED
        BY <4>1 DEF Context, TurnPlace
    <3>3. QED
      BY <3>1, <3>2
  <2>2. cache' \in Prefetched
    BY <1>5, NothingCached DEF TypeOK, LookUp
  <2>3. QED
    BY <1>5, <2>1, <2>2 DEF TypeOK, LookUp
<1>6. CASE AppendLastUser
  <2>1. Users(log) # {} => log[Max(Users(log))] \in Entry
    <3>1. log \in Seq(Entry) /\ Users(log) \in SUBSET DOMAIN log
      BY DEF TypeOK, Users
    <3>2. QED
      BY <3>1, EndsOfIndices
  <2> DEFINE newest == log[Max(Users(log))]
  <2>2. /\ turn.tail \in Seq(Entry)
        /\ Users(log) # {} => Append(turn.tail, newest) \in Seq(Entry)
    BY <2>1 DEF TypeOK, Context
  <2>4. \/ SetTail(turn.tail, "running")
        \/ Users(log) # {} /\ SetTail(Append(turn.tail, newest), "running")
    BY <1>6 DEF AppendLastUser
  <2> HIDE DEF newest
  <2>3. turn' \in Context /\ cache' \in Prefetched
    BY <2>2, <2>4, TailSet DEF TurnPlace
  <2>5. QED
    BY <1>6, <2>3 DEF TypeOK, AppendLastUser
<1>7. CASE LoadHistory
  <2>1. turn.rec \in Summary
    BY DEF TypeOK, Context
  <2>2. turn.rec.covers \in SUBSET Nat /\ Assemble(log, turn.rec) \in Seq(Entry)
    BY <2>1, AssembledType DEF TypeOK, Summary
  <2>3. turn' \in Context
    BY <1>7, <2>2 DEF TypeOK, LoadHistory, Context, TurnPlace
  <2>4. QED
    BY <1>7, <2>3 DEF TypeOK, LoadHistory
<1>8. CASE TakeInjected
  <2>2. turn.tail \o inject \in Seq(Entry)
    BY DEF TypeOK, Context
  <2>3. SetTail(turn.tail \o inject, "running")
    BY <1>8 DEF TakeInjected
  <2>4. turn' \in Context /\ cache' \in Prefetched
    BY <2>2, <2>3, TailSet DEF TurnPlace
  <2>5. QED
    BY <1>8, <2>4 DEF TypeOK, TakeInjected
<1>9. CASE ReadPinned
  <2>1. turn' \in Context
    BY <1>9 DEF TypeOK, ReadPinned, Context, TurnPlace
  <2>2. QED
    BY <1>9, <2>1 DEF TypeOK, ReadPinned
<1>10. CASE WritePinned
  <2>1. turn' \in Context
    BY <1>10, NoRowIsSummary DEF TypeOK, WritePinned, Context, TurnPlace
  <2>2. row' \in Summary
    BY <1>10 DEF TypeOK, WritePinned, Context, Summary
  <2>3. QED
    BY <1>10, <2>1, <2>2 DEF TypeOK, WritePinned
<1>11. ASSUME NEW type \in {"final", "error"}, EndTurn(type) PROVE TypeOK'
  <2>1. clock' \in Nat /\ log' \in Seq(Entry)
    <3>1. PICK e \in Entry : log' = Append(log, e) /\ clock' \in Nat
      BY <1>11, WhatIsAnswered
    <3>2. log \in Seq(Entry)
      BY DEF TypeOK
    <3>3. QED
      BY <3>1, <3>2
  <2>2. inject # <<>> => Last(inject).ts \in Nat
    <3>1. inject \in Seq(Entry)
      BY DEF TypeOK
    <3>2. inject # <<>> => Len(inject) \in DOMAIN inject
      BY <3>1
    <3>3. QED
      BY <3>1, <3>2, StampsOfList DEF Last
  <2>3. tasks' \in Seq(Nat) /\ inject' \in Seq(Entry)
    <3> DEFINE ts == Last(inject).ts
    <3>1. /\ tasks' = IF inject = <<>> THEN tasks ELSE Append(tasks, ts)
          /\ inject' = <<>>
      BY <1>11 DEF EndTurn
    <3>2. tasks \in Seq(Nat)
      BY DEF TypeOK
    <3> HIDE DEF ts
    <3>3. inject # <<>> => ts \in Nat
      BY <2>2 DEF ts
    <3>4. QED
      BY <3>1, <3>2, <3>3
  <2>4. turn' = NoTurn /\ sums' = sums + 1 /\ jobs' = jobs + 1
    BY <1>11 DEF EndTurn
  <2>5. turn' \in Context /\ sums' \in Nat /\ jobs' \in Nat
    BY <2>4, NothingCached DEF TypeOK
  <2>6. UNCHANGED <<row, handler, cache, job, sum, pinned, clear, waited>>
    BY <1>11 DEF EndTurn
  <2>7. QED
    BY <2>1, <2>3, <2>5, <2>6 DEF TypeOK
<1>12. CASE JobReadSummary
  <2>1. <<>> \in Seq(Entry)
    OBVIOUS
  <2>2. job' = [pc |-> "read", rec |-> row, tail |-> <<>>]
    BY <1>12 DEF JobReadSummary, NoJob
  <2>3. job' \in [pc : JobPlace, rec : Summary, tail : Seq(Entry)]
    BY <2>1, <2>2 DEF TypeOK, JobPlace
  <2>4. QED
    BY <1>12, <2>3 DEF TypeOK, JobReadSummary
<1>13. CASE JobReadLog
  <2>1. Assemble(log, job.rec) \in Seq(Entry)
    BY AssembledType DEF TypeOK
  <2>2. job' \in [pc : JobPlace, rec : Summary, tail : Seq(Entry)]
    <3> DEFINE t == Assemble(log, job.rec)
    <3>1. job' = [job EXCEPT !.pc = "store", !.tail = t] /\ t \in Seq(Entry)
      BY <1>13, <2>1 DEF JobReadLog
    <3> HIDE DEF t
    <3>2. QED
      BY <3>1 DEF TypeOK, JobPlace
  <2>3. QED
    BY <1>13, <2>2 DEF TypeOK, JobReadLog
<1>14. CASE JobStore
  <2>1. turn' \in Context
    BY <1>14 DEF TypeOK, JobStore, Context
  <2>2. cache' \in Prefetched
    BY <1>14 DEF TypeOK, JobStore, Prefetched, Summary
  <2>3. <<>> \in Seq(Entry)
    OBVIOUS
  <2>4. job' \in [pc : JobPlace, rec : Summary, tail : Seq(Entry)]
    BY <1>14, <2>3, NoRowIsSummary DEF JobStore, NoJob, JobPlace
  <2>5. QED
    BY <1>14, <2>1, <2>2, <2>4 DEF TypeOK, JobStore
<1>15. CASE Expire
  <2>1. cache' \in Prefetched
    BY <1>15 DEF TypeOK, Expire, Prefetched
  <2>2. QED
    BY <1>15, <2>1 DEF TypeOK, Expire
<1>16. CASE SumRead
  <2>1. ToSummarize(log, row) \in SUBSET Nat
    BY ToSummarizeType DEF TypeOK
  <2>2. QED
    BY <1>16, <2>1 DEF TypeOK, SumRead
<1>17. CASE SumSkip
  BY <1>17 DEF TypeOK, SumSkip
<1>18. ASSUME NEW upTo \in sum.todo \union {0}, SumWrite(upTo) PROVE TypeOK'
  <2>1. upTo \in Nat /\ Base(sum.rec) \in Summary
    BY BaseType DEF TypeOK
  <2>2. row' \in Summary
    BY <1>18, <2>1 DEF TypeOK, SumWrite, Summary
  <2>3. QED
    BY <1>18, <2>2, NoRowIsSummary DEF TypeOK, SumWrite, NoSum
<1>19. CASE ClearSession
  <2>1. <<>> \in Seq(Entry)
    OBVIOUS
  <2>2. clear' \in [open : Nat, given : Nat, upTo : Nat, done : Nat]
    <3> DEFINE o == clear.open + 1
               g == clear.given + 1
    <3>1. clear' = [clear EXCEPT !.open = o, !.given = g, !.upTo = clock]
      BY <1>19 DEF ClearSession
    <3>2. /\ clear \in [open : Nat, given : Nat, upTo : Nat, done : Nat]
          /\ o \in Nat /\ g \in Nat /\ clock \in Nat
      BY DEF TypeOK
    <3> HIDE DEF o, g
    <3>3. QED
      BY <3>1, <3>2
  <2>3. QED
    BY <1>19, <2>1, <2>2, NoRowIsSummary DEF TypeOK, ClearSession
<1>20. CASE ClearDone
  <2>1. turn' \in Context /\ cache' \in Prefetched
    BY <1>20, NothingCached DEF TypeOK, ClearDone, DropEntry, Context
  <2>2. clear' \in [open : Nat, given : Nat, upTo : Nat, done : Nat]
    <3> DEFINE o == clear.open - 1
               d == IF clear.open = 1 THEN clear.upTo ELSE clear.done
    <3>1. clear' = [clear EXCEPT !.open = o, !.done = d]
      BY <1>20 DEF ClearDone
    <3>2. clear \in [open : Nat, given : Nat, upTo : Nat, done : Nat]
      BY DEF TypeOK
    <3>3. o \in Nat /\ d \in Nat
      BY <1>20, <3>2 DEF ClearDone
    <3> HIDE DEF o, d
    <3>4. QED
      BY <3>1, <3>2, <3>3
  <2>3. QED
    BY <1>20, <2>1, <2>2 DEF TypeOK, ClearDone
<1>21. CASE UNCHANGED vars
  BY <1>21 DEF TypeOK, vars
<1>22. QED
  BY <1>1, <1>2, <1>3, <1>4, <1>5, <1>6, <1>7, <1>8, <1>9, <1>10, <1>11, <1>12,
     <1>13, <1>14, <1>15, <1>16, <1>17, <1>18, <1>19, <1>20, <1>21
     DEF Next, Turn, Background

-----------------------------------------------------------------------------
(* The log: a step leaves it, appends an entry with a new stamp or empties  *)
(* it, and what was true of a copy of the summary or of a context stays so. *)
Appended(e) ==
    /\ e \in Entry
    /\ e.ts = clock + 1
    /\ log' = Append(log, e)
    /\ clock' = clock + 1
    /\ clear' = clear

LogMoves ==
    \/ log' = log /\ clock' = clock /\ clear'.upTo = clear.upTo
    \/ \E e \in Entry : Appended(e)
    \/ log' = <<>> /\ clock' = clock /\ clear'.upTo = clock

LEMMA EveryStepMovesTheLog == TypeOK /\ [Next]_vars => LogMoves
<1> SUFFICES ASSUME TypeOK, [Next]_vars PROVE LogMoves
  OBVIOUS
<1>2. ASSUME NEW m \in Msgs, SaveMessage(m) PROVE LogMoves
  <2>1. PICK said \in Entry : said.ts = clock + 1 /\ log' = Append(log, said)
    BY <1>2, WhatIsSaved
  <2>2. clock' = clock + 1 /\ clear' = clear
    BY <1>2 DEF SaveMessage
  <2>3. QED
    BY <2>1, <2>2 DEF LogMoves, Appended
<1>3. ASSUME NEW type \in {"final", "error"}, EndTurn(type) PROVE LogMoves
  BY <1>3, WhatIsAnswered DEF LogMoves, Appended
<1>4. CASE ClearSession
  BY <1>4 DEF ClearSession, LogMoves, TypeOK
<1>5. CASE ClearDone
  BY <1>5 DEF ClearDone, LogMoves, TypeOK
<1>6. ASSUME log' = log, clock' = clock, clear' = clear PROVE LogMoves
  BY <1>6 DEF LogMoves
<1>7. ASSUME NEW m \in Msgs, Invalidate(m) \/ EnqueueMessage(m) PROVE LogMoves
  BY <1>6, <1>7 DEF Invalidate, EnqueueMessage
<1>8. CASE StartTurn \/ LookUp \/ AppendLastUser \/ LoadHistory \/ TakeInjected
  BY <1>6, <1>8 DEF StartTurn, LookUp, AppendLastUser, LoadHistory, TakeInjected
<1>9. CASE ReadPinned \/ WritePinned \/ JobReadSummary \/ JobReadLog \/ JobStore \/ Expire
  BY <1>6, <1>9 DEF ReadPinned, WritePinned, JobReadSummary, JobReadLog, JobStore, Expire
<1>10. CASE SumRead \/ SumSkip \/ \E upTo \in sum.todo \union {0} : SumWrite(upTo)
  BY <1>6, <1>10 DEF SumRead, SumSkip, SumWrite
<1>11. CASE UNCHANGED vars
  BY <1>6, <1>11 DEF vars
<1>12. QED
  BY <1>2, <1>3, <1>4, <1>5, <1>7, <1>8, <1>9, <1>10, <1>11 DEF Next, Turn, Background

\* What Append does to the entries and to the stamps of what was said.
LEMMA AppendedEntries ==
  ASSUME NEW l \in Seq(Entry), NEW e \in Entry
  PROVE  /\ Append(l, e) \in Seq(Entry)
         /\ DOMAIN Append(l, e) = DOMAIN l \cup {Len(l) + 1}
         /\ Len(l) \in Nat /\ DOMAIN l = 1..Len(l)
         /\ \A i \in DOMAIN l : Append(l, e)[i] = l[i]
         /\ Append(l, e)[Len(l) + 1] = e
OBVIOUS

LEMMA AppendedStamps ==
  ASSUME NEW l \in Seq(Entry), NEW e \in Entry
  PROVE  CountedIn(Append(l, e)) = CountedIn(l) \cup (IF e.type = "error" THEN {} ELSE {e.ts})
<1> DEFINE k == Append(l, e)
<1>1. /\ DOMAIN k = DOMAIN l \cup {Len(l) + 1}
      /\ \A i \in DOMAIN l : k[i] = l[i]
      /\ k[Len(l) + 1] = e
  BY AppendedEntries
<1> HIDE DEF k
<1>2. CountedIn(k) = CountedIn(l) \cup (IF e.type = "error" THEN {} ELSE {e.ts})
  BY <1>1 DEF CountedIn, Semantic
<1>3. QED
  BY <1>2 DEF k

LEMMA LogStep == TypeOK /\ LogInv /\ LogMoves => LogInv'
<1> SUFFICES ASSUME TypeOK, LogInv, LogMoves PROVE LogInv'
  OBVIOUS
<1>0. clock \in Nat /\ clear.upTo \in Nat /\ log \in Seq(Entry)
  BY DEF TypeOK
<1>5. \A i \in DOMAIN log : log[i].ts \in Nat
  <2>1. \A i \in DOMAIN log : log[i] \in Entry
    BY <1>0
  <2>2. QED
    BY <2>1 DEF Entry
<1>1. CASE log' = log /\ clock' = clock /\ clear'.upTo = clear.upTo
  BY <1>1 DEF LogInv
<1>2. ASSUME NEW e \in Entry, Appended(e) PROVE LogInv'
  <2>1. /\ log' = Append(log, e)
        /\ clock' = clock + 1
        /\ clear' = clear
        /\ e.ts = clock + 1
    BY <1>2 DEF Appended
  <2>2. /\ DOMAIN log' = DOMAIN log \cup {Len(log) + 1}
        /\ Len(log) \in Nat /\ DOMAIN log = 1..Len(log)
        /\ \A i \in DOMAIN log : log'[i] = log[i]
        /\ log'[Len(log) + 1] = e
    BY <1>0, <2>1, AppendedEntries
  <2>3. InOrder(log')
    BY <1>0, <1>5, <2>1, <2>2 DEF LogInv, GoodLog, InOrder
  <2>4. clear'.upTo <= clock' /\ \A i \in DOMAIN log' : clear'.upTo < log'[i].ts /\ log'[i].ts <= clock'
    BY <1>0, <1>5, <2>1, <2>2 DEF LogInv, GoodLog
  <2>5. QED
    BY <2>3, <2>4 DEF LogInv, GoodLog
<1>3. CASE log' = <<>> /\ clock' = clock /\ clear'.upTo = clock
  BY <1>0, <1>3 DEF LogInv, GoodLog, InOrder
<1>4. QED
  BY <1>1, <1>2, <1>3 DEF LogMoves

\* The stamps of what was said are behind the clock.
LEMMA CountedIsPast ==
  ASSUME NEW l, NEW up, NEW c, GoodLog(l, up, c)
  PROVE  \A ts \in CountedIn(l) : ts <= c
BY DEF GoodLog, CountedIn, Semantic

LEMMA CopyStaysRight ==
  ASSUME TypeOK, LogInv, LogMoves, NEW cov \in SUBSET Nat, NEW mark \in Nat,
         Agrees(cov, mark, log, clear.upTo, clock)
  PROVE  Agrees(cov, mark, log', clear'.upTo, clock')
<1>0. clock \in Nat /\ clear.upTo \in Nat /\ log \in Seq(Entry)
  BY DEF TypeOK
<1>1. CASE log' = log /\ clock' = clock /\ clear'.upTo = clear.upTo
  BY <1>1
<1>2. ASSUME NEW e \in Entry, Appended(e) PROVE Agrees(cov, mark, log', clear'.upTo, clock')
  <2>1. /\ log' = Append(log, e)
        /\ clock' = clock + 1
        /\ clear'.upTo = clear.upTo
        /\ e.ts = clock + 1
    BY <1>2 DEF Appended
  <2>2. CountedIn(log') = CountedIn(log) \cup (IF e.type = "error" THEN {} ELSE {e.ts})
    BY <1>0, <2>1, AppendedStamps
  <2>3. mark <= clock /\ \A ts \in cov : ts <= clock
    BY DEF Agrees
  <2>4. \A ts \in Nat : ts > clear.upTo => (ts \in cov <=> ts \in CountedIn(log') /\ ts <= mark)
    BY <1>0, <2>1, <2>2, <2>3 DEF Agrees
  <2>5. QED
    BY <1>0, <2>1, <2>3, <2>4 DEF Agrees
<1>3. CASE log' = <<>> /\ clock' = clock /\ clear'.upTo = clock
  <2>1. CountedIn(log') = {}
    BY <1>3 DEF CountedIn, Semantic
  <2>2. QED
    BY <1>0, <1>3, <2>1 DEF Agrees
<1>4. QED
  BY <1>1, <1>2, <1>3 DEF LogMoves

LEMMA ContextStaysSound ==
  ASSUME TypeOK, LogInv, LogMoves, NEW t \in Seq(Entry),
         Sound(t, log, clear.upTo, clock)
  PROVE  Sound(t, log', clear'.upTo, clock')
<1>0. clock \in Nat /\ clear.upTo \in Nat /\ log \in Seq(Entry)
  BY DEF TypeOK
<1>5. \A i \in DOMAIN t : t[i].ts \in Nat
  <2>1. \A i \in DOMAIN t : t[i] \in Entry
    OBVIOUS
  <2>2. QED
    BY <2>1 DEF Entry
<1>1. CASE log' = log /\ clock' = clock /\ clear'.upTo = clear.upTo
  BY <1>1
<1>2. ASSUME NEW e \in Entry, Appended(e) PROVE Sound(t, log', clear'.upTo, clock')
  <2>1. /\ log' = Append(log, e)
        /\ clock' = clock + 1
        /\ clear'.upTo = clear.upTo
    BY <1>2 DEF Appended
  <2>2. DOMAIN log \subseteq DOMAIN log' /\ \A i \in DOMAIN log : log'[i] = log[i]
    BY <1>0, <2>1, AppendedEntries
  <2>3. \A i \in DOMAIN t : t[i].ts <= clock + 1
    BY <1>0, <1>5 DEF Sound
  <2>4. QED
    BY <2>1, <2>2, <2>3 DEF Sound
<1>3. CASE log' = <<>> /\ clock' = clock /\ clear'.upTo = clock
  BY <1>0, <1>5, <1>3 DEF Sound
<1>4. QED
  BY <1>1, <1>2, <1>3 DEF LogMoves

-----------------------------------------------------------------------------
(* The summary and its copies.                                              *)
Right(cov, mark) == Agrees(cov, mark, log, clear.upTo, clock)

\* All that may be written to the row later.
CopiesRight(r, t, s) ==
    /\ Right(r.covers, r.mark)
    /\ Right(t.rec.covers, t.rec.mark)
    /\ Right(t.note.covers, t.note.mark)
    /\ \A u \in s.todo : Right(CoveredUpTo(s, u), u)

LEMMA NothingIsRight ==
  ASSUME TypeOK
  PROVE  Right({}, 0) /\ Right(NoRow.covers, NoRow.mark)
BY DEF TypeOK, Right, Agrees, NoRow

\* A summary without a watermark holds nothing that was said since the clear,
\* so that starting again from nothing is no loss.
LEMMA BaseIsRight ==
  ASSUME TypeOK, NEW rec \in Summary, Right(rec.covers, rec.mark)
  PROVE  Right(Base(rec).covers, rec.mark)
BY NothingIsRight DEF Base, NoRow

\* The entries that are folded in are all that was said after the watermark up
\* to the last of them.
LEMMA TodoIsGapless ==
  ASSUME TypeOK, LogInv, Right(row.covers, row.mark),
         NEW u \in ToSummarize(log, row)
  PROVE  LET s == [pc |-> "llm", rec |-> row, todo |-> ToSummarize(log, row)]
         IN  Right(CoveredUpTo(s, u), u)
<1> DEFINE counted == Semantic(log)
           todo == ToSummarize(log, row)
           s == [pc |-> "llm", rec |-> row, todo |-> todo]
<1>0. log \in Seq(Entry) /\ row \in Summary /\ clock \in Nat /\ clear.upTo \in Nat
  BY DEF TypeOK
<1>1. (\A i \in DOMAIN log : log[i].ts \in Nat) /\ counted \subseteq DOMAIN log
  <2>1. \A i \in DOMAIN log : log[i] \in Entry
    BY <1>0
  <2>2. QED
    BY <2>1 DEF Entry, Semantic
<1>2. CountedIn(log) = {log[i].ts : i \in counted}
  BY DEF CountedIn
<1> HIDE DEF counted
<1>3. row.mark \in Nat /\ row.covers \in SUBSET Nat
  BY <1>0 DEF Summary
<1>4. PICK w \in SUBSET counted :
        /\ w # {}
        /\ todo = {log[i].ts : i \in {j \in counted :
                      /\ log[j].ts > row.mark
                      /\ log[Max(w)].ts > row.mark => log[j].ts <= log[Max(w)].ts}}
  <2> DEFINE older == {i \in counted : SaidAfter(log, i) >= TailSize}
             whole == IF older # {} /\ SaidByUser(log[Max(older)])
                      THEN older \ {Max(older)} ELSE older
  <2>1. whole \in SUBSET counted
    OBVIOUS
  <2>2. todo # {}
    OBVIOUS
  <2>3. /\ whole # {}
        /\ todo = {log[i].ts : i \in {j \in counted :
                      /\ log[j].ts > row.mark
                      /\ log[Max(whole)].ts > row.mark => log[j].ts <= log[Max(whole)].ts}}
    BY <2>2 DEF ToSummarize, counted
  <2> HIDE DEF whole
  <2>4. QED
    BY <2>1, <2>3
<1>5. Max(w) \in DOMAIN log
  <2>1. w \in SUBSET DOMAIN log
    BY <1>1
  <2>2. QED
    BY <1>0, <1>4, <2>1, EndsOfIndices
<1> DEFINE cut == log[Max(w)].ts
<1>6. cut \in Nat
  BY <1>1, <1>5
<1>7. /\ todo = {log[i].ts : i \in {j \in counted :
                      log[j].ts > row.mark /\ (cut > row.mark => log[j].ts <= cut)}}
      /\ u \in todo
  BY <1>4
<1> HIDE DEF cut, todo
<1>8. /\ \A ts \in todo : ts \in CountedIn(log) /\ ts > row.mark /\ (cut > row.mark => ts <= cut)
      /\ \A ts \in CountedIn(log) : ts > row.mark /\ (cut > row.mark => ts <= cut) => ts \in todo
  <2>1. ASSUME NEW ts \in todo
        PROVE  ts \in CountedIn(log) /\ ts > row.mark /\ (cut > row.mark => ts <= cut)
    BY <1>2, <1>7
  <2>2. ASSUME NEW ts \in CountedIn(log), ts > row.mark, cut > row.mark => ts <= cut
        PROVE  ts \in todo
    <3>1. PICK j \in counted : ts = log[j].ts
      BY <1>2, <2>2
    <3>2. log[j].ts > row.mark /\ (cut > row.mark => log[j].ts <= cut)
      BY <2>2, <3>1
    <3>3. QED
      BY <1>7, <3>1, <3>2
  <2>3. QED
    BY <2>1, <2>2
<1>9. u \in Nat /\ u <= clock
  <2>1. PICK i \in counted : u = log[i].ts
    BY <1>7
  <2>2. i \in DOMAIN log
    BY <1>1, <2>1
  <2>3. QED
    BY <1>1, <2>1, <2>2 DEF LogInv, GoodLog
<1>10. \A ts \in CountedIn(log) : ts \in Nat /\ ts <= u /\ ts > row.mark => ts \in todo
  <2>1. cut > row.mark => u <= cut
    BY <1>7, <1>8
  <2>2. \A ts \in Nat : ts <= u /\ cut > row.mark => ts <= cut
    BY <1>6, <1>9, <2>1
  <2>3. QED
    BY <1>8, <2>2
<1> DEFINE base == Base(row).covers
           all == CoveredUpTo(s, u)
<1>11. all = base \cup {ts \in todo : ts <= u}
  BY DEF CoveredUpTo
<1>12. base \in SUBSET Nat /\ Right(base, row.mark)
  <2>1. Base(row) \in Summary
    BY <1>0, BaseType
  <2>2. base \in SUBSET Nat
    BY <2>1 DEF Summary
  <2>3. QED
    BY <1>0, <2>2, BaseIsRight
<1>13. u > row.mark /\ \A ts \in todo : ts \in CountedIn(log)
  BY <1>7, <1>8
<1> HIDE DEF s, base
<1>14. all \in SUBSET Nat /\ \A ts \in all : ts <= clock
  <2>1. \A ts \in base : ts <= clock
    BY <1>12 DEF Right, Agrees
  <2>2. todo \in SUBSET Nat
    BY <1>0, ToSummarizeType DEF todo
  <2> HIDE DEF all
  <2>3. \A ts \in Nat : ts <= u => ts <= clock
    BY <1>0, <1>9
  <2>4. QED
    BY <1>11, <1>12, <2>1, <2>2, <2>3
<1>15. \A ts \in Nat : ts > clear.upTo => (ts \in all <=> ts \in CountedIn(log) /\ ts <= u)
  <2> HIDE DEF all
  <2>1. \A ts \in Nat : ts > clear.upTo => (ts \in base <=> ts \in CountedIn(log) /\ ts <= row.mark)
    BY <1>12 DEF Right, Agrees
  <2> TAKE ts \in Nat
  <2> HAVE ts > clear.upTo
  <2>2. ts \in base <=> ts \in CountedIn(log) /\ ts <= row.mark
    BY <2>1
  <2>3. ts \in all <=> ts \in base \/ (ts \in todo /\ ts <= u)
    BY <1>11
  <2>4. ts <= row.mark => ts <= u
    BY <1>3, <1>9, <1>13
  <2>5. ts <= row.mark \/ ts > row.mark
    BY <1>3
  <2>6. QED
    BY <1>10, <1>13, <2>2, <2>3, <2>4, <2>5
<1>16. Right(all, u)
  BY <1>9, <1>14, <1>15 DEF Right, Agrees
<1>17. QED
  BY <1>16 DEF all, s, todo

\* Whatever is written or read, is one of the copies there were.
LEMMA CopiesStep ==
  ASSUME TypeOK, LogInv, SummaryInv, [Next]_vars
  PROVE  CopiesRight(row', turn', sum')
<1>0. CopiesRight(row, turn, sum)
  BY DEF SummaryInv, CopiesRight, Right
<1>1. ASSUME row' = row, sum' = sum,
             turn'.rec = turn.rec \/ turn'.rec = row \/ turn'.rec = NoRow,
             turn'.note = turn.note \/ turn'.note = row \/ turn'.note = NoRow
      PROVE  CopiesRight(row', turn', sum')
  BY <1>0, <1>1, NothingIsRight DEF CopiesRight
<1>2. ASSUME turn' = turn, sum' = sum, row' = NoRow
      PROVE  CopiesRight(row', turn', sum')
  BY <1>0, <1>2, NothingIsRight DEF CopiesRight
<1>3. ASSUME NEW m \in Msgs, SaveMessage(m) \/ Invalidate(m) \/ EnqueueMessage(m)
      PROVE  CopiesRight(row', turn', sum')
  BY <1>1, <1>3 DEF SaveMessage, Invalidate, EnqueueMessage, DropEntry, TypeOK, Context
<1>4. CASE StartTurn
  <2>1. turn'.rec = row /\ turn'.note = NoRow
    BY <1>4 DEF StartTurn, NoTurn
  <2>2. QED
    BY <1>1, <1>4, <2>1 DEF StartTurn
<1>5. CASE LookUp
  <2>1. turn'.rec = turn.rec /\ turn'.note = turn.note
    BY <1>5 DEF LookUp, TypeOK, Context
  <2>2. QED
    BY <1>1, <1>5, <2>1 DEF LookUp
<1>6. ASSUME NEW t, NEW pc, SetTail(t, pc) PROVE turn'.rec = turn.rec /\ turn'.note = turn.note
  BY <1>6 DEF SetTail, TypeOK, Context
<1>7. CASE AppendLastUser
  BY <1>1, <1>6, <1>7 DEF AppendLastUser
<1>8. CASE TakeInjected
  BY <1>1, <1>6, <1>8 DEF TakeInjected
<1>9. CASE LoadHistory
  BY <1>1, <1>9 DEF LoadHistory, TypeOK, Context
<1>10. CASE ReadPinned
  BY <1>1, <1>10 DEF ReadPinned, TypeOK, Context
<1>11. CASE WritePinned
  <2>1. row'.covers = turn.note.covers /\ row'.mark = turn.note.mark
    BY <1>11 DEF WritePinned, TypeOK, Context, Summary
  <2>2. turn'.rec = turn.rec /\ turn'.note = NoRow /\ sum' = sum
    BY <1>11 DEF WritePinned, TypeOK, Context
  <2>3. QED
    BY <1>0, <2>1, <2>2, NothingIsRight DEF CopiesRight
<1>12. ASSUME NEW type \in {"final", "error"}, EndTurn(type)
       PROVE  CopiesRight(row', turn', sum')
  BY <1>1, <1>12 DEF EndTurn, NoTurn
<1>13. CASE JobReadSummary \/ JobReadLog \/ Expire \/ SumSkip \/ UNCHANGED vars
  BY <1>1, <1>13 DEF JobReadSummary, JobReadLog, Expire, SumSkip, vars
<1>14. CASE JobStore
  BY <1>1, <1>14 DEF JobStore, TypeOK, Context
<1>15. CASE SumRead
  <2> DEFINE todo == ToSummarize(log, row)
             s == [pc |-> "llm", rec |-> row, todo |-> todo]
  <2>1. CASE todo = {}
    BY <1>1, <1>15, <2>1 DEF SumRead
  <2>2. CASE todo # {}
    <3>1. sum' = s /\ row' = row /\ turn' = turn
      BY <1>15, <2>2 DEF SumRead
    <3>2. \A u \in todo : Right(CoveredUpTo(s, u), u)
      BY <1>0, TodoIsGapless DEF CopiesRight
    <3>3. s.todo = todo
      OBVIOUS
    <3> HIDE DEF s, todo
    <3>4. QED
      BY <1>0, <3>1, <3>2, <3>3 DEF CopiesRight
  <2>3. QED
    BY <2>1, <2>2
<1>16. ASSUME NEW upTo \in sum.todo \union {0}, SumWrite(upTo)
       PROVE  CopiesRight(row', turn', sum')
  <2>1. turn' = turn /\ sum'.todo = {}
    BY <1>16 DEF SumWrite, NoSum
  <2>2. CASE upTo = 0
    <3>1. row' = row
      BY <1>16, <2>2 DEF SumWrite
    <3>2. QED
      BY <1>0, <2>1, <3>1 DEF CopiesRight
  <2>3. CASE upTo # 0
    <3>1. row'.covers = CoveredUpTo(sum, upTo) /\ row'.mark = upTo /\ upTo \in sum.todo
      BY <1>16, <2>3 DEF SumWrite, CoveredUpTo
    <3>2. QED
      BY <1>0, <2>1, <3>1 DEF CopiesRight
  <2>4. QED
    BY <2>2, <2>3
<1>17. CASE ClearSession
  BY <1>2, <1>17 DEF ClearSession
<1>18. CASE ClearDone
  BY <1>1, <1>18 DEF ClearDone, DropEntry, TypeOK, Context
<1>19. QED
  BY <1>3, <1>4, <1>5, <1>7, <1>8, <1>9, <1>10, <1>11, <1>12, <1>13, <1>14, <1>15,
     <1>16, <1>17, <1>18 DEF Next, Turn, Background

LEMMA SummaryStep == TypeOK /\ TypeOK' /\ LogInv /\ SummaryInv /\ [Next]_vars => SummaryInv'
<1> SUFFICES ASSUME TypeOK, TypeOK', LogInv, SummaryInv, [Next]_vars PROVE SummaryInv'
  OBVIOUS
<1>1. CopiesRight(row', turn', sum') /\ LogMoves
  BY CopiesStep, EveryStepMovesTheLog
<1>2. ASSUME NEW cov \in SUBSET Nat, NEW mark \in Nat, Right(cov, mark)
      PROVE  Agrees(cov, mark, log', clear'.upTo, clock')
  BY <1>1, <1>2, CopyStaysRight DEF Right
<1>3. /\ row'.covers \in SUBSET Nat /\ row'.mark \in Nat
      /\ turn'.rec.covers \in SUBSET Nat /\ turn'.rec.mark \in Nat
      /\ turn'.note.covers \in SUBSET Nat /\ turn'.note.mark \in Nat
  BY DEF TypeOK, Context, Summary
<1>4. \A u \in sum'.todo : u \in Nat /\ CoveredUpTo(sum', u) \in SUBSET Nat
  <2>1. sum'.todo \in SUBSET Nat /\ Base(sum'.rec).covers \in SUBSET Nat
    BY BaseType DEF TypeOK, Summary
  <2>2. QED
    BY <2>1 DEF CoveredUpTo
<1>5. QED
  BY <1>1, <1>2, <1>3, <1>4 DEF CopiesRight, SummaryInv

-----------------------------------------------------------------------------
(* The way of a turn and the stamps.                                        *)
LEMMA TailChanged ==
  ASSUME TypeOK, NEW t, NEW pc, SetTail(t, pc)
  PROVE  /\ turn'.pc = pc /\ turn'.tail = t
         /\ turn'.msg = turn.msg /\ turn'.hit = turn.hit /\ turn'.covers = turn.covers
         /\ turn'.rec = turn.rec
         /\ cache'.tail = t \/ cache' = cache
BY DEF SetTail, TypeOK, Context, Prefetched

\* What a step does to the turn, apart from its tail and its row.
LEMMA TurnMoves ==
  ASSUME TypeOK, [Next]_vars
  PROVE  \/ turn'.pc = turn.pc /\ turn'.hit = turn.hit /\ turn'.msg = turn.msg
            /\ turn'.covers = turn.covers /\ turn'.tail = turn.tail /\ turn'.rec = turn.rec
         \/ StartTurn
         \/ LookUp
         \/ AppendLastUser
         \/ LoadHistory
         \/ TakeInjected
         \/ ReadPinned
         \/ WritePinned
         \/ \E type \in {"final", "error"} : EndTurn(type)
<1>1. ASSUME NEW m \in Msgs, SaveMessage(m) \/ EnqueueMessage(m) PROVE turn' = turn
  BY <1>1 DEF SaveMessage, EnqueueMessage
<1>2. ASSUME turn' = [turn EXCEPT !.alias = FALSE]
      PROVE  turn'.pc = turn.pc /\ turn'.hit = turn.hit /\ turn'.msg = turn.msg
             /\ turn'.covers = turn.covers /\ turn'.tail = turn.tail /\ turn'.rec = turn.rec
  BY <1>2 DEF TypeOK, Context
<1>3. ASSUME NEW m \in Msgs, Invalidate(m)
      PROVE  turn' = [turn EXCEPT !.alias = FALSE]
  BY <1>3 DEF Invalidate, DropEntry
<1>4. JobStore \/ ClearDone => turn' = [turn EXCEPT !.alias = FALSE]
  BY DEF JobStore, ClearDone, DropEntry
<1>5. JobReadSummary \/ JobReadLog \/ Expire \/ SumRead \/ SumSkip => turn' = turn
  BY DEF JobReadSummary, JobReadLog, Expire, SumRead, SumSkip
<1>6. (\E upTo \in sum.todo \union {0} : SumWrite(upTo)) => turn' = turn
  BY DEF SumWrite
<1>7. ClearSession \/ UNCHANGED vars => turn' = turn
  BY DEF ClearSession, vars
<1>8. QED
  BY <1>1, <1>2, <1>3, <1>4, <1>5, <1>6, <1>7 DEF Next, Turn, Background

LEMMA PathStep == TypeOK /\ PathInv /\ [Next]_vars => PathInv'
<1> SUFFICES ASSUME TypeOK, PathInv, [Next]_vars PROVE PathInv'
  OBVIOUS
<1>1. CASE StartTurn
  BY <1>1 DEF StartTurn, NoTurn, PathInv
<1>2. CASE LookUp
  <2>1. (turn'.pc = "append" /\ turn'.hit) \/ (turn'.pc = "load" /\ turn'.hit = turn.hit)
    BY <1>2 DEF LookUp, TypeOK, Context
  <2>2. turn.pc = "lookup"
    BY <1>2 DEF LookUp
  <2>3. QED
    BY <2>1, <2>2 DEF PathInv
<1>3. CASE AppendLastUser
  <2>1. turn'.pc = "running"
    BY <1>3, TailChanged DEF AppendLastUser
  <2>2. QED
    BY <2>1 DEF PathInv
<1>4. CASE TakeInjected
  <2>1. turn'.pc = "running"
    BY <1>4, TailChanged DEF TakeInjected
  <2>2. QED
    BY <2>1 DEF PathInv
<1>5. CASE LoadHistory \/ ReadPinned \/ WritePinned
  <2>1. turn'.pc \in {"running", "pinning"}
    BY <1>5 DEF LoadHistory, ReadPinned, WritePinned, TypeOK, Context
  <2>2. QED
    BY <2>1 DEF PathInv
<1>6. ASSUME NEW type \in {"final", "error"}, EndTurn(type) PROVE PathInv'
  BY <1>6 DEF EndTurn, NoTurn, PathInv
<1>7. CASE turn'.pc = turn.pc /\ turn'.hit = turn.hit
  BY <1>7 DEF PathInv
<1>8. QED
  BY <1>1, <1>2, <1>3, <1>4, <1>5, <1>6, <1>7, TurnMoves

LEMMA StampsStep == TypeOK /\ TypeOK' /\ StampsInv /\ [Next]_vars => StampsInv'
<1> SUFFICES ASSUME TypeOK, TypeOK', StampsInv, [Next]_vars PROVE StampsInv'
  OBVIOUS
<1>1. clock \in Nat /\ (clock' = clock \/ clock' = clock + 1)
  BY EveryStepMovesTheLog DEF LogMoves, Appended, TypeOK
<1>2. \A p \in Nat : p <= clock => p <= clock'
  BY <1>1
<1>3. /\ tasks \in Seq(Nat) /\ inject \in Seq(Entry)
      /\ \A i \in DOMAIN tasks : tasks[i] \in Nat /\ tasks[i] <= clock
      /\ \A i \in DOMAIN inject : inject[i].ts \in Nat /\ inject[i].ts <= clock
      /\ turn.msg \in Nat /\ turn.msg <= clock
      /\ \A m \in Msgs : /\ handler[m].said \in Entry /\ handler[m].said.ts \in Nat
                         /\ handler[m].said.ts <= clock
  <2>1. /\ tasks \in Seq(Nat) /\ inject \in Seq(Entry)
        /\ handler \in [Msgs -> [pc : HandlerPlace, said : Entry]]
    BY DEF TypeOK
  <2>2. turn.msg \in Nat /\ \A m \in Msgs : handler[m].said \in Entry /\ handler[m].said.ts \in Nat
    <3>1. \A m \in Msgs : handler[m].said \in Entry
      BY <2>1
    <3>2. QED
      BY <3>1 DEF TypeOK, Context, Entry
  <2>3. /\ \A i \in DOMAIN tasks : tasks[i] \in Nat
        /\ \A i \in DOMAIN inject : inject[i].ts \in Nat
    BY <2>1, StampsOfList
  <2>4. QED
    BY <2>1, <2>2, <2>3 DEF StampsInv
<1>4. ASSUME NEW q \in Seq(Nat), \A i \in DOMAIN q : q[i] <= clock, NEW p \in Nat, p <= clock
      PROVE  \A i \in DOMAIN Append(q, p) : Append(q, p)[i] <= clock'
  <2>1. \A i \in DOMAIN Append(q, p) : (i \in DOMAIN q /\ Append(q, p)[i] = q[i]) \/ Append(q, p)[i] = p
    OBVIOUS
  <2>2. QED
    BY <1>2, <1>4, <2>1
<1>8. ASSUME NEW e \in Entry, e.ts <= clock
      PROVE  \A i \in DOMAIN Append(inject, e) : Append(inject, e)[i].ts <= clock'
  <2>1. \A i \in DOMAIN Append(inject, e) :
          (i \in DOMAIN inject /\ Append(inject, e)[i] = inject[i]) \/ Append(inject, e)[i] = e
    BY <1>3
  <2>2. e.ts \in Nat
    BY DEF Entry
  <2>3. QED
    BY <1>2, <1>3, <1>8, <2>1, <2>2
<1>5. turn'.msg <= clock'
  <2>1. CASE turn'.msg = turn.msg
    BY <1>2, <1>3, <2>1
  <2>2. CASE StartTurn
    <3>1. turn'.msg = tasks[1] /\ 1 \in DOMAIN tasks
      BY <1>3, <2>2 DEF StartTurn, NoTurn
    <3>2. QED
      BY <1>2, <1>3, <3>1
  <2>3. LookUp \/ LoadHistory \/ ReadPinned \/ WritePinned => turn'.msg = turn.msg
    BY DEF LookUp, LoadHistory, ReadPinned, WritePinned, TypeOK, Context
  <2>4. AppendLastUser \/ TakeInjected => turn'.msg = turn.msg
    BY TailChanged DEF AppendLastUser, TakeInjected
  <2>5. ASSUME NEW type \in {"final", "error"}, EndTurn(type) PROVE turn'.msg <= clock'
    <3>1. turn' = NoTurn /\ NoTurn.msg = 0
      BY <2>5 DEF EndTurn, NoTurn
    <3>2. QED
      BY <1>1, <3>1
  <2>6. QED
    BY <2>1, <2>2, <2>3, <2>4, <2>5, TurnMoves
<1> DEFINE TasksInTime == /\ \A i \in DOMAIN tasks' : tasks'[i] <= clock'
                          /\ \A i \in DOMAIN inject' : inject'[i].ts <= clock'
                          /\ \A m \in Msgs : handler'[m].said.ts <= clock'
<1>6. TasksInTime
  <2>1. ASSUME tasks' = tasks, inject' = inject, handler' = handler
        PROVE  TasksInTime
    BY <1>2, <1>3, <2>1
  <2>2. ASSUME NEW m \in Msgs, SaveMessage(m) PROVE TasksInTime
    <3>1. PICK said \in Entry :
            /\ said.ts = clock + 1
            /\ handler' = [handler EXCEPT ![m] = [pc |-> "saved", said |-> said]]
      BY <2>2, WhatIsSaved
    <3>2. clock' = clock + 1 /\ tasks' = tasks /\ inject' = inject
      BY <2>2 DEF SaveMessage
    <3>3. \A n \in Msgs : handler'[n].said = said \/ handler'[n].said = handler[n].said
      BY <3>1 DEF TypeOK
    <3>4. QED
      BY <1>1, <1>2, <1>3, <3>1, <3>2, <3>3
  <2>3. ASSUME NEW m \in Msgs, Invalidate(m) PROVE TasksInTime
    BY <1>1, <1>2, <1>3, <2>3 DEF Invalidate, TypeOK
  <2>4. ASSUME NEW m \in Msgs, EnqueueMessage(m) PROVE TasksInTime
    <3>1. \A n \in Msgs : handler'[n].said = handler[n].said \/ handler'[n].said = Unsaid
      BY <2>4 DEF EnqueueMessage, TypeOK
    <3>2. tasks' = tasks \/ tasks' = Append(tasks, handler[m].said.ts)
      BY <2>4 DEF EnqueueMessage
    <3>3. inject' = inject \/ inject' = Append(inject, handler[m].said)
      BY <2>4 DEF EnqueueMessage
    <3>4. \A n \in Msgs : handler'[n].said.ts <= clock'
      BY <1>1, <1>2, <1>3, <3>1, UnsaidIsEntry
    <3>5. \A i \in DOMAIN tasks' : tasks'[i] <= clock'
      BY <1>2, <1>3, <1>4, <3>2
    <3>6. \A i \in DOMAIN inject' : inject'[i].ts <= clock'
      BY <1>2, <1>3, <1>8, <3>3
    <3>7. QED
      BY <3>4, <3>5, <3>6
  <2>5. CASE StartTurn
    <3>1. /\ tasks' = Tail(tasks) /\ tasks # <<>> /\ inject' = inject /\ handler' = handler
      BY <2>5 DEF StartTurn
    <3>2. \A i \in DOMAIN tasks' : i + 1 \in DOMAIN tasks /\ tasks'[i] = tasks[i + 1]
      BY <1>3, <3>1, HeadTailProperties
    <3>3. QED
      BY <1>2, <1>3, <3>1, <3>2
  <2>6. CASE TakeInjected
    BY <1>2, <1>3, <2>6 DEF TakeInjected
  <2>7. ASSUME NEW type \in {"final", "error"}, EndTurn(type) PROVE TasksInTime
    <3>1. inject # <<>> => Last(inject).ts \in Nat /\ Last(inject).ts <= clock
      BY <1>3 DEF Last
    <3>2. tasks' = tasks \/ (inject # <<>> /\ tasks' = Append(tasks, Last(inject).ts))
      BY <2>7 DEF EndTurn
    <3>3. inject' = <<>> /\ handler' = handler
      BY <2>7 DEF EndTurn
    <3>4. DOMAIN inject' = {}
      BY <3>3
    <3>5. \A i \in DOMAIN tasks' : tasks'[i] <= clock'
      BY <1>2, <1>3, <1>4, <3>1, <3>2
    <3>6. \A m \in Msgs : handler'[m].said.ts <= clock'
      BY <1>2, <1>3, <3>3
    <3>7. QED
      BY <3>4, <3>5, <3>6
  <2>8. LookUp \/ AppendLastUser \/ LoadHistory \/ ReadPinned \/ WritePinned
          => tasks' = tasks /\ inject' = inject /\ handler' = handler
    BY DEF LookUp, AppendLastUser, LoadHistory, ReadPinned, WritePinned
  <2>9. Background => tasks' = tasks /\ inject' = inject /\ handler' = handler
    BY DEF Background, JobReadSummary, JobReadLog, JobStore, Expire, SumRead, SumSkip, SumWrite
  <2>10. ClearSession \/ ClearDone \/ UNCHANGED vars
           => tasks' = tasks /\ inject' = inject /\ handler' = handler
    BY DEF ClearSession, ClearDone, vars
  <2>11. QED
    BY <2>1, <2>2, <2>3, <2>4, <2>5, <2>6, <2>7, <2>8, <2>9, <2>10 DEF Next, Turn
<1>7. QED
  BY <1>5, <1>6 DEF StampsInv

-----------------------------------------------------------------------------
(* What a turn that reads the log is told.                                  *)
LEMMA SaidAfterGrows ==
  ASSUME NEW l \in Seq(Entry), NEW e \in Entry, NEW i \in DOMAIN l
  PROVE  /\ SaidAfter(l, i) \in Nat /\ SaidAfter(Append(l, e), i) \in Nat
         /\ SaidAfter(l, i) <= SaidAfter(Append(l, e), i)
<1> DEFINE k == Append(l, e)
           S == {j \in Semantic(l) : j > i}
           T == {j \in Semantic(k) : j > i}
<1>1. /\ DOMAIN k = DOMAIN l \cup {Len(l) + 1}
      /\ Len(l) \in Nat /\ DOMAIN l = 1..Len(l)
      /\ \A j \in DOMAIN l : k[j] = l[j]
  BY AppendedEntries
<1> HIDE DEF k
<1>2. S \subseteq T /\ T \subseteq 1..(Len(l) + 1)
  BY <1>1 DEF Semantic
<1>3. IsFiniteSet(1..(Len(l) + 1))
  BY <1>1, FS_Interval
<1> HIDE DEF S, T
<1>4. IsFiniteSet(T)
  BY <1>2, <1>3, FS_Subset
<1>5. IsFiniteSet(S) /\ Cardinality(S) <= Cardinality(T)
  BY <1>2, <1>4, FS_Subset
<1>6. Cardinality(S) \in Nat /\ Cardinality(T) \in Nat
  BY <1>4, <1>5, FS_CardinalityType
<1>7. SaidAfter(l, i) = Cardinality(S) /\ SaidAfter(k, i) = Cardinality(T)
  BY DEF SaidAfter, S, T
<1>8. QED
  BY <1>5, <1>6, <1>7 DEF k

\* An old entry keeps its place, and has no fewer messages after it.
LEMMA OldEntries ==
  ASSUME TypeOK, LogMoves
  PROVE  \A i \in DOMAIN log' : log'[i].ts <= clock =>
            /\ i \in DOMAIN log /\ log[i] = log'[i]
            /\ SaidAfter(log, i) >= HistoryLimit => SaidAfter(log', i) >= HistoryLimit
<1>0. clock \in Nat /\ log \in Seq(Entry)
  BY DEF TypeOK
<1>1. ASSUME NEW e \in Entry, Appended(e), NEW i \in DOMAIN log', log'[i].ts <= clock
      PROVE  /\ i \in DOMAIN log /\ log[i] = log'[i]
             /\ SaidAfter(log, i) >= HistoryLimit => SaidAfter(log', i) >= HistoryLimit
  <2>1. log' = Append(log, e) /\ e.ts = clock + 1
    BY <1>1 DEF Appended
  <2>2. /\ DOMAIN log' = DOMAIN log \cup {Len(log) + 1}
        /\ \A j \in DOMAIN log : log'[j] = log[j]
        /\ log'[Len(log) + 1] = e
    BY <1>0, <2>1, AppendedEntries
  <2>3. log'[i] # e
    BY <1>0, <1>1, <2>1
  <2>4. i \in DOMAIN log
    BY <1>1, <2>2, <2>3
  <2>5. /\ SaidAfter(log, i) \in Nat /\ SaidAfter(log', i) \in Nat
        /\ SaidAfter(log, i) <= SaidAfter(log', i)
    BY <1>0, <2>1, <2>4, SaidAfterGrows
  <2>6. HistoryLimit \in Nat
    BY ContextAssumption
  <2>7. QED
    BY <2>2, <2>4, <2>5, <2>6
<1>2. log' = <<>> => DOMAIN log' = {}
  OBVIOUS
<1>3. QED
  BY <1>1, <1>2 DEF LogMoves

\* A context that is built stays as it is, or grows.
LEMMA BuiltGrows ==
  ASSUME TypeOK, PathInv, [Next]_vars, Built', ~LoadHistory, ~AppendLastUser
  PROVE  /\ Built
         /\ turn'.msg = turn.msg /\ turn'.hit = turn.hit
         /\ Told \subseteq Told'
         /\ turn'.rec = turn.rec
         /\ inject = <<>> => turn'.tail = turn.tail
<1>1. CASE turn'.pc = turn.pc /\ turn'.hit = turn.hit /\ turn'.msg = turn.msg
           /\ turn'.covers = turn.covers /\ turn'.tail = turn.tail /\ turn'.rec = turn.rec
  BY <1>1 DEF Built, Told
<1>2. CASE StartTurn \/ LookUp
  <2>1. turn'.pc \in {"lookup", "append", "load"}
    <3>1. StartTurn => turn'.pc = "lookup"
      BY DEF StartTurn, NoTurn
    <3>2. LookUp => turn'.pc \in {"append", "load"}
      BY DEF LookUp, TypeOK, Context
    <3>3. QED
      BY <1>2, <3>1, <3>2
  <2>2. QED
    BY <2>1 DEF Built
<1>3. CASE TakeInjected
  <2>1. turn.pc = "running" /\ SetTail(turn.tail \o inject, "running")
    BY <1>3 DEF TakeInjected
  <2>2. turn.tail \in Seq(Entry) /\ inject \in Seq(Entry)
    BY DEF TypeOK, Context
  <2>4. /\ turn'.tail = turn.tail \o inject
        /\ turn'.msg = turn.msg /\ turn'.hit = turn.hit /\ turn'.covers = turn.covers
        /\ turn'.rec = turn.rec
    BY <2>1, TailChanged
  <2>5. \A k \in DOMAIN turn.tail : k \in DOMAIN turn'.tail /\ turn'.tail[k] = turn.tail[k]
    BY <2>2, <2>4
  <2>6. Stamps(turn.tail) \subseteq Stamps(turn'.tail)
    BY <2>5 DEF Stamps
  <2>7. inject # <<>>
    BY <1>3 DEF TakeInjected
  <2>8. QED
    BY <2>1, <2>4, <2>6, <2>7 DEF Built, Told
<1>4. CASE ReadPinned \/ WritePinned
  <2>1. /\ turn'.msg = turn.msg /\ turn'.hit = turn.hit
        /\ turn'.covers = turn.covers /\ turn'.tail = turn.tail /\ turn'.rec = turn.rec
        /\ turn.pc \in {"running", "pinning"}
    BY <1>4 DEF ReadPinned, WritePinned, TypeOK, Context
  <2>2. QED
    BY <2>1 DEF Built, Told
<1>5. ASSUME NEW type \in {"final", "error"}, EndTurn(type) PROVE ~Built'
  BY <1>5 DEF EndTurn, NoTurn, Built
<1>6. QED
  BY <1>1, <1>2, <1>3, <1>4, <1>5, TurnMoves

LEMMA WholeStep ==
  ASSUME TypeOK, PathInv, LogInv, SummaryInv, StampsInv, LoadedHistoryIsWhole, [Next]_vars
  PROVE  LoadedHistoryIsWhole'
<1> SUFFICES ASSUME Built', ~turn'.hit,
                    NEW i \in DOMAIN log', SaidByUser(log'[i]), log'[i].ts <= turn'.msg,
                    turn'.rec.mark = 0 => ~(SaidAfter(log', i) >= HistoryLimit)
             PROVE  log'[i].ts \in Told'
  BY DEF LoadedHistoryIsWhole, Users
<1>0. /\ clock \in Nat /\ turn.msg \in Nat /\ turn.msg <= clock /\ log \in Seq(Entry)
      /\ turn.rec \in Summary
  BY DEF TypeOK, Context, StampsInv
<1>1. CASE LoadHistory
  <2> DEFINE a == Assemble(log, turn.rec)
  <2>1. /\ log' = log /\ turn'.msg = turn.msg /\ turn'.rec = turn.rec
        /\ turn'.covers = turn.rec.covers /\ turn'.tail = a
    BY <1>1 DEF LoadHistory, TypeOK, Context
  <2>2. log[i] \in Entry /\ turn.rec.mark \in Nat /\ turn.rec.covers \in SUBSET Nat
    BY <1>0, <2>1 DEF Summary
  <2>3. log[i].ts \in Nat /\ log[i].type = "user"
    BY <2>1, <2>2 DEF Entry, SaidByUser
  <2>4. CASE log[i].ts <= turn.rec.mark
    <3>1. log[i].ts \in CountedIn(log) /\ log[i].ts > clear.upTo
      BY <2>1, <2>3 DEF CountedIn, Semantic, LogInv, GoodLog, TypeOK
    <3>2. log[i].ts \in turn.rec.covers
      BY <2>3, <2>4, <3>1 DEF SummaryInv, Agrees
    <3>3. QED
      BY <2>1, <3>2 DEF Told
  <2>5. CASE log[i].ts > turn.rec.mark
    <3>1. i \in Users(log)
      BY <2>1 DEF Users
    <3>5. i \in Unread(log, turn.rec.mark)
      <4>1. CASE turn.rec.mark = 0
        <5>1. SaidAfter(log, i) \in Nat
          BY <1>0, <2>1, <2>2, SaidAfterGrows
        <5>2. SaidAfter(log, i) < HistoryLimit
          BY <2>1, <4>1, <5>1, ContextAssumption
        <5>3. QED
          BY <2>1, <4>1, <5>2 DEF Unread
      <4>2. CASE turn.rec.mark # 0
        BY <2>1, <2>5, <4>2 DEF Unread
      <4>3. QED
        BY <4>1, <4>2
    <3> HIDE DEF a
    <3>2. PICK k \in DOMAIN a : a[k] = log[i]
      BY <1>0, <3>1, <3>5, AssembledIsWhole DEF a
    <3>3. log[i].ts \in Stamps(a)
      BY <3>2 DEF Stamps
    <3>4. QED
      BY <2>1, <3>3 DEF Told
  <2>6. QED
    BY <2>2, <2>3, <2>4, <2>5
<1>2. CASE AppendLastUser
  <2>1. turn.pc = "append"
    BY <1>2 DEF AppendLastUser
  <2>2. turn'.hit = turn.hit
    BY <1>2, TailChanged DEF AppendLastUser
  <2>3. QED
    BY <2>1, <2>2 DEF PathInv
<1>3. CASE ~LoadHistory /\ ~AppendLastUser
  <2>1. /\ Built /\ turn'.msg = turn.msg /\ turn'.hit = turn.hit /\ Told \subseteq Told'
        /\ turn'.rec = turn.rec
    BY <1>3, BuiltGrows
  <2>2. log'[i].ts \in Nat
    <3>1. log' \in Seq(Entry)
      BY TypeStep DEF TypeOK
    <3>2. log'[i] \in Entry
      BY <3>1
    <3>3. QED
      BY <3>2 DEF Entry
  <2>3. log'[i].ts <= clock
    BY <1>0, <2>1, <2>2
  <2>4. /\ i \in DOMAIN log /\ log[i] = log'[i]
        /\ SaidAfter(log, i) >= HistoryLimit => SaidAfter(log', i) >= HistoryLimit
    BY <2>3, OldEntries, EveryStepMovesTheLog
  <2>5. i \in Users(log)
    BY <2>4 DEF Users
  <2>6. log[i].ts \in Told
    BY <2>1, <2>4, <2>5 DEF LoadedHistoryIsWhole
  <2>7. QED
    BY <2>1, <2>4, <2>6
<1>4. QED
  BY <1>1, <1>2, <1>3

-----------------------------------------------------------------------------
(* What a user who waits is told.                                           *)
Fine(t) == Sound(t, log, clear.upTo, clock)

LEMMA NothingIsFine == Fine(<<>>)
<1>1. DOMAIN <<>> = {}
  OBVIOUS
<1>2. QED
  BY <1>1 DEF Fine, Sound, InOrder

LEMMA AssembledIsFine ==
  ASSUME TypeOK, LogInv, NEW rec \in Summary
  PROVE  Fine(Assemble(log, rec))
<1> DEFINE a == Assemble(log, rec)
<1>1. PartOf(a, log) /\ (a # <<>> => SaidByUser(a[Len(a)]))
  BY AssembledIsWhole DEF TypeOK
<1> HIDE DEF a
<1>2. QED
  BY <1>1 DEF PartOf, Fine, Sound, LogInv, GoodLog, a

\* The newest message of the user can be added to a context that does not end
\* with it.
LEMMA NewestIsFine ==
  ASSUME TypeOK, LogInv, NEW t \in Seq(Entry), Fine(t), Users(log) # {},
         ~(t # <<>> /\ Last(t) = log[Max(Users(log))])
  PROVE  Fine(Append(t, log[Max(Users(log))]))
<1> DEFINE n == Max(Users(log))
           newest == log[n]
           new == Append(t, newest)
<1>0. log \in Seq(Entry) /\ clock \in Nat /\ clear.upTo \in Nat
  BY DEF TypeOK
<1>1. n \in Users(log) /\ \A k \in Users(log) : k <= n
  <2>1. Users(log) \in SUBSET DOMAIN log
    BY DEF Users
  <2>2. QED
    BY <1>0, <2>1, EndsOfIndices
<1>2. n \in DOMAIN log /\ SaidByUser(newest)
  BY <1>1 DEF Users
<1> HIDE DEF n
<1>3. newest \in Entry /\ newest.ts > clear.upTo /\ newest.ts <= clock
  BY <1>0, <1>2 DEF LogInv, GoodLog
<1>4. /\ DOMAIN new = DOMAIN t \cup {Len(t) + 1}
      /\ Len(t) \in Nat /\ DOMAIN t = 1..Len(t)
      /\ \A i \in DOMAIN t : new[i] = t[i]
      /\ new[Len(t) + 1] = newest
      /\ Len(new) = Len(t) + 1
  BY <1>3, AppendedEntries
<1>5. \A i \in DOMAIN t : t[i].ts \in Nat
  <2>1. \A i \in DOMAIN t : t[i] \in Entry
    OBVIOUS
  <2>2. QED
    BY <2>1 DEF Entry
<1>6. newest.ts \in Nat
  BY <1>3 DEF Entry
<1>7. ASSUME t # <<>> PROVE t[Len(t)].ts < newest.ts
  <2> DEFINE e == t[Len(t)]
  <2>1. Len(t) \in DOMAIN t /\ SaidByUser(e) /\ e # newest
    BY <1>7, <1>4 DEF Fine, Sound, Last, n
  <2>2. CASE e.ts > clear.upTo
    <3>1. PICK j \in DOMAIN log : log[j] = e
      BY <2>1, <2>2 DEF Fine, Sound
    <3>2. j \in Users(log) /\ j # n
      BY <2>1, <3>1 DEF Users
    <3>3. j < n
      BY <1>0, <1>1, <1>2, <3>1, <3>2
    <3>4. QED
      BY <1>2, <3>1, <3>3 DEF LogInv, GoodLog, InOrder
  <2>3. CASE ~(e.ts > clear.upTo)
    BY <1>0, <1>3, <1>5, <1>6, <2>1, <2>3
  <2>4. QED
    BY <2>2, <2>3
<1>8. \A i \in DOMAIN t : t[i].ts < newest.ts
  <2> TAKE i \in DOMAIN t
  <2>1. t # <<>> /\ Len(t) \in DOMAIN t /\ (i < Len(t) \/ i = Len(t))
    BY <1>4
  <2>2. i < Len(t) => t[i].ts < t[Len(t)].ts
    BY <2>1 DEF Fine, Sound, InOrder
  <2>3. QED
    BY <1>5, <1>6, <1>7, <2>1, <2>2
<1>9. InOrder(new)
  <2> HIDE DEF newest, new
  <2> SUFFICES ASSUME NEW i \in DOMAIN new, NEW j \in DOMAIN new, i < j
               PROVE  new[i].ts < new[j].ts
    BY DEF InOrder
  <2>1. i \in DOMAIN t
    BY <1>4
  <2>2. CASE j \in DOMAIN t
    BY <1>4, <2>1, <2>2 DEF Fine, Sound, InOrder
  <2>3. CASE j = Len(t) + 1
    BY <1>4, <1>8, <2>1, <2>3
  <2>4. QED
    BY <1>4, <2>2, <2>3
<1>10. \A i \in DOMAIN new : new[i].ts <= clock
  BY <1>3, <1>4 DEF Fine, Sound
<1>11. SaidByUser(new[Len(new)])
  BY <1>2, <1>4
<1>12. \A i \in DOMAIN new : new[i].ts > clear.upTo => \E j \in DOMAIN log : log[j] = new[i]
  BY <1>2, <1>4 DEF Fine, Sound
<1>13. Fine(new)
  BY <1>9, <1>10, <1>11, <1>12 DEF Fine, Sound
<1>14. QED
  BY <1>13 DEF n

\* Every context that is kept, read or extended is fine for the log before the
\* step.
LEMMA ContextsMove ==
  ASSUME TypeOK, LogInv, ContextsSound, inject = <<>>, [Next]_vars
  PROVE  Fine(cache'.tail) /\ Fine(job'.tail) /\ Fine(turn'.tail)
<1>0. Fine(cache.tail) /\ Fine(job.tail) /\ Fine(turn.tail)
  BY DEF ContextsSound, Fine
<1>1. Fine(NoEntry.tail) /\ Fine(NoTurn.tail) /\ Fine(NoJob.tail)
  BY NothingIsFine DEF NoEntry, NoTurn, NoJob
<1> DEFINE Good == Fine(cache'.tail) /\ Fine(job'.tail) /\ Fine(turn'.tail)
<1>2. ASSUME cache' = cache \/ cache' = NoEntry, job' = job,
             turn'.tail = turn.tail
      PROVE  Good
  BY <1>0, <1>1, <1>2
<1>3. ASSUME NEW m \in Msgs, SaveMessage(m) \/ Invalidate(m) \/ EnqueueMessage(m) PROVE Good
  BY <1>2, <1>3 DEF SaveMessage, Invalidate, EnqueueMessage, DropEntry, TypeOK, Context
<1>4. CASE StartTurn
  <2>1. turn'.tail = <<>> /\ cache' = cache /\ job' = job
    BY <1>4 DEF StartTurn, NoTurn
  <2>2. QED
    BY <1>0, <2>1, NothingIsFine
<1>5. CASE LookUp
  <2>1. /\ turn'.tail = cache.tail \/ turn'.tail = turn.tail
        /\ cache' = cache \/ cache' = NoEntry
        /\ job' = job
    BY <1>5 DEF LookUp, TypeOK, Context
  <2>2. QED
    BY <1>0, <1>1, <2>1
<1>6. CASE AppendLastUser
  <2> DEFINE newest == log[Max(Users(log))]
  <2>1. PICK t : Fine(t) /\ SetTail(t, "running")
    <3>1. turn.tail \in Seq(Entry)
      BY DEF TypeOK, Context
    <3>2. CASE Users(log) = {} \/ EndsWith(turn.tail, newest.text)
      BY <1>0, <1>6, <3>2 DEF AppendLastUser
    <3>3. CASE ~(Users(log) = {} \/ EndsWith(turn.tail, newest.text))
      <4>3. Users(log) # {} => SaidByUser(newest)
        <5>1. log \in Seq(Entry) /\ Users(log) \in SUBSET DOMAIN log
          BY DEF TypeOK, Users
        <5>2. Users(log) # {} => Max(Users(log)) \in Users(log)
          BY <5>1, EndsOfIndices
        <5>3. QED
          BY <5>2 DEF Users
      <4>4. ~(turn.tail # <<>> /\ Last(turn.tail) = newest)
        BY <3>3, <4>3 DEF EndsWith
      <4>1. Fine(Append(turn.tail, newest))
        BY <1>0, <3>1, <3>3, <4>4, NewestIsFine
      <4>2. SetTail(Append(turn.tail, newest), "running")
        BY <1>6, <3>3 DEF AppendLastUser
      <4>5. QED
        BY <4>1, <4>2
    <3>4. QED
      BY <3>2, <3>3
  <2>2. turn'.tail = t /\ (cache'.tail = t \/ cache' = cache)
    BY <2>1, TailChanged
  <2>3. job' = job
    BY <1>6 DEF AppendLastUser
  <2>4. QED
    BY <1>0, <2>1, <2>2, <2>3
<1>7. CASE LoadHistory
  <2>1. turn'.tail = Assemble(log, turn.rec) /\ cache' = cache /\ job' = job
    BY <1>7 DEF LoadHistory, TypeOK, Context
  <2>2. turn.rec \in Summary
    BY DEF TypeOK, Context
  <2>3. QED
    BY <1>0, <2>1, <2>2, AssembledIsFine
<1>8. CASE ReadPinned \/ WritePinned
  BY <1>2, <1>8 DEF ReadPinned, WritePinned, TypeOK, Context
<1>9. ASSUME NEW type \in {"final", "error"}, EndTurn(type) PROVE Good
  BY <1>0, <1>1, <1>9 DEF EndTurn
<1>10. CASE JobReadSummary
  <2>1. job'.tail = <<>> /\ cache' = cache /\ turn' = turn
    BY <1>10 DEF JobReadSummary, NoJob
  <2>2. QED
    BY <1>0, <2>1, NothingIsFine
<1>11. CASE JobReadLog
  <2>1. job'.tail = Assemble(log, job.rec) /\ cache' = cache /\ turn' = turn
    BY <1>11 DEF JobReadLog, TypeOK
  <2>2. job.rec \in Summary
    BY DEF TypeOK
  <2>3. QED
    BY <1>0, <2>1, <2>2, AssembledIsFine
<1>12. CASE JobStore
  <2>1. cache'.tail = job.tail /\ job' = NoJob /\ turn'.tail = turn.tail
    BY <1>12 DEF JobStore, TypeOK, Context
  <2>2. QED
    BY <1>0, <1>1, <2>1
<1>13. CASE Expire
  <2>1. cache'.tail = cache.tail /\ job' = job /\ turn' = turn
    BY <1>13 DEF Expire, TypeOK, Prefetched
  <2>2. QED
    BY <1>0, <2>1
<1>14. CASE SumRead \/ SumSkip \/ \E upTo \in sum.todo \union {0} : SumWrite(upTo)
  BY <1>2, <1>14 DEF SumRead, SumSkip, SumWrite
<1>15. CASE ClearSession \/ UNCHANGED vars
  BY <1>2, <1>15 DEF ClearSession, vars
<1>16. CASE ClearDone
  BY <1>2, <1>16 DEF ClearDone, DropEntry, TypeOK, Context
<1>17. CASE TakeInjected
  BY <1>17 DEF TakeInjected
<1>18. QED
  BY <1>3, <1>4, <1>5, <1>6, <1>7, <1>8, <1>9, <1>10, <1>11, <1>12, <1>13, <1>14,
     <1>15, <1>16, <1>17 DEF Next, Turn, Background

LEMMA ContextsStep ==
  ASSUME TypeOK, TypeOK', LogInv, ContextsSound, inject = <<>>, [Next]_vars
  PROVE  ContextsSound'
<1>1. Fine(cache'.tail) /\ Fine(job'.tail) /\ Fine(turn'.tail) /\ LogMoves
  BY ContextsMove, EveryStepMovesTheLog
<1>2. cache'.tail \in Seq(Entry) /\ job'.tail \in Seq(Entry) /\ turn'.tail \in Seq(Entry)
  BY DEF TypeOK, Prefetched, Context
<1>3. QED
  BY <1>1, <1>2, ContextStaysSound DEF Fine, ContextsSound

\* The one message that is under way goes from hand to hand.
LEMMA UnderWayStep ==
  ASSUME TypeOK, LogInv, OneUnderWay, NewestUnderWay, waited', [Next]_vars
  PROVE  OneUnderWay' /\ NewestUnderWay'
<1>0. /\ tasks \in Seq(Nat) /\ log \in Seq(Entry) /\ clock \in Nat
      /\ handler \in [Msgs -> [pc : HandlerPlace, said : Entry]]
  BY DEF TypeOK
<1> DEFINE Good == OneUnderWay' /\ NewestUnderWay'
<1>1. ASSUME handler' = handler, tasks' = tasks, inject' = inject,
             turn'.pc = "idle" <=> turn.pc = "idle", turn'.msg = turn.msg, log' = log
      PROVE  Good
  BY <1>1 DEF OneUnderWay, NewestUnderWay, InHand
<1>2. ASSUME NEW m \in Msgs, SaveMessage(m) PROVE Good
  <2>0. PICK e \in Entry :
          /\ e.ts = clock + 1 /\ SaidByUser(e)
          /\ log' = Append(log, e)
          /\ handler' = [handler EXCEPT ![m] = [pc |-> "saved", said |-> e]]
    BY <1>2, WhatIsSaved
  <2>1. /\ Quiet
        /\ turn' = turn /\ tasks' = tasks /\ inject' = inject
    BY <1>2 DEF SaveMessage
  <2>2. /\ handler'[m].said.ts = clock + 1
        /\ \A n \in Msgs : InHand(n)' => n = m
    BY <1>0, <2>0, <2>1 DEF Quiet, InHand
  <2>3. OneUnderWay'
    BY <1>0, <2>1, <2>2 DEF OneUnderWay, Quiet
  <2>4. NewestUser(clock + 1, log')
    <3>2. /\ DOMAIN log' = DOMAIN log \cup {Len(log) + 1}
          /\ \A i \in DOMAIN log : log'[i] = log[i]
          /\ log'[Len(log) + 1] = e
      BY <1>0, <2>0, AppendedEntries
    <3>3. \A i \in DOMAIN log : log[i].ts \in Nat /\ log[i].ts <= clock
      <4>1. \A i \in DOMAIN log : log[i] \in Entry
        BY <1>0
      <4>2. QED
        BY <4>1 DEF Entry, LogInv, GoodLog
    <3>4. \A i \in DOMAIN log' : /\ log'[i].ts <= clock + 1
                                 /\ log'[i].ts = clock + 1 => SaidByUser(log'[i])
      BY <1>0, <2>0, <3>2, <3>3
    <3>5. QED
      BY <3>4 DEF NewestUser, Users
  <2>5. NewestUnderWay'
    BY <2>1, <2>2, <2>4 DEF NewestUnderWay, Quiet
  <2>6. QED
    BY <2>3, <2>5
<1>3. ASSUME NEW m \in Msgs, Invalidate(m) PROVE Good
  <2>1. /\ handler[m].pc = "saved"
        /\ handler' = [handler EXCEPT ![m].pc = "invalidated"]
        /\ tasks' = tasks /\ inject' = inject /\ log' = log
        /\ turn'.pc = turn.pc /\ turn'.msg = turn.msg
    BY <1>3 DEF Invalidate, DropEntry, TypeOK, Context
  <2>2. \A n \in Msgs : (InHand(n)' <=> InHand(n)) /\ handler'[n].said = handler[n].said
    BY <1>0, <2>1 DEF InHand
  <2>3. OneUnderWay'
    BY <2>1, <2>2 DEF OneUnderWay
  <2>4. NewestUnderWay'
    BY <2>1, <2>2 DEF NewestUnderWay
  <2>5. QED
    BY <2>3, <2>4
<1>4. ASSUME NEW m \in Msgs, EnqueueMessage(m) PROVE Good
  <2>1. InHand(m)
    BY <1>4 DEF EnqueueMessage, InHand
  <2>2. turn.pc = "idle" /\ tasks = <<>> /\ \A n \in Msgs : InHand(n) => n = m
    BY <2>1 DEF OneUnderWay
  <2>3. /\ tasks' = Append(tasks, handler[m].said.ts) /\ inject' = inject
        /\ handler' = [handler EXCEPT ![m] = [pc |-> "done", said |-> Unsaid]]
        /\ turn' = turn /\ log' = log
    BY <1>4, <2>2 DEF EnqueueMessage
  <2>4. tasks' = <<handler[m].said.ts>> /\ Len(tasks') = 1 /\ Head(tasks') = handler[m].said.ts
    BY <2>2, <2>3
  <2>5. \A n \in Msgs : ~InHand(n)'
    BY <1>0, <2>2, <2>3 DEF InHand
  <2>6. OneUnderWay'
    BY <2>2, <2>3, <2>4, <2>5 DEF OneUnderWay
  <2>7. NewestUnderWay'
    BY <2>1, <2>2, <2>3, <2>4, <2>5 DEF NewestUnderWay
  <2>8. QED
    BY <2>6, <2>7
<1>5. CASE StartTurn
  <2>1. /\ tasks # <<>> /\ tasks' = Tail(tasks)
        /\ turn'.pc = "lookup" /\ turn'.msg = Head(tasks)
        /\ handler' = handler /\ inject' = inject /\ log' = log
    BY <1>5 DEF StartTurn, NoTurn
  <2>2. Len(tasks') = 0 /\ tasks' = <<>>
    <3>1. Len(tasks) <= 1
      BY DEF OneUnderWay
    <3>2. tasks' \in Seq(Nat) /\ Len(tasks') = Len(tasks) - 1
      BY <1>0, <2>1, HeadTailProperties
    <3>3. QED
      BY <1>0, <2>1, <3>1, <3>2, EmptySeq
  <2>3. \A n \in Msgs : ~InHand(n)
    BY <2>1 DEF OneUnderWay
  <2>4. OneUnderWay'
    BY <2>1, <2>2, <2>3 DEF OneUnderWay, InHand
  <2>5. NewestUnderWay'
    BY <2>1, <2>2, <2>3 DEF NewestUnderWay, InHand
  <2>6. QED
    BY <2>4, <2>5
<1>6. ASSUME NEW type \in {"final", "error"}, EndTurn(type) PROVE Good
  <2>1. /\ turn.pc = "running" /\ tasks' = (IF inject = <<>> THEN tasks ELSE Append(tasks, Last(inject).ts))
        /\ inject' = <<>> /\ turn'.pc = "idle" /\ handler' = handler
    BY <1>6 DEF EndTurn, NoTurn
  <2>2. tasks' = <<>> /\ \A n \in Msgs : ~InHand(n)
    BY <2>1 DEF OneUnderWay
  <2>3. OneUnderWay'
    BY <2>1, <2>2 DEF OneUnderWay, InHand
  <2>4. NewestUnderWay'
    BY <2>1, <2>2 DEF NewestUnderWay, InHand
  <2>5. QED
    BY <2>3, <2>4
<1>7. CASE ClearSession
  <2>1. /\ log' = <<>>
        /\ handler' = handler /\ tasks' = tasks /\ inject' = inject /\ turn' = turn
    BY <1>7 DEF ClearSession
  <2>2. \A p : NewestUser(p, log')
    BY <2>1 DEF NewestUser, Users
  <2>3. OneUnderWay'
    BY <2>1 DEF OneUnderWay, InHand
  <2>4. NewestUnderWay'
    BY <2>2 DEF NewestUnderWay
  <2>5. QED
    BY <2>3, <2>4
<1>8. CASE LookUp
  <2>1. turn.pc = "lookup" /\ turn'.pc \in {"append", "load"} /\ turn'.msg = turn.msg
    BY <1>8 DEF LookUp, TypeOK, Context
  <2>2. QED
    BY <1>1, <1>8, <2>1 DEF LookUp
<1>9. CASE AppendLastUser
  <2>1. turn.pc = "append" /\ turn'.pc = "running" /\ turn'.msg = turn.msg
    BY <1>9, TailChanged DEF AppendLastUser
  <2>2. QED
    BY <1>1, <1>9, <2>1 DEF AppendLastUser
<1>10. CASE LoadHistory \/ ReadPinned \/ WritePinned
  <2>1. /\ turn.pc \in {"load", "running", "pinning"} /\ turn'.pc \in {"running", "pinning"}
        /\ turn'.msg = turn.msg
    BY <1>10 DEF LoadHistory, ReadPinned, WritePinned, TypeOK, Context
  <2>2. QED
    BY <1>1, <1>10, <2>1 DEF LoadHistory, ReadPinned, WritePinned
<1>11. CASE TakeInjected
  BY <1>11 DEF TakeInjected, OneUnderWay
<1>12. CASE JobReadSummary \/ JobReadLog \/ Expire \/ SumRead \/ SumSkip
  BY <1>1, <1>12 DEF JobReadSummary, JobReadLog, Expire, SumRead, SumSkip
<1>13. CASE UNCHANGED vars \/ \E upTo \in sum.todo \union {0} : SumWrite(upTo)
  BY <1>1, <1>13 DEF SumWrite, vars
<1>14. CASE JobStore
  BY <1>1, <1>14 DEF JobStore, TypeOK, Context
<1>15. CASE ClearDone
  BY <1>1, <1>15 DEF ClearDone, DropEntry, TypeOK, Context
<1>16. QED
  BY <1>2, <1>3, <1>4, <1>5, <1>6, <1>7, <1>8, <1>9, <1>10, <1>11, <1>12, <1>13,
     <1>14, <1>15 DEF Next, Turn, Background

\* On a hit the last user message of the log is added: it is the turn's.
LEMMA HitStep ==
  ASSUME TypeOK, PathInv, LogInv, StampsInv, OneUnderWay, NewestUnderWay, HitIsHeard, [Next]_vars
  PROVE  HitIsHeard'
<1> SUFFICES ASSUME Built', turn'.hit, NEW i \in DOMAIN log', log'[i].ts = turn'.msg
             PROVE  log'[i].ts \in Told' \/ EndsWith(turn'.tail, log'[i].text)
  BY DEF HitIsHeard, Heard
<1>0. clock \in Nat /\ turn.msg \in Nat /\ turn.msg <= clock /\ log \in Seq(Entry)
  BY DEF TypeOK, Context, StampsInv
<1>1. CASE LoadHistory
  <2>1. turn.pc = "load" /\ turn'.hit = turn.hit
    BY <1>1 DEF LoadHistory, TypeOK, Context
  <2>2. QED
    BY <2>1 DEF PathInv
<1>2. CASE AppendLastUser
  <2> DEFINE n == Max(Users(log))
             newest == log[n]
  <2>1. /\ turn.pc = "append" /\ log' = log
        /\ IF Users(log) = {} \/ EndsWith(turn.tail, newest.text)
           THEN SetTail(turn.tail, "running")
           ELSE SetTail(Append(turn.tail, newest), "running")
    BY <1>2 DEF AppendLastUser
  <2>2. turn'.msg = turn.msg
    BY <2>1, TailChanged
  <2>3. i \in Users(log) /\ log[i].ts = turn.msg /\ \A j \in Users(log) : log[j].ts <= turn.msg
    BY <2>1, <2>2 DEF NewestUnderWay, NewestUser, Users
  <2>4. n \in Users(log) /\ \A k \in Users(log) : k <= n
    <3>1. Users(log) \in SUBSET DOMAIN log
      BY DEF Users
    <3>2. QED
      BY <1>0, <2>3, <3>1, EndsOfIndices
  <2> HIDE DEF n
  <2>5. newest.ts = turn.msg
    <3>1. n \in DOMAIN log /\ i \in DOMAIN log /\ i <= n /\ newest.ts <= turn.msg
      BY <2>3, <2>4 DEF Users
    <3>2. newest \in Entry
      BY <1>0, <3>1
    <3>3. newest.ts \in Nat
      BY <3>2 DEF Entry
    <3>4. i < n => log[i].ts < newest.ts
      BY <3>1 DEF LogInv, GoodLog, InOrder
    <3>5. QED
      BY <1>0, <2>3, <3>1, <3>3, <3>4
  <2>6. turn.tail \in Seq(Entry)
    BY DEF TypeOK, Context
  <2>7. newest \in Entry
    BY <1>0, <2>4 DEF Users
  <2>8. i = n
    <3>1. n \in DOMAIN log /\ i \in DOMAIN log /\ DOMAIN log \subseteq Nat
      BY <1>0, <2>3, <2>4 DEF Users
    <3>2. ~(i < n) /\ ~(n < i)
      BY <1>0, <2>3, <2>5, <3>1 DEF LogInv, GoodLog, InOrder
    <3>3. QED
      BY <3>1, <3>2
  <2> HIDE DEF newest
  <2>9. CASE EndsWith(turn.tail, newest.text)
    <3>1. turn'.tail = turn.tail
      BY <2>1, <2>9, TailChanged DEF n, newest
    <3>2. QED
      BY <2>1, <2>8, <2>9, <3>1 DEF newest
  <2>10. CASE ~EndsWith(turn.tail, newest.text)
    <3>1. turn'.tail = Append(turn.tail, newest)
      BY <2>1, <2>3, <2>10, TailChanged DEF n, newest
    <3>2. Len(turn.tail) + 1 \in DOMAIN turn'.tail /\ turn'.tail[Len(turn.tail) + 1] = newest
      BY <2>6, <2>7, <3>1, AppendedEntries
    <3>3. newest.ts \in Stamps(turn'.tail)
      BY <3>2 DEF Stamps
    <3>4. QED
      BY <2>1, <2>8, <3>3 DEF Told, newest
  <2>11. QED
    BY <2>9, <2>10
<1>3. CASE ~LoadHistory /\ ~AppendLastUser
  <2>1. /\ Built /\ turn'.msg = turn.msg /\ turn'.hit = turn.hit /\ Told \subseteq Told'
        /\ turn'.tail = turn.tail
    BY <1>3, BuiltGrows DEF OneUnderWay
  <2>2. i \in DOMAIN log /\ log[i] = log'[i]
    BY <1>0, <2>1, OldEntries, EveryStepMovesTheLog
  <2>3. log[i].ts \in Told \/ EndsWith(turn.tail, log[i].text)
    BY <2>1, <2>2 DEF HitIsHeard, Heard
  <2>4. QED
    BY <2>1, <2>2, <2>3
<1>4. QED
  BY <1>1, <1>2, <1>3

LEMMA WaitedStep ==
  ASSUME TypeOK, TypeOK', PathInv, LogInv, StampsInv, WaitedInv, [Next]_vars
  PROVE  WaitedInv'
<1> SUFFICES ASSUME waited'
             PROVE  (OneUnderWay /\ NewestUnderWay /\ ContextsSound /\ HitIsHeard)'
  BY DEF WaitedInv
<1>1. waited
  <2>1. ASSUME NEW m \in Msgs, SaveMessage(m) PROVE waited
    BY <2>1 DEF SaveMessage
  <2>2. ASSUME NEW m \in Msgs, Invalidate(m) \/ EnqueueMessage(m) PROVE waited' = waited
    BY <2>2 DEF Invalidate, EnqueueMessage
  <2>3. Turn => waited' = waited
    BY DEF Turn, StartTurn, LookUp, AppendLastUser, LoadHistory, TakeInjected, ReadPinned,
           WritePinned, EndTurn
  <2>4. Background => waited' = waited
    BY DEF Background, JobReadSummary, JobReadLog, JobStore, Expire, SumRead, SumSkip, SumWrite
  <2>5. ClearSession \/ ClearDone \/ UNCHANGED vars => waited' = waited
    BY DEF ClearSession, ClearDone, vars
  <2>6. QED
    BY <2>1, <2>2, <2>3, <2>4, <2>5 DEF Next
<1>2. OneUnderWay /\ NewestUnderWay /\ ContextsSound /\ HitIsHeard
  BY <1>1 DEF WaitedInv
<1>3. inject = <<>>
  BY <1>2 DEF OneUnderWay
<1>4. QED
  BY <1>2, <1>3, UnderWayStep, ContextsStep, HitStep

-----------------------------------------------------------------------------
LEMMA InitHolds == Init => IInv
<1> SUFFICES ASSUME Init PROVE IInv
  OBVIOUS
<1>1. TypeOK
  BY TypeInit
<1>2. /\ log = <<>> /\ clock = 0 /\ clear.upTo = 0 /\ row = NoRow /\ turn = NoTurn /\ sum = NoSum
      /\ tasks = <<>> /\ inject = <<>> /\ job = NoJob /\ cache = NoEntry
      /\ \A m \in Msgs : handler[m] = [pc |-> "new", said |-> Unsaid]
  BY DEF Init
<1>3. PathInv /\ ~Built
  BY <1>2 DEF PathInv, NoTurn, Built
<1>4. LogInv
  BY <1>2 DEF LogInv, GoodLog, InOrder
<1>5. SummaryInv
  <2>1. Right(NoRow.covers, NoRow.mark)
    BY <1>1, NothingIsRight
  <2>2. row = NoRow /\ turn.rec = NoRow /\ turn.note = NoRow /\ sum.todo = {}
    BY <1>2 DEF NoTurn, NoSum
  <2>3. QED
    BY <2>1, <2>2 DEF SummaryInv, Right
<1>6. StampsInv
  <2>1. turn.msg = 0 /\ \A m \in Msgs : handler[m].said.ts = 0
    BY <1>2, UnsaidIsEntry DEF NoTurn
  <2>2. DOMAIN tasks = {} /\ DOMAIN inject = {}
    BY <1>2
  <2>3. QED
    BY <1>2, <2>1, <2>2 DEF StampsInv
<1>7. LoadedHistoryIsWhole /\ HitIsHeard
  BY <1>3 DEF LoadedHistoryIsWhole, HitIsHeard
<1>8. ContextsSound
  <2>1. cache.tail = <<>> /\ job.tail = <<>> /\ turn.tail = <<>>
    BY <1>2 DEF NoEntry, NoJob, NoTurn
  <2>2. QED
    BY <2>1, NothingIsFine DEF Fine, ContextsSound
<1>9. OneUnderWay /\ NewestUnderWay
  BY <1>2 DEF OneUnderWay, NewestUnderWay, InHand, NoTurn
<1>10. QED
  BY <1>1, <1>3, <1>4, <1>5, <1>6, <1>7, <1>8, <1>9 DEF IInv, WaitedInv

LEMMA StepHolds == IInv /\ [Next]_vars => IInv'
<1> SUFFICES ASSUME IInv, [Next]_vars PROVE IInv'
  OBVIOUS
<1>1. TypeOK'
  BY TypeStep DEF IInv
<1>2. PathInv'
  BY PathStep DEF IInv
<1>3. LogInv'
  BY LogStep, EveryStepMovesTheLog DEF IInv
<1>4. SummaryInv'
  BY <1>1, SummaryStep DEF IInv
<1>5. StampsInv'
  BY <1>1, StampsStep DEF IInv
<1>6. LoadedHistoryIsWhole'
  BY WholeStep DEF IInv
<1>7. WaitedInv'
  BY <1>1, WaitedStep DEF IInv
<1>8. QED
  BY <1>1, <1>2, <1>3, <1>4, <1>5, <1>6, <1>7 DEF IInv

\* What a turn is told and the summary are what the log says, for any number
\* of messages and any thresholds.
THEOREM ContextInvariant == Spec => []IInv
<1>1. Init => IInv
  BY InitHolds
<1>2. IInv /\ [Next]_vars => IInv'
  BY StepHolds
<1>3. QED
  BY <1>1, <1>2, PTL DEF Spec

\* The summary holds every message up to its watermark and no other, however
\* the summarizer, the remember tool and /clear interleave (summarizer.py
\* 300-355, memory_manager.py 2083-2116).
THEOREM SummaryKeepsItsMark == Spec => []SummaryMatchesMark
<1>1. IInv => SummaryMatchesMark
  <2> SUFFICES ASSUME IInv PROVE {ts \in row.covers : ts > clear.upTo} = {ts \in Counted : ts <= row.mark}
    BY DEF SummaryMatchesMark
  <2>1. Counted = CountedIn(log)
    BY DEF Counted, CountedIn
  <2>2. \A ts \in CountedIn(log) : ts \in Nat /\ ts > clear.upTo
    <3>1. \A i \in DOMAIN log : log[i].ts \in Nat
      <4>1. \A i \in DOMAIN log : log[i] \in Entry
        BY DEF IInv, TypeOK
      <4>2. QED
        BY <4>1 DEF Entry
    <3>2. QED
      BY <3>1 DEF CountedIn, Semantic, IInv, LogInv, GoodLog
  <2>3. row.covers \in SUBSET Nat
    BY DEF IInv, TypeOK, Summary
  <2>4. \A ts \in Nat : ts > clear.upTo => (ts \in row.covers <=> ts \in CountedIn(log) /\ ts <= row.mark)
    BY DEF IInv, SummaryInv, Agrees
  <2>5. QED
    BY <2>1, <2>2, <2>3, <2>4
<1>2. QED
  BY <1>1, ContextInvariant, PTL

\* A turn is told everything the log has for it, and the user who waits for
\* each answer nothing twice (runtime.py 2278-2373).
THEOREM HistoryHasNoGaps == Spec => []HistoryIsToldWhole
<1>1. IInv => HistoryIsToldWhole
  <2> SUFFICES ASSUME IInv, waited, Built PROVE IsInjective(turn.tail)
    BY DEF HistoryIsToldWhole, NothingIsToldTwice, IInv
  <2>1. turn.tail \in Seq(Entry) /\ InOrder(turn.tail)
    BY DEF IInv, WaitedInv, ContextsSound, Sound, TypeOK, Context
  <2>2. \A i \in DOMAIN turn.tail : turn.tail[i].ts \in Nat
    <3>1. \A i \in DOMAIN turn.tail : turn.tail[i] \in Entry
      BY <2>1
    <3>2. QED
      BY <3>1 DEF Entry
  <2>3. DOMAIN turn.tail \subseteq Nat
    BY <2>1
  <2>4. ASSUME NEW i \in DOMAIN turn.tail, NEW j \in DOMAIN turn.tail, turn.tail[i] = turn.tail[j]
        PROVE  i = j
    <3>1. ~(i < j) /\ ~(j < i)
      BY <2>1, <2>2, <2>4 DEF InOrder
    <3>2. QED
      BY <2>3, <3>1
  <2>5. QED
    BY <2>4 DEF IsInjective
<1>2. QED
  BY <1>1, ContextInvariant, PTL

\* A user who waits for each answer is heard, from the prefetched context, the
\* log or the summary (runtime.py 2278-2373).
THEOREM WaitingUserIsHeard == Spec => []PatientUserIsHeard
<1>1. IInv => PatientUserIsHeard
  <2> SUFFICES ASSUME IInv, waited, Built, NEW i \in DOMAIN log, log[i].ts = turn.msg
               PROVE  turn.msg \in Told \/ (turn.hit /\ EndsWith(turn.tail, log[i].text))
    BY DEF PatientUserIsHeard
  <2>1. CASE turn.hit
    BY <2>1 DEF IInv, WaitedInv, HitIsHeard, Heard
  <2>2. CASE ~turn.hit
    <3>1. SaidByUser(log[i])
      BY DEF IInv, WaitedInv, NewestUnderWay, NewestUser, Built
    <3>2. turn.msg <= turn.msg
      BY DEF IInv, TypeOK, Context
    <3>3. ~(SaidAfter(log, i) >= HistoryLimit)
      <4>1. \A j \in DOMAIN log : log[j].ts <= log[i].ts
        BY DEF IInv, WaitedInv, NewestUnderWay, NewestUser, Built
      <4>2. \A j \in DOMAIN log : log[j].ts \in Nat
        <5>1. log \in Seq(Entry)
          BY DEF IInv, TypeOK
        <5>2. \A j \in DOMAIN log : log[j] \in Entry
          BY <5>1
        <5>3. QED
          BY <5>2 DEF Entry
      <4>3. \A j \in DOMAIN log : ~(i < j)
        BY <4>1, <4>2 DEF IInv, LogInv, GoodLog, InOrder
      <4>4. {j \in Semantic(log) : j > i} = {}
        BY <4>3 DEF Semantic
      <4>5. SaidAfter(log, i) = 0
        BY <4>4, FS_EmptySet DEF SaidAfter
      <4>6. QED
        BY <4>5, ContextAssumption
    <3>4. QED
      BY <2>2, <3>1, <3>2, <3>3 DEF IInv, LoadedHistoryIsWhole, Users
  <2>3. QED
    BY <2>1, <2>2
<1>2. QED
  BY <1>1, ContextInvariant, PTL
=============================================================================
