--------------------------- MODULE ServicesProofs ---------------------------
(* The services around the turns: calls through a connector, schedules,      *)
(* updates, requests between agents and people, plugins, the rows of state,  *)
(* the knowledge base, the queue of a chat.  The parts share no variables;   *)
(* each section states the inductive invariant of one.                       *)
EXTENDS TunnelCalls, Schedules, Updates, Delegation, OutboundDispatch, Plugins,
        SessionState, KnowledgeBase, FiniteSetTheorems, SequenceTheorems, TLAPS

-----------------------------------------------------------------------------
(* Calls through a connector: what was not run, and what is not sent again. *)

RunsTyped ==
    /\ dedups \in BOOLEAN /\ ws \in Links \union {NoLink}
    /\ caller \in [TunnelRequests -> [at : CallPlace, ws : Links \union {NoLink}]]
    /\ link \in [Links -> {"none", "accepted", "resend", "loop", "closing", "gone"}]
    /\ cached \in [TunnelRequests -> {"none", "running", "done"}]
    /\ runs \in [TunnelRequests -> Nat]
    /\ forgotten \in [TunnelRequests -> Nat]

\* What Evonet does not know it never ran, or has lost.
UnknownWasNotRun == \A r \in TunnelRequests : cached[r] = "none" => runs[r] <= forgotten[r]

\* Without deduplication nothing is sent again: a request is on its way at most
\* once, and has not run while it is, or while its caller has yet to send it.
NothingIsResent ==
    ~dedups =>
        /\ \A c \in Links : link[c] # "resend"
        /\ \A r \in TunnelRequests, c, d \in Links :
               <<c, r>> \in toDevice => runs[r] = 0 /\ (<<d, r>> \in toDevice => c = d)
        /\ \A r \in TunnelRequests : caller[r].at \in {"idle", "made", "send"} =>
               runs[r] = 0 /\ \A c \in Links : <<c, r>> \notin toDevice

RunsInv == RunsTyped /\ UnknownWasNotRun /\ NothingIsResent /\ RunsOnce

LEMMA CallPlaces == {"idle", "made", "send", "wait", "answered", "failed"} \subseteq CallPlace
BY DEF CallPlace

LEMMA RunsInvInit == TunnelInit => RunsInv
BY DEF TunnelInit, RunsInv, RunsTyped, UnknownWasNotRun, NothingIsResent, RunsOnce, NoLink, CallPlace

LEMMA LinksKeepRuns ==
    ASSUME RunsInv, NEW c \in Links,
           Dial(c) \/ Connected(c) \/ Resend(c) \/ LoopEnds(c) \/ Disconnected(c) \/ Break(c)
    PROVE  RunsInv'
<1> USE DEF RunsInv, RunsTyped, UnknownWasNotRun, NothingIsResent, RunsOnce, device, server
<1>1. CASE Dial(c) BY <1>1 DEF Dial
<1>2. CASE Connected(c) BY <1>2 DEF Connected
<1>3. CASE Resend(c) BY <1>3 DEF Resend
<1>4. CASE LoopEnds(c) BY <1>4 DEF LoopEnds
<1>5. CASE Disconnected(c)
  <2>1. \A q \in TunnelRequests :
           caller'[q] \in {caller[q], [at |-> "failed", ws |-> caller[q].ws]}
    BY <1>5 DEF Disconnected
  <2>2. DOMAIN caller' = TunnelRequests /\ caller' = [q \in TunnelRequests |-> caller'[q]]
    BY <1>5 DEF Disconnected
  <2>3. caller' \in [TunnelRequests -> [at : CallPlace, ws : Links \union {NoLink}]]
    <3>1. \A q \in TunnelRequests : caller[q] \in [at : CallPlace, ws : Links \union {NoLink}]
      OBVIOUS
    <3>2. \A q \in TunnelRequests : caller'[q] \in [at : CallPlace, ws : Links \union {NoLink}]
      BY <2>1, <3>1, CallPlaces
    <3> QED BY <2>2, <3>2
  <2>4. \A q \in TunnelRequests : caller'[q].at \in {caller[q].at, "failed"}
    BY <2>1
  <2>5. UNCHANGED <<dedups, cached, runs, forgotten, toDevice>> /\ link' = [link EXCEPT ![c] = "gone"]
        /\ ws' = NoLink
    BY <1>5 DEF Disconnected
  <2>6. RunsTyped' BY <2>3, <2>5
  <2>7. NothingIsResent' BY <2>4, <2>5
  <2> QED BY <2>5, <2>6, <2>7
<1>6. CASE Break(c) BY <1>6 DEF Break
<1> QED BY <1>1, <1>2, <1>3, <1>4, <1>5, <1>6

\* A call that moves on, to a place where it does not send again.
LEMMA CallMovesOn ==
    ASSUME RunsInv, NEW r \in TunnelRequests, NEW place \in CallPlace,
           caller' = [caller EXCEPT ![r].at = place],
           UNCHANGED <<dedups, link, cached, runs, forgotten, toDevice, ws>>,
           place \in {"idle", "made", "send"} => caller[r].at \in {"idle", "made", "send"}
    PROVE  RunsInv'
BY DEF RunsInv, RunsTyped, UnknownWasNotRun, NothingIsResent, RunsOnce

LEMMA CallsKeepRuns ==
    ASSUME RunsInv, NEW r \in TunnelRequests,
           ReadSocket(r) \/ AddPending(r) \/ SendRequest(r) \/ GiveUp(r) \/ Executed(r) \/ Evict(r)
    PROVE  RunsInv'
<1> USE DEF RunsInv, RunsTyped, UnknownWasNotRun, NothingIsResent, RunsOnce, device, server
<1>1. CASE ReadSocket(r)
  <2>1. caller[r].at = "idle" /\ \E call \in [at : CallPlace, ws : Links \union {NoLink}] :
                                     caller' = [caller EXCEPT ![r] = call]
    <3>1. CASE ws = NoLink /\ ~replay BY <1>1, <3>1, CallPlaces DEF ReadSocket
    <3>2. CASE ~(ws = NoLink /\ ~replay) BY <1>1, <3>2, CallPlaces DEF ReadSocket
    <3> QED BY <3>1, <3>2
  <2>2. UNCHANGED <<dedups, link, cached, runs, forgotten, toDevice, ws>> BY <1>1 DEF ReadSocket
  <2> QED BY <2>1, <2>2
<1>2. CASE AddPending(r)
  <2>1. caller[r].at = "made" /\ caller' = [caller EXCEPT ![r].at = "send"]
    BY <1>2 DEF AddPending
  <2>2. UNCHANGED <<dedups, link, cached, runs, forgotten, toDevice, ws>> BY <1>2 DEF AddPending
  <2> QED BY <2>1, <2>2, CallMovesOn, CallPlaces
<1>3. CASE SendRequest(r)
  <2>1. UNCHANGED <<dedups, link, ws, cached, runs, forgotten>> BY <1>3 DEF SendRequest
  <2>2. /\ caller[r].at = "send"
        /\ \E place \in {"wait", "failed"} : caller' = [caller EXCEPT ![r].at = place]
        /\ toDevice' \in {toDevice, toDevice \union {<<caller[r].ws, r>>}}
    BY <1>3 DEF SendRequest
  <2>3. RunsTyped' BY <2>1, <2>2, CallPlaces
  <2>4. \A q \in TunnelRequests \ {r} : /\ caller'[q] = caller[q]
                                        /\ \A d \in Links : <<d, q>> \in toDevice' => <<d, q>> \in toDevice
    BY <2>2
  <2>5. caller'[r].at \in {"wait", "failed"} BY <2>2
  <2>6. ~dedups => \A d \in Links : <<d, r>> \in toDevice' => runs[r] = 0 /\ d = caller[r].ws
    BY <2>2
  <2>7. NothingIsResent' BY <2>1, <2>4, <2>5, <2>6
  <2> QED BY <2>1, <2>3, <2>7
<1>4. CASE GiveUp(r)
  <2>1. caller' = [caller EXCEPT ![r].at = "failed"] BY <1>4 DEF GiveUp
  <2>2. UNCHANGED <<dedups, link, cached, runs, forgotten, toDevice, ws>> BY <1>4 DEF GiveUp
  <2> QED BY <2>1, <2>2, CallMovesOn, CallPlaces
<1>5. CASE Executed(r) BY <1>5 DEF Executed
<1>6. CASE Evict(r) BY <1>6 DEF Evict
<1> QED BY <1>1, <1>2, <1>3, <1>4, <1>5, <1>6

LEMMA MessagesKeepRuns ==
    ASSUME RunsInv, NEW c \in Links, NEW r \in TunnelRequests,
           OnMessage(c, r) \/ Handle(c, r) \/ Answer(c, r)
    PROVE  RunsInv'
<1> USE DEF RunsInv, RunsTyped, UnknownWasNotRun, NothingIsResent, RunsOnce, device, server
<1>1. CASE OnMessage(c, r)
  <2>1. UNCHANGED <<dedups, link, cached, runs, forgotten, toDevice, ws>> BY <1>1 DEF OnMessage
  <2>2. CASE caller' = [caller EXCEPT ![r].at = "answered"] BY <2>1, <2>2, CallMovesOn, CallPlaces
  <2>3. CASE UNCHANGED caller BY <2>1, <2>3
  <2> QED BY <1>1, <2>2, <2>3 DEF OnMessage
<1>2. CASE Handle(c, r)
  <2>1. UNCHANGED <<dedups, link, ws, caller, forgotten>> /\ toDevice' = toDevice \ {<<c, r>>}
        /\ <<c, r>> \in toDevice
    BY <1>2 DEF Handle
  <2>2. CASE dedups /\ cached[r] # "none"
    BY <1>2, <2>1, <2>2 DEF Handle
  <2>3. CASE ~(dedups /\ cached[r] # "none")
    <3>1. cached' = [cached EXCEPT ![r] = "running"] /\ runs' = [runs EXCEPT ![r] = @ + 1]
      BY <1>2, <2>3 DEF Handle
    <3>2. RunsTyped' BY <2>1, <3>1
    <3>3. runs[r] <= forgotten[r] BY <2>1, <2>3
    <3>4. UnknownWasNotRun' /\ RunsOnce' BY <2>1, <3>1, <3>3
    <3>5. ASSUME ~dedups PROVE \A d \in Links : <<d, r>> \notin toDevice'
      BY <2>1, <3>5
    <3>6. ~dedups => caller[r].at \notin {"idle", "made", "send"} BY <2>1
    <3>7. NothingIsResent' BY <2>1, <3>1, <3>5, <3>6
    <3> QED BY <3>2, <3>4, <3>7
  <2> QED BY <2>2, <2>3
<1>3. CASE Answer(c, r) BY <1>3 DEF Answer
<1> QED BY <1>1, <1>2, <1>3

LEMMA DeviceKeepsRuns ==
    ASSUME RunsInv, ClientNotices \/ DeviceRestarts
    PROVE  RunsInv'
<1> USE DEF RunsInv, RunsTyped, UnknownWasNotRun, NothingIsResent, RunsOnce, device, server
<1>1. CASE ClientNotices BY <1>1 DEF ClientNotices
<1>2. CASE DeviceRestarts
  <2>1. UNCHANGED <<link, ws, caller, runs>> BY <1>2 DEF DeviceRestarts
  <2>2. toDevice' \subseteq toDevice BY <1>2 DEF DeviceRestarts
  <2>3. dedups' \in BOOLEAN /\ (~dedups' => ~dedups)
    <3>1. CASE dedups' = dedups BY <3>1
    <3>2. CASE dedups' = TRUE BY <3>2
    <3> QED BY <1>2, <3>1, <3>2 DEF DeviceRestarts
  <2>4. cached' = [r \in TunnelRequests |-> "none"]
    BY <1>2 DEF DeviceRestarts
  <2>5. forgotten' = [r \in TunnelRequests |->
                         IF cached[r] = "none" THEN forgotten[r] ELSE forgotten[r] + 1]
    BY <1>2 DEF DeviceRestarts
  <2>6. RunsTyped'
    <3>1. forgotten' \in [TunnelRequests -> Nat]
      BY <2>5
    <3>2. cached' \in [TunnelRequests -> {"none", "running", "done"}]
      BY <2>4
    <3> QED BY <2>1, <2>3, <3>1, <3>2
  <2>7. \A r \in TunnelRequests : runs[r] <= forgotten'[r] BY <2>5
  <2>8. UnknownWasNotRun' /\ RunsOnce' BY <2>1, <2>6, <2>7
  <2>9. NothingIsResent' BY <2>1, <2>2, <2>3
  <2> QED BY <2>6, <2>8, <2>9
<1> QED BY <1>1, <1>2

\* RunsOnce, for any requests and any bounds: _call, the resending of
\* on_ws_connected and Executor.Handle execute a request again only when Evonet
\* has lost what it knew of it.
THEOREM RequestRunsOnce == TunnelSpec => []RunsOnce
<1>1. RunsInv /\ [TunnelNext]_tunnelVars => RunsInv'
  <2>1. ASSUME RunsInv, TunnelNext PROVE RunsInv'
    BY <2>1, LinksKeepRuns, CallsKeepRuns, MessagesKeepRuns, DeviceKeepsRuns DEF TunnelNext
  <2>2. ASSUME RunsInv, UNCHANGED tunnelVars PROVE RunsInv'
    BY <2>2 DEF tunnelVars, RunsInv, RunsTyped, UnknownWasNotRun, NothingIsResent, RunsOnce
  <2> QED BY <2>1, <2>2
<1>2. RunsInv => RunsOnce BY DEF RunsInv
<1> QED BY RunsInvInit, <1>1, <1>2, PTL DEF TunnelSpec

-----------------------------------------------------------------------------
(* Schedules: what the stored count of a schedule misses. *)

Counter == [at : ExecPlace, count : Nat, ok : BOOLEAN, slow : BOOLEAN, last : BOOLEAN,
            stale : BOOLEAN]

CountsTyped ==
    /\ trigger \in {"date", "interval", "auto_extend"}
    /\ plan \in [exists : BOOLEAN, enabled : BOOLEAN, count : Nat, due : {"ahead", "missed"}]
    /\ execution \in [Executors -> Counter]
    /\ actionRuns \in Nat /\ extraRuns \in Nat

\* Between its action and the count of it, and before its action.
Uncounted(e) == execution[e].at \in {"close", "count"}
Begun(e) == execution[e].at \in {"check", "log", "act"} /\ ~execution[e].stale

\* With the count n, and what is yet to be counted, every action is accounted for.
Allows(n) ==
    /\ actionRuns <= n + extraRuns + 1
    /\ (\A e \in Executors : ~Uncounted(e)) => actionRuns <= n + extraRuns

CountsKeepUp ==
    /\ plan.exists => Allows(plan.count)
    /\ \A e \in Executors : Begun(e) \/ Uncounted(e) => Allows(execution[e].count)

\* A schedule that is enabled, or has begun, has a run left.
RunIsLeft ==
    (\A e \in Executors : ~Uncounted(e)) =>
        /\ plan.exists /\ plan.enabled => actionRuns < RunLimit + extraRuns
        /\ \A e \in Executors : Begun(e) => actionRuns < RunLimit + extraRuns

OneUncounted ==
    \A e \in Executors : Uncounted(e) =>
        ~execution[e].stale /\ \A x \in Executors \ {e} : ~Uncounted(x)

SchedInv ==
    /\ CountsTyped
    /\ ~overlapped => /\ CountsKeepUp /\ RunIsLeft /\ OneUncounted
                      /\ actionRuns <= RunLimit + extraRuns

LEMMA RunLimitIsPositive == ASSUME SchedInv PROVE RunLimit \in Nat \ {0}
BY ScheduleAssumption DEF SchedInv, CountsTyped, RunLimit

LEMMA NotRunningIsTyped ==
    /\ NotRunning \in Counter
    /\ NotRunning.at = "idle"
BY DEF NotRunning, Counter, ExecPlace

LEMMA SchedInvInit == SchedInit => SchedInv
<1> SUFFICES ASSUME SchedInit PROVE SchedInv OBVIOUS
<1>1. CountsTyped BY NotRunningIsTyped DEF SchedInit, CountsTyped
<1>2. \A e \in Executors : ~Uncounted(e) /\ ~Begun(e)
  BY NotRunningIsTyped DEF SchedInit, Uncounted, Begun
<1>3. RunLimit \in Nat \ {0} BY ScheduleAssumption DEF RunLimit
<1> QED BY <1>1, <1>2, <1>3 DEF SchedInit, SchedInv, CountsKeepUp, RunIsLeft, OneUncounted, Allows

\* A step of one executor that neither acts nor counts, or ends the execution.
LEMMA MovingKeepsCounts ==
    ASSUME SchedInv, NEW e \in Executors, NEW new \in Counter,
           execution' = [execution EXCEPT ![e] = new],
           UNCHANGED <<trigger, plan, overlapped, actionRuns, extraRuns>>,
           \/ new.at \in {"idle", "arm"} /\ ~Uncounted(e)
           \/ /\ new.count = execution[e].count /\ new.stale = execution[e].stale
              /\ \/ execution[e].at \in {"check", "log", "act"} /\ new.at \in {"check", "log", "act"}
                 \/ Uncounted(e) /\ new.at \in {"close", "count"}
    PROVE  SchedInv'
<1>1. CountsTyped' BY DEF SchedInv, CountsTyped
<1>2. execution'[e] = new /\ \A x \in Executors \ {e} : execution'[x] = execution[x]
  BY DEF SchedInv, CountsTyped
<1>3. \A x \in Executors : /\ Uncounted(x)' <=> Uncounted(x)
                           /\ Begun(x)' => Begun(x) /\ execution'[x].count = execution[x].count
                           /\ Uncounted(x)' => /\ execution'[x].count = execution[x].count
                                               /\ execution'[x].stale = execution[x].stale
  BY <1>2 DEF Uncounted, Begun
<1>4. RunLimit' = RunLimit BY DEF RunLimit
<1> QED BY <1>1, <1>3, <1>4 DEF SchedInv, CountsKeepUp, RunIsLeft, OneUncounted, Allows

\* An execution that begins takes the count of the row.
LEMMA EnteringKeepsCounts ==
    ASSUME SchedInv, NEW e \in Executors, execution[e].at = "idle", Enter(e),
           UNCHANGED <<trigger, plan, overlapped, actionRuns, extraRuns>>
    PROVE  SchedInv'
<1>1. CASE ~(plan.exists /\ plan.enabled)
  BY <1>1 DEF Enter, SchedInv, CountsTyped, CountsKeepUp, RunIsLeft, OneUncounted, Allows, Uncounted, Begun, RunLimit
<1>2. CASE plan.exists /\ plan.enabled
  <2>1. PICK new \in Counter : /\ execution' = [execution EXCEPT ![e] = new]
                               /\ new.count = plan.count /\ new.at \in {"check", "act"}
                               /\ ~new.stale
    <3> DEFINE new == [NotRunning EXCEPT !.at = IF trigger = "auto_extend" THEN "check" ELSE "act",
                                         !.count = plan.count]
    <3>1. execution' = [execution EXCEPT ![e] = new] BY <1>2 DEF Enter
    <3>2. new \in Counter /\ new.count = plan.count /\ new.at \in {"check", "act"} /\ ~new.stale
      BY DEF NotRunning, Counter, SchedInv, CountsTyped, ExecPlace
    <3> QED BY <3>1, <3>2
  <2>2. CountsTyped' BY <2>1 DEF SchedInv, CountsTyped
  <2>3. execution'[e] = new /\ \A x \in Executors \ {e} : execution'[x] = execution[x]
    BY <2>1 DEF SchedInv, CountsTyped
  <2>4. \A x \in Executors : Uncounted(x)' <=> Uncounted(x)
    BY <2>1, <2>3 DEF Uncounted
  <2>5. \A x \in Executors \ {e} : (Begun(x)' <=> Begun(x)) /\ execution'[x] = execution[x]
    BY <2>3 DEF Begun
  <2>6. ~Uncounted(e) /\ execution'[e].count = plan.count BY <2>1, <2>3 DEF Uncounted
  <2>7. RunLimit' = RunLimit BY DEF RunLimit
  <2> QED BY <1>2, <2>2, <2>4, <2>5, <2>6, <2>7
          DEF SchedInv, CountsKeepUp, RunIsLeft, OneUncounted, Allows
<1> QED BY <1>1, <1>2

LEMMA StepsKeepCounts ==
    ASSUME SchedInv, NEW e \in Executors,
           PreviousStillRuns(e) \/ PassCheck(e) \/ OpenLog(e) \/ CloseLog(e) \/ ArmNext(e)
    PROVE  SchedInv'
<1> DEFINE ex == execution[e]
<1>1. ex \in Counter /\ \A place \in ExecPlace : /\ [ex EXCEPT !.at = place] \in Counter
                                                 /\ [ex EXCEPT !.at = place].at = place
                                                 /\ [ex EXCEPT !.at = place].count = ex.count
                                                /\ [ex EXCEPT !.at = place].stale = ex.stale
  BY DEF SchedInv, CountsTyped, Counter
<1>2. \A place : Move(e, place) => execution' = [execution EXCEPT ![e] = [ex EXCEPT !.at = place]]
  BY DEF Move, SchedInv, CountsTyped
<1>3. {"log", "act", "count"} \subseteq ExecPlace BY DEF ExecPlace
<1>4. CASE PreviousStillRuns(e)
  BY <1>4, NotRunningIsTyped, MovingKeepsCounts DEF PreviousStillRuns, Leave, Uncounted
<1>5. CASE PassCheck(e)
  BY <1>1, <1>2, <1>3, <1>5, MovingKeepsCounts DEF PassCheck
<1>6. CASE OpenLog(e)
  BY <1>1, <1>2, <1>3, <1>6, MovingKeepsCounts DEF OpenLog
<1>7. CASE CloseLog(e)
  BY <1>1, <1>2, <1>3, <1>7, MovingKeepsCounts DEF CloseLog, Uncounted
<1>8. CASE ArmNext(e)
  BY <1>8, NotRunningIsTyped, MovingKeepsCounts DEF ArmNext, Leave, Uncounted
<1> QED BY <1>4, <1>5, <1>6, <1>7, <1>8

\* The chain of a disabled agent ends with one count more than it has read.
LEMMA AgentDisabledKeepsCounts ==
    ASSUME SchedInv, NEW e \in Executors, AgentDisabled(e)
    PROVE  SchedInv'
<1>1. /\ execution' = [execution EXCEPT ![e] = NotRunning] /\ execution[e].at = "check"
      /\ UNCHANGED <<trigger, actionRuns, extraRuns>>
      /\ plan' = [plan EXCEPT !.count = IF plan.exists THEN execution[e].count + 1 ELSE @, !.enabled = FALSE]
      /\ overlapped' = (overlapped \/ execution[e].stale)
  BY DEF AgentDisabled, Leave
<1>2. /\ plan'.exists = plan.exists /\ ~plan'.enabled
      /\ plan.exists => plan'.count = execution[e].count + 1
      /\ execution[e].count \in Nat
  BY <1>1 DEF SchedInv, CountsTyped, Counter
<1>3. CountsTyped'
  <2>1. execution' \in [Executors -> Counter] BY <1>1, NotRunningIsTyped DEF SchedInv, CountsTyped
  <2>2. plan' \in [exists : BOOLEAN, enabled : BOOLEAN, count : Nat, due : {"ahead", "missed"}]
    <3> DEFINE n == IF plan.exists THEN execution[e].count + 1 ELSE plan.count
    <3>1. n \in Nat BY <1>2 DEF SchedInv, CountsTyped
    <3>2. plan' = [plan EXCEPT !.count = n, !.enabled = FALSE] BY <1>1
    <3> HIDE DEF n
    <3> QED BY <3>1, <3>2 DEF SchedInv, CountsTyped
  <2> QED BY <1>1, <2>1, <2>2 DEF SchedInv, CountsTyped
<1>4. execution'[e] = NotRunning /\ \A x \in Executors \ {e} : execution'[x] = execution[x]
  BY <1>1 DEF SchedInv, CountsTyped
<1>5. \A x \in Executors : /\ Uncounted(x)' <=> Uncounted(x)
                           /\ Begun(x)' => Begun(x) /\ execution'[x].count = execution[x].count
                           /\ Uncounted(x)' => /\ execution'[x].count = execution[x].count
                                               /\ execution'[x].stale = execution[x].stale
  BY <1>1, <1>4, NotRunningIsTyped DEF Uncounted, Begun
<1>6. ~execution[e].stale => Begun(e) BY <1>1 DEF Begun
<1>7. RunLimit' = RunLimit BY <1>1 DEF RunLimit
<1>8. ASSUME ~overlapped' PROVE CountsKeepUp'
  <2>1. ~overlapped /\ ~execution[e].stale BY <1>1, <1>8 DEF SchedInv, CountsTyped
  <2>2. Allows(execution[e].count) BY <1>6, <2>1 DEF SchedInv, CountsKeepUp
  <2>3. CountsKeepUp BY <2>1 DEF SchedInv
  <2>4. actionRuns \in Nat /\ extraRuns \in Nat BY DEF SchedInv, CountsTyped
  <2> QED BY <1>1, <1>2, <1>5, <2>2, <2>3, <2>4 DEF CountsKeepUp, Allows
<1>9. ASSUME ~overlapped' PROVE RunIsLeft' /\ OneUncounted' /\ actionRuns' <= RunLimit' + extraRuns'
  <2>1. ~overlapped BY <1>1, <1>9 DEF SchedInv, CountsTyped
  <2> QED BY <1>1, <1>2, <1>5, <1>7, <2>1 DEF SchedInv, RunIsLeft, OneUncounted
<1> QED BY <1>3, <1>8, <1>9 DEF SchedInv

LEMMA ActingKeepsCounts ==
    ASSUME SchedInv, NEW e \in Executors, NEW ok \in BOOLEAN, NEW slow \in BOOLEAN,
           NEW last \in BOOLEAN, Act(e, ok, slow, last)
    PROVE  SchedInv'
<1> DEFINE new == [execution[e] EXCEPT !.at = "close", !.ok = ok, !.slow = slow, !.last = last]
<1>1. /\ execution' = [execution EXCEPT ![e] = new] /\ execution[e].at = "act"
      /\ UNCHANGED <<trigger, plan, extraRuns>> /\ actionRuns' = actionRuns + 1
      /\ ~overlapped' => /\ ~overlapped /\ ~execution[e].stale
                         /\ \A x \in Executors \ {e} : ~Uncounted(x)
  BY DEF Act, Uncounted, SchedInv, CountsTyped
<1>2. /\ new \in Counter /\ new.at = "close" /\ new.count = execution[e].count
      /\ new.stale = execution[e].stale
  BY DEF SchedInv, CountsTyped, Counter, ExecPlace
<1> HIDE DEF new
<1>3. CountsTyped' BY <1>1, <1>2 DEF SchedInv, CountsTyped
<1>4. execution'[e] = new /\ \A x \in Executors \ {e} : execution'[x] = execution[x]
  BY <1>1 DEF SchedInv, CountsTyped
<1>5. ~Uncounted(e) /\ Uncounted(e)' /\ ~Begun(e)' /\ (~execution[e].stale => Begun(e))
  BY <1>1, <1>2, <1>4 DEF Uncounted, Begun
<1>6. \A x \in Executors \ {e} : (Uncounted(x)' <=> Uncounted(x)) /\ (Begun(x)' <=> Begun(x))
  BY <1>4 DEF Uncounted, Begun
<1>7. RunLimit' = RunLimit /\ RunLimit \in Nat BY <1>1, RunLimitIsPositive DEF RunLimit
<1>8. ASSUME ~overlapped' PROVE CountsKeepUp' /\ actionRuns' <= RunLimit' + extraRuns'
  <2>1. \A x \in Executors : ~Uncounted(x) BY <1>1, <1>5, <1>8
  <2>2. actionRuns < RunLimit + extraRuns /\ actionRuns <= execution[e].count + extraRuns
    BY <1>1, <1>5, <1>8, <2>1 DEF SchedInv, RunIsLeft, CountsKeepUp, Allows
  <2>3. plan.exists => actionRuns <= plan.count + extraRuns
    BY <1>1, <1>8, <2>1 DEF SchedInv, CountsKeepUp, Allows
  <2>4. \A x \in Executors : Begun(x) => actionRuns <= execution[x].count + extraRuns
    BY <1>1, <1>8, <2>1 DEF SchedInv, CountsKeepUp, Allows
  <2>5. \A x \in Executors : execution[x].count \in Nat /\ execution'[x].count = execution[x].count
    BY <1>2, <1>4 DEF SchedInv, CountsTyped, Counter
  <2>6. \A x \in Executors : Begun(x)' \/ Uncounted(x)' => Begun(x) \/ x = e
    BY <1>5, <1>6, <2>1
  <2>7. plan.count \in Nat /\ actionRuns \in Nat /\ extraRuns \in Nat BY DEF SchedInv, CountsTyped
  <2>8. CountsKeepUp'
    BY <1>1, <1>5, <2>2, <2>3, <2>4, <2>5, <2>6, <2>7 DEF CountsKeepUp, Allows
  <2> QED BY <1>1, <1>7, <2>2, <2>8 DEF SchedInv, CountsTyped
<1>9. ASSUME ~overlapped' PROVE OneUncounted'
  BY <1>1, <1>2, <1>4, <1>5, <1>6, <1>9 DEF OneUncounted
<1>10. RunIsLeft' BY <1>5 DEF RunIsLeft
<1> QED BY <1>3, <1>8, <1>9, <1>10 DEF SchedInv

\* The run is counted, from the count that was read when it began.
LEMMA CountingKeepsCounts ==
    ASSUME SchedInv, NEW e \in Executors, CountRun(e)
    PROVE  SchedInv'
<1> DEFINE n       == execution[e].count + 1
           stops   == LimitReached(n) \/ (trigger = "auto_extend" /\ ~execution[e].ok)
           ends    == execution[e].last
           extends == trigger = "auto_extend" /\ ~stops
           next    == [NotRunning EXCEPT !.at = IF extends THEN "arm" ELSE "idle"]
           due     == IF ~extends THEN plan.due ELSE IF execution[e].slow THEN "missed" ELSE "ahead"
<1>1. /\ execution[e].at = "count" /\ UNCHANGED <<trigger, overlapped, actionRuns, extraRuns>>
      /\ plan' = IF ~plan.exists THEN plan
                 ELSE [plan EXCEPT !.count = n, !.enabled = @ /\ ~stops, !.exists = ~ends, !.due = due]
      /\ execution' = [x \in Executors |->
                IF x = e THEN next ELSE [execution[x] EXCEPT !.stale = @ \/ execution[x].at # "idle"]]
  BY DEF CountRun
<1>2. execution[e] \in Counter /\ execution[e].count \in Nat BY DEF SchedInv, CountsTyped, Counter
<1>3. next \in Counter /\ next.at \in {"idle", "arm"} BY DEF NotRunning, Counter, ExecPlace
<1>4. due \in {"ahead", "missed"} BY DEF SchedInv, CountsTyped
<1>5. n \in Nat /\ stops \in BOOLEAN /\ ends \in BOOLEAN /\ (~stops => n < RunLimit)
  BY <1>2, RunLimitIsPositive DEF LimitReached, Counter
<1> HIDE DEF next, due, stops, ends
<1>6. plan' \in [exists : BOOLEAN, enabled : BOOLEAN, count : Nat, due : {"ahead", "missed"}]
      /\ (plan'.exists => plan.exists /\ plan'.count = n)
      /\ (plan'.exists /\ plan'.enabled => n < RunLimit)
  <2>1. CASE ~plan.exists BY <1>1, <2>1 DEF SchedInv, CountsTyped
  <2>2. CASE plan.exists
    <3>1. plan' = [plan EXCEPT !.count = n, !.enabled = @ /\ ~stops, !.exists = ~ends, !.due = due]
      BY <1>1, <2>2
    <3>2. plan'.enabled = (plan.enabled /\ ~stops) /\ plan'.exists = ~ends /\ plan'.count = n
      BY <3>1 DEF SchedInv, CountsTyped
    <3>3. (~ends) \in BOOLEAN /\ (plan.enabled /\ ~stops) \in BOOLEAN OBVIOUS
    <3>4. plan' \in [exists : BOOLEAN, enabled : BOOLEAN, count : Nat, due : {"ahead", "missed"}]
      BY <3>1, <3>3, <1>4, <1>5 DEF SchedInv, CountsTyped
    <3> QED BY <2>2, <3>2, <3>4, <1>5
  <2> QED BY <2>1, <2>2
<1>7. execution'[e] = next
      /\ \A x \in Executors \ {e} :
            execution'[x] = [execution[x] EXCEPT !.stale = @ \/ execution[x].at # "idle"]
  BY <1>1
<1>8. \A x \in Executors \ {e} :
        /\ execution'[x] \in Counter /\ execution'[x].at = execution[x].at
        /\ ~execution'[x].stale => execution[x].at = "idle"
  <2> TAKE x \in Executors \ {e}
  <2>1. execution[x] \in Counter BY DEF SchedInv, CountsTyped
  <2>2. (execution[x].stale \/ execution[x].at # "idle") \in BOOLEAN OBVIOUS
  <2> QED BY <1>7, <2>1, <2>2 DEF Counter
<1>9. CountsTyped'
  <2>1. execution' \in [Executors -> Counter]
    <3>1. \A x \in Executors : execution'[x] \in Counter BY <1>3, <1>7, <1>8
    <3> QED BY <1>1, <3>1
  <2> QED BY <1>1, <1>6, <2>1 DEF SchedInv, CountsTyped
<1>10. ~Uncounted(e)' /\ ~Begun(e)' /\ Uncounted(e) BY <1>1, <1>3, <1>7 DEF Uncounted, Begun
<1>11. \A x \in Executors \ {e} : (Uncounted(x)' <=> Uncounted(x)) /\ ~Begun(x)'
  BY <1>8 DEF Uncounted, Begun
<1>12. RunLimit' = RunLimit /\ RunLimit \in Nat BY <1>1, RunLimitIsPositive DEF RunLimit
<1>13. ASSUME ~overlapped' PROVE CountsKeepUp' /\ RunIsLeft' /\ OneUncounted' /\ actionRuns' <= RunLimit' + extraRuns'
  <2>1. \A x \in Executors : ~Uncounted(x)' /\ ~Begun(x)'
    BY <1>1, <1>10, <1>11, <1>13 DEF SchedInv, OneUncounted
  <2>2. actionRuns <= execution[e].count + extraRuns + 1
    BY <1>1, <1>10, <1>13 DEF SchedInv, CountsKeepUp, Allows
  <2>3. actionRuns \in Nat /\ extraRuns \in Nat BY DEF SchedInv, CountsTyped
  <2>4. actionRuns <= n + extraRuns BY <2>2, <2>3, <1>2
  <2>5. CountsKeepUp' BY <1>1, <1>5, <1>6, <2>1, <2>3, <2>4 DEF CountsKeepUp, Allows
  <2>6. RunIsLeft' BY <1>1, <1>5, <1>6, <1>12, <2>1, <2>3, <2>4 DEF RunIsLeft
  <2>7. OneUncounted' BY <2>1 DEF OneUncounted
  <2> QED BY <1>1, <1>12, <1>13, <2>5, <2>6, <2>7 DEF SchedInv
<1> QED BY <1>9, <1>13 DEF SchedInv

LEMMA TimerKeepsCounts ==
    ASSUME SchedInv, TimerFires \/ Misfire \/ RunNow
    PROVE  SchedInv'
<1>1. ASSUME UNCHANGED <<trigger, plan, execution, overlapped, actionRuns, extraRuns>> PROVE SchedInv'
  BY <1>1 DEF SchedInv, CountsTyped, CountsKeepUp, RunIsLeft, OneUncounted, Allows, Uncounted, Begun, RunLimit
<1>2. {"timer", "manual"} \subseteq Executors BY DEF Executors
<1>3. CASE TimerFires
  <2>1. CASE execution["timer"].at = "idle" BY <1>2, <1>3, <2>1, EnteringKeepsCounts DEF TimerFires
  <2>2. CASE execution["timer"].at # "idle" BY <1>1, <1>3, <2>2 DEF TimerFires
  <2> QED BY <2>1, <2>2
<1>4. CASE Misfire BY <1>1, <1>4 DEF Misfire
<1>5. CASE RunNow BY <1>2, <1>5, EnteringKeepsCounts DEF RunNow
<1> QED BY <1>3, <1>4, <1>5

\* Somebody moves the schedule, switches it or gives it up: it is enabled anew
\* only with a run more.
LEMMA RowKeepsCounts ==
    ASSUME SchedInv,
           UNCHANGED <<trigger, execution, overlapped, actionRuns>>,
           plan' \in [exists : BOOLEAN, enabled : BOOLEAN, count : Nat, due : {"ahead", "missed"}],
           plan'.count = plan.count, plan'.exists => plan.exists,
           extraRuns' \in {extraRuns, extraRuns + 1},
           (plan'.exists /\ plan'.enabled /\ ~plan.enabled) => extraRuns' = extraRuns + 1
    PROVE  SchedInv'
<1>1. CountsTyped' BY DEF SchedInv, CountsTyped
<1>2. \A e \in Executors : /\ Begun(e)' <=> Begun(e)
                           /\ Uncounted(e)' <=> Uncounted(e)
                           /\ execution[e].count \in Nat
  BY DEF Begun, Uncounted, SchedInv, CountsTyped, Counter
<1>3. RunLimit' = RunLimit /\ RunLimit \in Nat BY RunLimitIsPositive DEF RunLimit
<1>4. actionRuns \in Nat /\ extraRuns \in Nat /\ plan.count \in Nat BY DEF SchedInv, CountsTyped
<1>5. ASSUME ~overlapped' PROVE CountsKeepUp'
  BY <1>2, <1>4, <1>5 DEF SchedInv, CountsKeepUp, Allows
<1>6. ASSUME ~overlapped' PROVE RunIsLeft' /\ actionRuns' <= RunLimit' + extraRuns'
  <2>1. actionRuns <= RunLimit + extraRuns /\ RunIsLeft BY <1>6 DEF SchedInv
  <2>2. actionRuns' <= RunLimit' + extraRuns'
    <3>1. CASE extraRuns' = extraRuns BY <1>3, <1>4, <2>1, <3>1
    <3>2. CASE extraRuns' = extraRuns + 1 BY <1>3, <1>4, <2>1, <3>2
    <3> QED BY <3>1, <3>2
  <2>3. ASSUME \A e \in Executors : ~Uncounted(e)
        PROVE  /\ plan'.exists /\ plan'.enabled => actionRuns < RunLimit + extraRuns'
               /\ \A e \in Executors : Begun(e) => actionRuns < RunLimit + extraRuns'
    <3>1. CASE extraRuns' = extraRuns BY <1>3, <1>4, <2>1, <2>3, <3>1 DEF RunIsLeft
    <3>2. CASE extraRuns' = extraRuns + 1 BY <1>3, <1>4, <2>1, <3>2
    <3> QED BY <3>1, <3>2
  <2> QED BY <1>2, <1>3, <2>2, <2>3 DEF RunIsLeft
<1>7. ASSUME ~overlapped' PROVE OneUncounted' BY <1>2, <1>7 DEF SchedInv, OneUncounted
<1> QED BY <1>1, <1>5, <1>6, <1>7 DEF SchedInv

LEMMA UserKeepsCounts ==
    ASSUME SchedInv, Toggle \/ UpdateSchedule \/ CancelSchedule \/ DatePasses \/ LoadFromDb
    PROVE  SchedInv'
<1>1. plan \in [exists : BOOLEAN, enabled : BOOLEAN, count : Nat, due : {"ahead", "missed"}]
  BY DEF SchedInv, CountsTyped
<1>2. (~plan.enabled) \in BOOLEAN OBVIOUS
<1>3. CASE Toggle
  <2>1. plan' = [plan EXCEPT !.enabled = ~plan.enabled] /\ plan.exists BY <1>3 DEF Toggle
  <2>2. extraRuns' = IF plan.enabled THEN extraRuns ELSE extraRuns + 1 BY <1>3 DEF Toggle
  <2>3. UNCHANGED <<trigger, execution, overlapped, actionRuns>> BY <1>3 DEF Toggle
  <2>4. plan' \in [exists : BOOLEAN, enabled : BOOLEAN, count : Nat, due : {"ahead", "missed"}]
    BY <1>1, <1>2, <2>1
  <2>5. plan'.count = plan.count /\ plan'.exists = plan.exists BY <1>1, <2>1
  <2> QED BY <2>2, <2>3, <2>4, <2>5, RowKeepsCounts
<1>4. CASE UpdateSchedule BY <1>1, <1>4, RowKeepsCounts DEF UpdateSchedule
<1>5. CASE CancelSchedule BY <1>1, <1>5, RowKeepsCounts DEF CancelSchedule
<1>6. CASE DatePasses BY <1>1, <1>6, RowKeepsCounts DEF DatePasses
<1>7. CASE LoadFromDb
  <2>1. UNCHANGED <<trigger, execution, overlapped, actionRuns, extraRuns>> BY <1>7 DEF LoadFromDb
  <2>2. plan' \in {plan, [plan EXCEPT !.enabled = FALSE], [plan EXCEPT !.due = "ahead"]}
    BY <1>7 DEF LoadFromDb
  <2>3. /\ plan' \in [exists : BOOLEAN, enabled : BOOLEAN, count : Nat, due : {"ahead", "missed"}]
        /\ plan'.count = plan.count /\ plan'.exists = plan.exists /\ (plan'.enabled => plan.enabled)
    <3>1. CASE plan' = plan BY <1>1, <3>1
    <3>2. CASE plan' = [plan EXCEPT !.enabled = FALSE] BY <1>1, <3>2
    <3>3. CASE plan' = [plan EXCEPT !.due = "ahead"] BY <1>1, <3>3
    <3> QED BY <2>2, <3>1, <3>2, <3>3
  <2> QED BY <2>1, <2>3, RowKeepsCounts
<1> QED BY <1>3, <1>4, <1>5, <1>6, <1>7

\* The count of a run that was under way is lost.
LEMMA CrashKeepsCounts ==
    ASSUME SchedInv, SchedCrash
    PROVE  SchedInv'
<1>1. /\ UNCHANGED <<trigger, plan, actionRuns, overlapped>>
      /\ execution' = [e \in Executors |-> NotRunning]
      /\ extraRuns' = IF \E e \in Executors : Uncounted(e) THEN extraRuns + 1 ELSE extraRuns
  BY DEF SchedCrash, Uncounted
<1>2. CountsTyped' BY <1>1, NotRunningIsTyped DEF SchedInv, CountsTyped
<1>3. \A e \in Executors : ~Uncounted(e)' /\ ~Begun(e)'
  BY <1>1, NotRunningIsTyped DEF Uncounted, Begun
<1>4. RunLimit' = RunLimit /\ RunLimit \in Nat BY <1>1, RunLimitIsPositive DEF RunLimit
<1>5. actionRuns \in Nat /\ extraRuns \in Nat /\ plan.count \in Nat BY DEF SchedInv, CountsTyped
<1>6. ASSUME ~overlapped PROVE CountsKeepUp' /\ RunIsLeft' /\ actionRuns <= RunLimit + extraRuns'
  <2>1. CountsKeepUp /\ RunIsLeft /\ actionRuns <= RunLimit + extraRuns BY <1>6 DEF SchedInv
  <2>2. CASE \E e \in Executors : Uncounted(e)
    BY <1>1, <1>3, <1>4, <1>5, <2>1, <2>2 DEF CountsKeepUp, RunIsLeft, Allows
  <2>3. CASE \A e \in Executors : ~Uncounted(e)
    BY <1>1, <1>3, <1>4, <1>5, <2>1, <2>3 DEF CountsKeepUp, RunIsLeft, Allows
  <2> QED BY <2>2, <2>3
<1>7. OneUncounted' BY <1>3 DEF OneUncounted
<1> QED BY <1>1, <1>2, <1>4, <1>6, <1>7 DEF SchedInv

\* RunsWithinMax, for every max_runs and any number of edits, crashes and
\* overlapping executions: _execute_action acts no more often than the limit,
\* the times it was enabled again and the counts a crash took allow.
THEOREM ScheduleKeepsItsLimit == SchedSpec => []RunsWithinMax
<1>1. SchedInv /\ [SchedNext]_schedVars => SchedInv'
  <2>1. ASSUME SchedInv, NEW e \in Executors, ExecStep(e) PROVE SchedInv'
    BY <2>1, StepsKeepCounts, AgentDisabledKeepsCounts, ActingKeepsCounts, CountingKeepsCounts DEF ExecStep
  <2>2. ASSUME SchedInv, UNCHANGED schedVars PROVE SchedInv'
    BY <2>2 DEF schedVars, SchedInv, CountsTyped, CountsKeepUp, RunIsLeft, OneUncounted, Allows,
                Uncounted, Begun, RunLimit
  <2> QED BY <2>1, <2>2, TimerKeepsCounts, UserKeepsCounts, CrashKeepsCounts DEF SchedNext
<1>2. SchedInv => RunsWithinMax BY DEF SchedInv, RunsWithinMax
<1> QED BY SchedInvInit, <1>1, <1>2, PTL DEF SchedSpec

-----------------------------------------------------------------------------
(* Updates: who works on the tree, and what it can be put back to. *)

Pipeline == [kind : PipelineKind, at : PipelinePlace, target : Commits \union {NoCommit},
             prev : Commits \union {NoCommit}, seen : UpdateStatus]

AtTree(j) == job[j].at \in {"verify", "undo"}
Inside(j) == job[j].at \in {"begin", "reset", "verify", "undo"}

HolderIsInside ==
    /\ lockHolder \in Jobs \union {NoJob}
    /\ \A j \in Jobs : Inside(j) <=> lockHolder = j

UpdatesTyped ==
    /\ head \in Commits /\ reflog \in Commits \union {NoCommit}
    /\ inMemory \in Record /\ onDisk \in Record
    /\ job \in [Jobs -> Pipeline]
    /\ \A j \in Jobs :
         /\ job[j].kind = "update" => job[j].target \in Commits
         /\ job[j].at \in {"reset", "verify", "undo"} => job[j].target \in Commits
         /\ job[j].kind = "update" /\ job[j].at \in {"reset", "verify", "undo"} => job[j].prev \in Commits
         /\ job[j].at = "undo" => job[j].kind = "update"

\* The tree boots unless the pipeline that has the lock has moved it, and one
\* that updates knows a commit to which it can return.
TreeCanBeSaved ==
    ~astray =>
        /\ head \in Bootable \/ \E j \in Jobs : AtTree(j)
        /\ \A j \in Jobs : job[j].kind = "update" =>
               /\ job[j].at = "reset" => job[j].prev = head
               /\ AtTree(j) => job[j].prev \in Bootable

UpdateInv == UpdatesTyped /\ HolderIsInside /\ TreeCanBeSaved

LEMMA NoPipelineIsTyped ==
    NoPipeline \in Pipeline /\ NoPipeline.at = "off" /\ NoPipeline.kind = "none"
BY DEF NoPipeline, Pipeline, PipelineKind, PipelinePlace, UpdateStatus

LEMMA NobodyIsNoJob == NoJob \notin Jobs
BY DEF NoJob, Jobs, WebJobs

LEMMA UpdateInvInit == UpdateInit => UpdateInv
BY NoPipelineIsTyped, NobodyIsNoJob, UpdateAssumption
   DEF UpdateInit, UpdateInv, UpdatesTyped, HolderIsInside, TreeCanBeSaved, Inside, AtTree, Record, UpdateStatus

LEMMA ImportedIsTyped == ASSUME UpdateInv PROVE Imported \in Record
BY DEF UpdateInv, UpdatesTyped, Imported, Record, UpdateStatus

\* One pipeline moves and leaves the tree alone.
LEMMA PipelineMoves ==
    ASSUME UpdateInv, NEW j \in Jobs, NEW new \in Pipeline,
           job' = [job EXCEPT ![j] = new], UNCHANGED <<head, reflog, astray>>,
           inMemory' \in Record, onDisk' \in Record,
           lockHolder' = IF new.at \in {"begin", "reset", "verify", "undo"} THEN j
                         ELSE IF lockHolder = j THEN NoJob ELSE lockHolder,
           lockHolder' = j => lockHolder \in {j, NoJob},
           new.at \in {"reset", "verify", "undo"} => new.target \in Commits,
           new.kind = "update" => new.target \in Commits,
           new.at = "undo" => new.kind = "update",
           ~astray /\ AtTree(j) => head \in Bootable \/ new.at \in {"verify", "undo"},
           new.kind = "update" /\ new.at = "reset" => new.prev = head,
           new.at \in {"verify", "undo"} => AtTree(j) /\ new.prev = job[j].prev /\ new.kind = job[j].kind
    PROVE  UpdateInv'
<1>1. job'[j] = new /\ \A k \in Jobs \ {j} : job'[k] = job[k]
  BY DEF UpdateInv, UpdatesTyped
<1>2. UpdatesTyped'
  <2>1. job' \in [Jobs -> Pipeline] BY DEF UpdateInv, UpdatesTyped
  <2>2. new.kind = "update" /\ new.at \in {"reset", "verify", "undo"} => new.prev \in Commits
    BY DEF UpdateInv, UpdatesTyped, AtTree
  <2> QED BY <1>1, <2>1, <2>2 DEF UpdateInv, UpdatesTyped
<1>3. HolderIsInside'
  BY <1>1, NobodyIsNoJob DEF UpdateInv, HolderIsInside, Inside
<1>4. TreeCanBeSaved'
  BY <1>1 DEF UpdateInv, TreeCanBeSaved, AtTree
<1> QED BY <1>2, <1>3, <1>4 DEF UpdateInv

LEMMA StatusesAreTyped ==
    ASSUME UpdateInv, NEW st \in UpdateStatus, Status(st), Persist
    PROVE  inMemory' \in Record /\ onDisk' \in Record
BY DEF Status, Persist, Record, UpdateInv, UpdatesTyped

LEMMA Statuses == {"idle", "checking", "available", "updating", "success", "failed"} \subseteq UpdateStatus
BY DEF UpdateStatus

LEMMA BeginningKeepsTree ==
    ASSUME UpdateInv, NEW j \in Jobs, NEW kind \in PipelineKind, NEW t \in Commits \union {NoCommit},
           Begin(j, kind, t), kind = "update" => t \in Commits,
           UNCHANGED <<head, reflog, astray, lockHolder>>, inMemory' \in Record, onDisk' \in Record
    PROVE  UpdateInv'
<1> DEFINE new == [kind |-> kind, at |-> "lock", target |-> t, prev |-> NoCommit,
                   seen |-> IF j = "cli" THEN Imported.status ELSE "idle"]
<1>1. job[j] = NoPipeline /\ job' = [job EXCEPT ![j] = new] BY DEF Begin
<1>2. new \in Pipeline /\ new.at = "lock" /\ new.kind = kind /\ new.target = t
  <2>1. Imported.status \in UpdateStatus BY ImportedIsTyped DEF Record
  <2> QED BY <2>1 DEF Pipeline, PipelinePlace, UpdateStatus
<1> HIDE DEF new
<1>3. lockHolder # j /\ ~AtTree(j)
  BY <1>1, NoPipelineIsTyped DEF UpdateInv, HolderIsInside, Inside, AtTree
<1> QED BY <1>1, <1>2, <1>3, PipelineMoves

LEMMA StartingKeepsTree ==
    ASSUME UpdateInv, NEW j \in WebJobs, NEW t \in Commits, StartUpdate(j, t) \/ TriggerRollback(j)
    PROVE  UpdateInv'
<1>1. j \in Jobs /\ {"update", "rollback"} \subseteq PipelineKind BY DEF Jobs, PipelineKind
<1>2. CASE StartUpdate(j, t)
  BY <1>1, <1>2, StatusesAreTyped, Statuses, BeginningKeepsTree DEF StartUpdate, tree
<1>3. CASE TriggerRollback(j)
  BY <1>1, <1>3, StatusesAreTyped, Statuses, BeginningKeepsTree DEF TriggerRollback, tree
<1> QED BY <1>2, <1>3

LEMMA CliKeepsTree ==
    ASSUME UpdateInv, NEW kind \in {"update", "rollback"}, NEW t \in Commits \union {NoCommit},
           RunCli(kind, t), kind = "update" => t \in Commits
    PROVE  UpdateInv'
<1>1. "cli" \in Jobs /\ kind \in PipelineKind BY DEF Jobs, PipelineKind
<1>2. inMemory' \in Record /\ onDisk' \in Record
  BY ImportedIsTyped DEF RunCli, UpdateInv, UpdatesTyped
<1> QED BY <1>1, <1>2, BeginningKeepsTree DEF RunCli, tree

\* A pipeline ends, and the lock, if it has it, with it.
LEMMA FinishingKeepsTree ==
    ASSUME UpdateInv, NEW j \in Jobs, NEW outcome \in UpdateStatus, Finish(j, outcome),
           UNCHANGED <<head, reflog, astray>>, lockHolder' = IF lockHolder = j THEN NoJob ELSE lockHolder,
           j = "cli" => onDisk' \in Record,
           ~astray /\ AtTree(j) => head \in Bootable
    PROVE  UpdateInv'
<1>1. inMemory' \in Record /\ onDisk' \in Record
  <2>1. CASE j \in WebJobs BY <2>1, StatusesAreTyped DEF Finish
  <2>2. CASE j \notin WebJobs BY <2>2 DEF Finish, Jobs, UpdateInv, UpdatesTyped
  <2> QED BY <2>1, <2>2
<1>2. job' = [job EXCEPT ![j] = NoPipeline] BY DEF Finish
<1>3. lockHolder' # j BY NobodyIsNoJob
<1> QED BY <1>1, <1>2, <1>3, NoPipelineIsTyped, PipelineMoves

\* The pipeline that has the lock ends, and the tree boots or is remembered as
\* left astray.
LEMMA LeavingKeepsTree ==
    ASSUME UpdateInv, NEW j \in Jobs, NEW outcome \in UpdateStatus, Finish(j, outcome),
           lockHolder = j, lockHolder' = NoJob,
           head' \in Commits, reflog' \in Commits \union {NoCommit},
           j = "cli" => onDisk' \in Record,
           ~astray' => head' \in Bootable
    PROVE  UpdateInv'
<1>1. inMemory' \in Record /\ onDisk' \in Record
  <2>1. CASE j \in WebJobs BY <2>1, StatusesAreTyped DEF Finish
  <2>2. CASE j \notin WebJobs BY <2>2 DEF Finish, Jobs, UpdateInv, UpdatesTyped
  <2> QED BY <2>1, <2>2
<1>2. job' = [job EXCEPT ![j] = NoPipeline] BY DEF Finish
<1>3. job'[j] = NoPipeline /\ \A k \in Jobs \ {j} : job'[k] = job[k]
  BY <1>2 DEF UpdateInv, UpdatesTyped
<1>4. \A k \in Jobs \ {j} : ~Inside(k) /\ ~AtTree(k) /\ job[k].at # "reset"
  BY DEF UpdateInv, HolderIsInside, Inside, AtTree
<1>5. UpdatesTyped'
  <2>1. job' \in [Jobs -> Pipeline] BY <1>2, NoPipelineIsTyped DEF UpdateInv, UpdatesTyped
  <2> QED BY <1>1, <1>3, <2>1, NoPipelineIsTyped DEF UpdateInv, UpdatesTyped
<1>6. HolderIsInside' BY <1>3, <1>4, NoPipelineIsTyped, NobodyIsNoJob DEF HolderIsInside, Inside
<1>7. TreeCanBeSaved' BY <1>3, <1>4, NoPipelineIsTyped DEF TreeCanBeSaved, AtTree
<1> QED BY <1>5, <1>6, <1>7 DEF UpdateInv

LEMMA LockKeepsTree ==
    ASSUME UpdateInv, NEW j \in Jobs, LockHeld(j) \/ TakeLock(j)
    PROVE  UpdateInv'
<1>1. onDisk \in Record /\ inMemory \in Record BY DEF UpdateInv, UpdatesTyped
<1>2. job[j].at = "lock" /\ ~AtTree(j) /\ lockHolder # j
  BY DEF LockHeld, TakeLock, AtTree, UpdateInv, HolderIsInside, Inside
<1>3. CASE LockHeld(j)
  BY <1>1, <1>2, <1>3, Statuses, FinishingKeepsTree DEF LockHeld, tree
<1>4. CASE TakeLock(j)
  <2> DEFINE new == [job[j] EXCEPT !.at = "begin"]
  <2>1. job' = [job EXCEPT ![j] = new] BY <1>4 DEF TakeLock, Goto
  <2>2. new \in Pipeline /\ new.at = "begin" /\ new.kind = job[j].kind /\ new.target = job[j].target
    BY DEF UpdateInv, UpdatesTyped, Pipeline, PipelinePlace
  <2>3. job[j].kind = "update" => job[j].target \in Commits BY <1>2 DEF UpdateInv, UpdatesTyped
  <2> HIDE DEF new
  <2> QED BY <1>1, <1>2, <1>4, <2>1, <2>2, <2>3, PipelineMoves DEF TakeLock, tree
<1> QED BY <1>3, <1>4

LEMMA PreparingKeepsTree ==
    ASSUME UpdateInv, NEW j \in Jobs, RecordPrevious(j) \/ ResolveTarget(j) \/ StepFails(j)
    PROVE  UpdateInv'
<1>1. onDisk \in Record /\ inMemory \in Record /\ job[j] \in Pipeline /\ head \in Commits
  BY DEF UpdateInv, UpdatesTyped
<1>2. lockHolder = j /\ ~AtTree(j) /\ job[j].at \in {"begin", "reset"}
  BY DEF RecordPrevious, ResolveTarget, StepFails, AtTree, UpdateInv, HolderIsInside, Inside
<1>3. CASE RecordPrevious(j)
  <2> DEFINE new == [job[j] EXCEPT !.at = "reset", !.prev = head]
  <2>1. job' = [job EXCEPT ![j] = new] BY <1>3 DEF RecordPrevious, UpdateInv, UpdatesTyped
  <2>2. new \in Pipeline /\ new.at = "reset" /\ new.prev = head /\ new.target = job[j].target
    BY <1>1 DEF Pipeline, PipelinePlace
  <2>3. job[j].target \in Commits
    BY <1>2, <1>3 DEF RecordPrevious, UpdateInv, UpdatesTyped
  <2>4. inMemory' \in Record /\ onDisk' \in Record
    <3>1. CASE j \in WebJobs BY <1>1, <1>3, <3>1 DEF RecordPrevious, Persist, Record
    <3>2. CASE j \notin WebJobs BY <1>1, <1>3, <3>2 DEF RecordPrevious, Record, Pipeline
    <3> QED BY <3>1, <3>2
  <2> HIDE DEF new
  <2> QED BY <1>2, <1>3, <2>1, <2>2, <2>3, <2>4, PipelineMoves DEF RecordPrevious, tree
<1>4. CASE ResolveTarget(j)
  <2> DEFINE new == [job[j] EXCEPT !.at = "reset", !.target = RollbackTarget]
  <2>1. job' = [job EXCEPT ![j] = new] BY <1>4 DEF ResolveTarget, UpdateInv, UpdatesTyped
  <2>2. RollbackTarget \in Commits
    BY <1>1, <1>4 DEF ResolveTarget, RollbackTarget, Record, UpdateInv, UpdatesTyped
  <2>3. new \in Pipeline /\ new.at = "reset" /\ new.target \in Commits /\ new.kind = job[j].kind
    BY <1>1, <2>2 DEF Pipeline, PipelinePlace
  <2>4. job[j].kind # "update" BY <1>4 DEF ResolveTarget
  <2> HIDE DEF new
  <2> QED BY <1>1, <1>2, <1>4, <2>1, <2>3, <2>4, PipelineMoves DEF ResolveTarget, tree
<1>5. CASE StepFails(j)
  BY <1>1, <1>2, <1>5, Statuses, FinishingKeepsTree DEF StepFails, tree
<1> QED BY <1>3, <1>4, <1>5

LEMMA TreeStepsKeepTree ==
    ASSUME UpdateInv, NEW j \in Jobs,
           \/ ResetTree(j) \/ Verified(j) \/ Rejected(j)
           \/ Undo(j) \/ UndoRefused(j) \/ StepRaises(j)
    PROVE  UpdateInv'
<1>1. onDisk \in Record /\ inMemory \in Record /\ job[j] \in Pipeline /\ Imported \in Record
  BY ImportedIsTyped DEF UpdateInv, UpdatesTyped
<1>2. lockHolder = j /\ job[j].at \in {"reset", "verify", "undo"}
  BY DEF ResetTree, Verified, Rejected, Undo, UndoRefused, StepRaises, UpdateInv, HolderIsInside, Inside
<1>3. \A k \in Jobs \ {j} : ~Inside(k) /\ ~AtTree(k) /\ job[k].at # "reset"
  BY <1>2 DEF UpdateInv, HolderIsInside, Inside, AtTree
<1>4. CASE ResetTree(j)
  <2> DEFINE new == [job[j] EXCEPT !.at = "verify"]
  <2>1. job' = [job EXCEPT ![j] = new] /\ head' = job[j].target /\ reflog' = head
        /\ UNCHANGED <<astray, inMemory, onDisk, lockHolder>> /\ job[j].at = "reset"
    BY <1>4 DEF ResetTree, Goto
  <2>2. /\ new \in Pipeline /\ new.at = "verify" /\ new.kind = job[j].kind /\ new.prev = job[j].prev
        /\ new.target = job[j].target
    BY <1>1 DEF Pipeline, PipelinePlace
  <2> HIDE DEF new
  <2>3. job'[j] = new /\ \A k \in Jobs \ {j} : job'[k] = job[k]
    BY <2>1 DEF UpdateInv, UpdatesTyped
  <2>4. UpdatesTyped'
    <3>1. job' \in [Jobs -> Pipeline] BY <2>1, <2>2 DEF UpdateInv, UpdatesTyped
    <3> QED BY <1>1, <2>1, <2>2, <2>3, <3>1 DEF UpdateInv, UpdatesTyped
  <2>5. HolderIsInside' BY <1>2, <2>1, <2>2, <2>3 DEF UpdateInv, HolderIsInside, Inside
  <2>6. ~astray /\ job[j].kind = "update" => job[j].prev = head /\ head \in Bootable
    BY <1>3, <2>1 DEF UpdateInv, TreeCanBeSaved, AtTree
  <2>7. TreeCanBeSaved'
    BY <1>3, <2>1, <2>2, <2>3, <2>6 DEF TreeCanBeSaved, AtTree
  <2> QED BY <2>4, <2>5, <2>7 DEF UpdateInv
<1>5. CASE Verified(j)
  <2>1. /\ Finish(j, "success") /\ lockHolder' = NoJob /\ head \in Bootable
        /\ (j = "cli" => onDisk' = Imported) /\ UNCHANGED <<head, reflog>>
    BY <1>5 DEF Verified, tree
  <2> QED BY <1>1, <1>2, <2>1, Statuses, LeavingKeepsTree DEF UpdateInv, UpdatesTyped
<1>6. CASE Rejected(j) /\ job[j].kind = "update"
  <2> DEFINE new == [job[j] EXCEPT !.at = "undo"]
  <2>1. job' = [job EXCEPT ![j] = new] /\ onDisk' = Imported /\ job[j].at = "verify"
        /\ UNCHANGED <<inMemory, lockHolder, astray, head, reflog>>
    BY <1>6 DEF Rejected, Goto, tree
  <2>2. /\ new \in Pipeline /\ new.at = "undo" /\ new.kind = job[j].kind /\ new.prev = job[j].prev
        /\ new.target = job[j].target
    BY <1>1 DEF Pipeline, PipelinePlace
  <2>3. job[j].target \in Commits /\ AtTree(j) BY <1>2 , <2>1 DEF UpdateInv, UpdatesTyped, AtTree
  <2> HIDE DEF new
  <2> QED BY <1>1, <1>2, <1>6, <2>1, <2>2, <2>3, PipelineMoves
<1>7. CASE Rejected(j) /\ job[j].kind # "update"
  <2>1. /\ Finish(j, "failed") /\ lockHolder' = NoJob /\ astray' = TRUE
        /\ (j = "cli" => onDisk' = Imported) /\ UNCHANGED <<head, reflog>>
    BY <1>7 DEF Rejected, tree
  <2> QED BY <1>1, <1>2, <2>1, Statuses, LeavingKeepsTree DEF UpdateInv, UpdatesTyped
<1>8. CASE Undo(j)
  <2>1. /\ Finish(j, "failed") /\ lockHolder' = NoJob /\ head' = job[j].prev /\ reflog' = head
        /\ (j = "cli" => onDisk' = onDisk) /\ astray' = astray /\ job[j].at = "undo"
    BY <1>8 DEF Undo
  <2>2. head' \in Commits /\ reflog' \in Commits /\ (~astray' => head' \in Bootable)
    BY <2>1 DEF UpdateInv, UpdatesTyped, TreeCanBeSaved, AtTree
  <2> QED BY <1>1, <1>2, <2>1, <2>2, Statuses, LeavingKeepsTree
<1>9. CASE UndoRefused(j)
  <2>1. /\ Finish(j, "failed") /\ lockHolder' = NoJob /\ astray' = TRUE
        /\ (j = "cli" => onDisk' = onDisk) /\ UNCHANGED <<head, reflog>>
    BY <1>9 DEF UndoRefused, tree
  <2> QED BY <1>1, <1>2, <2>1, Statuses, LeavingKeepsTree DEF UpdateInv, UpdatesTyped
<1>10. CASE StepRaises(j)
  <2>1. /\ Finish(j, "failed") /\ lockHolder' = NoJob /\ astray' = TRUE
        /\ (j = "cli" => onDisk' \in {onDisk, Imported}) /\ UNCHANGED <<head, reflog>>
    BY <1>10 DEF StepRaises, tree
  <2> QED BY <1>1, <1>2, <2>1, Statuses, LeavingKeepsTree DEF UpdateInv, UpdatesTyped
<1> QED BY <1>4, <1>5, <1>6, <1>7, <1>8, <1>9, <1>10

\* The update check writes a status.
LEMMA CheckKeepsTree ==
    ASSUME UpdateInv, NEW result \in {"newer", "none", "error"}, CheckBegins \/ CheckEnds(result)
    PROVE  UpdateInv'
<1>1. UNCHANGED <<head, reflog, job, lockHolder, astray>> BY DEF CheckBegins, CheckEnds, tree
<1>2. inMemory' \in Record /\ onDisk' \in Record
  <2>1. CASE CheckBegins BY <2>1, Statuses, StatusesAreTyped DEF CheckBegins
  <2>2. CASE CheckEnds(result)
    <3>1. CASE inMemory.status = "updating" /\ result # "error"
      BY <2>2, <3>1 DEF CheckEnds, UpdateInv, UpdatesTyped
    <3>2. CASE ~(inMemory.status = "updating" /\ result # "error")
      BY <2>2, <3>2, Statuses, StatusesAreTyped DEF CheckEnds
    <3> QED BY <3>1, <3>2
  <2> QED BY <2>1, <2>2
<1> QED BY <1>1, <1>2
        DEF UpdateInv, UpdatesTyped, HolderIsInside, TreeCanBeSaved, Inside, AtTree

\* Pipelines end where they are, the lock with them; who had moved the tree is
\* remembered as left astray.
LEMMA CutKeepsTree ==
    ASSUME UpdateInv, NEW Ended \in SUBSET Jobs,
           job' = [j \in Jobs |-> IF j \in Ended THEN NoPipeline ELSE job[j]],
           lockHolder' = IF lockHolder \in Ended THEN NoJob ELSE lockHolder,
           astray' = (astray \/ \E j \in Ended : job[j].at \in {"verify", "undo"}),
           UNCHANGED <<head, reflog>>, inMemory' \in Record, onDisk' \in Record
    PROVE  UpdateInv'
<1>1. \A j \in Jobs : job'[j] = IF j \in Ended THEN NoPipeline ELSE job[j] OBVIOUS
<1>2. UpdatesTyped'
  <2>1. \A j \in Jobs : job'[j] \in Pipeline
    BY <1>1, NoPipelineIsTyped DEF UpdateInv, UpdatesTyped
  <2>2. job' \in [Jobs -> Pipeline] BY <2>1
  <2> QED BY <1>1, <2>2, NoPipelineIsTyped DEF UpdateInv, UpdatesTyped
<1>3. HolderIsInside'
  BY <1>1, NoPipelineIsTyped, NobodyIsNoJob DEF UpdateInv, HolderIsInside, Inside
<1>4. TreeCanBeSaved'
  BY <1>1, NoPipelineIsTyped DEF UpdateInv, TreeCanBeSaved, AtTree
<1> QED BY <1>2, <1>3, <1>4 DEF UpdateInv

LEMMA ProcessesKeepTree ==
    ASSUME UpdateInv, NEW stopAsked \in BOOLEAN, ServerGone(stopAsked) \/ ServerBoots \/ CliKilled
    PROVE  UpdateInv'
<1>1. onDisk \in Record /\ inMemory \in Record /\ Imported \in Record
  BY ImportedIsTyped DEF UpdateInv, UpdatesTyped
<1>2. WebJobs \subseteq Jobs /\ {"cli"} \subseteq Jobs BY DEF Jobs
<1>3. CASE ServerGone(stopAsked)
  <2>1. inMemory' \in Record /\ onDisk' \in Record
    <3>1. CASE stopAsked BY <1>3, <3>1, Statuses, StatusesAreTyped DEF ServerGone
    <3>2. CASE ~stopAsked BY <1>1, <1>3, <3>2 DEF ServerGone
    <3> QED BY <3>1, <3>2
  <2>2. job' = [j \in Jobs |-> IF j \in WebJobs THEN NoPipeline ELSE job[j]] BY <1>3 DEF ServerGone
  <2>3. astray' = (astray \/ \E j \in WebJobs : job[j].at \in {"verify", "undo"}) BY <1>3 DEF ServerGone
  <2>4. UNCHANGED <<head, reflog>> /\ lockHolder' = IF lockHolder \in WebJobs THEN NoJob ELSE lockHolder
    BY <1>3 DEF ServerGone, tree
  <2> QED BY <1>2, <2>1, <2>2, <2>3, <2>4, CutKeepsTree
<1>4. CASE ServerBoots
  <2>1. inMemory' \in Record /\ onDisk' \in Record BY <1>1, <1>4 DEF ServerBoots, Record
  <2> QED BY <1>4, <2>1
          DEF ServerBoots, tree, UpdateInv, UpdatesTyped, HolderIsInside, TreeCanBeSaved, Inside, AtTree
<1>5. CASE CliKilled
  <2>1. job' = [j \in Jobs |-> IF j \in {"cli"} THEN NoPipeline ELSE job[j]]
    BY <1>5 DEF CliKilled, UpdateInv, UpdatesTyped
  <2>2. astray' = (astray \/ \E j \in {"cli"} : job[j].at \in {"verify", "undo"}) BY <1>5 DEF CliKilled
  <2>3. UNCHANGED <<head, reflog, inMemory, onDisk>>
        /\ lockHolder' = IF lockHolder \in {"cli"} THEN NoJob ELSE lockHolder
    BY <1>5 DEF CliKilled, tree
  <2> QED BY <1>1, <1>2, <2>1, <2>2, <2>3, CutKeepsTree
<1> QED BY <1>3, <1>4, <1>5

\* TreeStaysBootable, for any commits and any number of pipelines: whoever runs
\* apply_update or apply_rollback, and wherever a process ends, the tree is left on
\* a commit that boots unless a pipeline ended after its reset with no undo of its
\* own, and from the next pipeline that passes the smoke test it boots again.
THEOREM TreeIsLeftBootable == UpdateSpec => []TreeStaysBootable
<1>1. UpdateInv /\ [UpdateNext]_updateVars => UpdateInv'
  <2>1. ASSUME UpdateInv, UpdateNext PROVE UpdateInv'
    <3>2. ASSUME NEW j \in WebJobs, TriggerRollback(j) PROVE UpdateInv'
      BY <2>1, <3>2, UpdateAssumption, StartingKeepsTree
    <3>3. CASE RunCli("rollback", NoCommit) BY <2>1, <3>3, CliKeepsTree
    <3>4. ASSUME NEW t \in Commits, RunCli("update", t) PROVE UpdateInv'
      BY <2>1, <3>4, CliKeepsTree
    <3>5. CASE CheckBegins BY <2>1, <3>5, CheckKeepsTree
    <3>6. CASE ServerBoots \/ CliKilled BY <2>1, <3>6, ProcessesKeepTree
    <3>7. ASSUME NEW j \in WebJobs, NEW t \in Commits, StartUpdate(j, t) PROVE UpdateInv'
      BY <2>1, <3>7, StartingKeepsTree
    <3>8. ASSUME NEW result \in {"newer", "none", "error"}, CheckEnds(result) PROVE UpdateInv'
      BY <2>1, <3>8, CheckKeepsTree
    <3>9. ASSUME NEW stopAsked \in BOOLEAN, ServerGone(stopAsked) PROVE UpdateInv'
      BY <2>1, <3>9, ProcessesKeepTree
    <3> QED BY <2>1, <3>2, <3>3, <3>4, <3>5, <3>6, <3>7, <3>8, <3>9,
               LockKeepsTree, PreparingKeepsTree, TreeStepsKeepTree DEF UpdateNext
  <2>2. ASSUME UpdateInv, UNCHANGED updateVars PROVE UpdateInv'
    BY <2>2 DEF updateVars, UpdateInv, UpdatesTyped, HolderIsInside, TreeCanBeSaved, Inside, AtTree
  <2> QED BY <2>1, <2>2
<1>2. UpdateInv => TreeStaysBootable
  BY NobodyIsNoJob DEF UpdateInv, HolderIsInside, TreeCanBeSaved, TreeStaysBootable, Inside, AtTree
<1> QED BY UpdateInvInit, <1>1, <1>2, PTL DEF UpdateSpec

-----------------------------------------------------------------------------
(* Escalations and delegations. *)

Live(q) == question[q].status \in {"delivering", "pending"}

QuestionsTyped ==
    /\ origin \in [Requests -> HumanSessions \union {NoSession}]
    /\ reqLog \in Seq(Requests)
    /\ question \in [Questions -> [session : HumanSessions \union {NoSession}, status : QuestionStatus]]

\* The questions that were asked, each in its place; the earlier ones of a session
\* are neither shown nor about to be.
AskedInOrder ==
    /\ asked \in Seq(Questions)
    /\ \A q \in Questions : question[q].status # "new" <=> \E i \in DOMAIN asked : asked[i] = q
    /\ \A i, j \in DOMAIN asked :
           i < j /\ question[asked[i]].session = question[asked[j]].session => ~Live(asked[i])

QuestionInv == QuestionsTyped /\ AskedInOrder

IsNewest(q) ==
    \E i \in DOMAIN asked :
        /\ asked[i] = q
        /\ \A j \in DOMAIN asked : question[asked[j]].session = question[q].session => j <= i

LEMMA QuestionInvInit == DelegInit => QuestionInv
BY DEF DelegInit, QuestionInv, QuestionsTyped, AskedInOrder, Live, Unasked, QuestionStatus

\* A question that can be answered is the newest of its session.
LEMMA LiveIsNewest ==
    ASSUME QuestionInv, NEW q \in Questions, Live(q)
    PROVE  IsNewest(q)
<1>1. question[q].status # "new" BY DEF Live
<1>2. PICK i \in DOMAIN asked : asked[i] = q BY <1>1 DEF QuestionInv, AskedInOrder
<1>3. ASSUME NEW j \in DOMAIN asked, question[asked[j]].session = question[q].session
      PROVE  j <= i
  <2>1. ~(i < j) BY <1>2, <1>3 DEF QuestionInv, AskedInOrder
  <2> QED BY <2>1 DEF QuestionInv, AskedInOrder
<1> QED BY <1>2, <1>3 DEF IsNewest

\* A question moves on, to a state in which it is live only if it was.
LEMMA QuestionMoves ==
    ASSUME QuestionInv, NEW q \in Questions, NEW st \in QuestionStatus \ {"new"},
           question' = [question EXCEPT ![q].status = st], UNCHANGED <<origin, reqLog, asked>>,
           question[q].status # "new", st \in {"delivering", "pending"} => Live(q)
    PROVE  QuestionInv'
<1>1. QuestionsTyped' BY DEF QuestionInv, QuestionsTyped
<1>2. \A p \in Questions : /\ question'[p].session = question[p].session /\ (Live(p)' => Live(p))
                           /\ question'[p].status = "new" <=> question[p].status = "new"
  BY DEF QuestionInv, QuestionsTyped, Live
<1>3. \A i \in DOMAIN asked : asked[i] \in Questions BY DEF QuestionInv, AskedInOrder
<1>4. AskedInOrder' BY <1>2, <1>3 DEF QuestionInv, AskedInOrder
<1> QED BY <1>1, <1>4 DEF QuestionInv

LEMMA CreatingKeepsOrder ==
    ASSUME QuestionInv, NEW q \in Questions, CreateQuestion(q)
    PROVE  QuestionInv'
<1> DEFINE h == origin[Last(reqLog)]
           S == HumanSessions \union {NoSession}
<1>1. h \in S
  <2>1. Last(reqLog) \in Requests BY DEF CreateQuestion, Last, QuestionInv, QuestionsTyped
  <2> QED BY <2>1 DEF QuestionInv, QuestionsTyped
<1>2. /\ UNCHANGED <<origin, reqLog>>
      /\ question' = [p \in Questions |->
              IF p = q THEN [session |-> h, status |-> "delivering"]
              ELSE IF question[p].session = h /\ question[p].status \in {"delivering", "pending"}
                   THEN [question[p] EXCEPT !.status = "cancelled"]
                   ELSE question[p]]
      /\ asked' = Append(asked, q) /\ question[q].status = "new"
  BY DEF CreateQuestion, Unasked
<1> HIDE DEF h
<1>3. question'[q] = [session |-> h, status |-> "delivering"] BY <1>2
<1>4. \A p \in Questions \ {q} :
        /\ question'[p] \in [session : S, status : QuestionStatus]
        /\ question'[p].session = question[p].session
        /\ question'[p].status = "new" <=> question[p].status = "new"
        /\ Live(p)' => Live(p) /\ question[p].session # h
  <2> TAKE p \in Questions \ {q}
  <2>1. question[p] \in [session : S, status : QuestionStatus] BY DEF QuestionInv, QuestionsTyped
  <2>2. CASE question[p].session = h /\ Live(p)
    <3>1. question'[p] = [question[p] EXCEPT !.status = "cancelled"] BY <1>2, <2>2 DEF Live
    <3> QED BY <2>1, <2>2, <3>1 DEF Live, QuestionStatus
  <2>3. CASE ~(question[p].session = h /\ Live(p))
    <3>1. question'[p] = question[p] BY <1>2, <2>3 DEF Live
    <3> QED BY <2>1, <2>3, <3>1 DEF Live
  <2> QED BY <2>2, <2>3
<1>5. QuestionsTyped'
  <2>1. \A p \in Questions : question'[p] \in [session : S, status : QuestionStatus]
    BY <1>1, <1>3, <1>4 DEF QuestionStatus
  <2>2. question' = [p \in Questions |-> question'[p]] BY <1>2
  <2>3. question' \in [Questions -> [session : S, status : QuestionStatus]] BY <2>1, <2>2
  <2> QED BY <1>2, <2>3 DEF QuestionInv, QuestionsTyped
<1>6. AskedInOrder'
  <2>1. /\ asked \in Seq(Questions) /\ asked' \in Seq(Questions) /\ Len(asked') = Len(asked) + 1
        /\ DOMAIN asked = 1 .. Len(asked) /\ DOMAIN asked' = 1 .. Len(asked) + 1
        /\ asked'[Len(asked) + 1] = q /\ Len(asked) \in Nat
        /\ \A i \in DOMAIN asked : asked'[i] = asked[i]
    BY <1>2 DEF QuestionInv, AskedInOrder
  <2>2. \A i \in DOMAIN asked : asked[i] \in Questions \ {q}
    BY <1>2, <2>1 DEF QuestionInv, AskedInOrder
  <2>3. ASSUME NEW p \in Questions
        PROVE  question'[p].status # "new" <=> \E i \in DOMAIN asked' : asked'[i] = p
    <3>1. CASE p = q BY <1>3, <2>1, <3>1
    <3>2. CASE p # q
      <4>1. question[p].status # "new" <=> \E i \in DOMAIN asked : asked[i] = p
        BY DEF QuestionInv, AskedInOrder
      <4>2. (\E i \in DOMAIN asked' : asked'[i] = p) <=> \E i \in DOMAIN asked : asked[i] = p
        BY <2>1, <3>2
      <4> QED BY <1>4, <3>2, <4>1, <4>2
    <3> QED BY <3>1, <3>2
  <2>4. ASSUME NEW i \in DOMAIN asked', NEW j \in DOMAIN asked', i < j,
               question'[asked'[i]].session = question'[asked'[j]].session
        PROVE  ~Live(asked[i])' /\ asked'[i] = asked[i]
    <3>1. i \in DOMAIN asked BY <2>1, <2>4
    <3>2. asked'[i] = asked[i] /\ asked[i] \in Questions \ {q} BY <2>1, <2>2, <3>1
    <3>3. CASE j = Len(asked) + 1 BY <1>3, <1>4, <2>1, <2>4, <3>2, <3>3 DEF Live
    <3>4. CASE j # Len(asked) + 1
      <4>1. j \in DOMAIN asked BY <2>1, <3>4
      <4>2. asked'[j] = asked[j] /\ asked[j] \in Questions \ {q} BY <2>1, <2>2, <4>1
      <4>3. question[asked[i]].session = question[asked[j]].session BY <1>4, <2>4, <3>2, <4>2
      <4>4. ~Live(asked[i]) BY <2>4, <3>1, <4>1, <4>3 DEF QuestionInv, AskedInOrder
      <4> QED BY <1>4, <3>2, <4>4 DEF Live
    <3> QED BY <3>3, <3>4
  <2> QED BY <2>1, <2>3, <2>4 DEF AskedInOrder, Live
<1> QED BY <1>5, <1>6 DEF QuestionInv

LEMMA QuestionsKeepOrder ==
    ASSUME QuestionInv, NEW q \in Questions,
           ShowQuestion(q) \/ MarkDelivered(q) \/ CancelQuestion(q) \/ QuestionExpires(q)
    PROVE  QuestionInv'
<1>1. {"pending", "cancelled", "expired"} \subseteq QuestionStatus \ {"new"} BY DEF QuestionStatus
<1>2. CASE ShowQuestion(q)
  BY <1>2 DEF ShowQuestion, QuestionInv, QuestionsTyped, AskedInOrder, Live
<1>3. CASE MarkDelivered(q) BY <1>1, <1>3, QuestionMoves DEF MarkDelivered, Live
<1>4. CASE CancelQuestion(q) BY <1>1, <1>4, QuestionMoves DEF CancelQuestion
<1>5. CASE QuestionExpires(q) BY <1>1, <1>5, QuestionMoves DEF QuestionExpires
<1> QED BY <1>2, <1>3, <1>4, <1>5

LEMMA QuestionInvStep ==
    ASSUME QuestionInv, DelegNext
    PROVE  QuestionInv' /\ \A q \in resumedBy' \ resumedBy : IsNewest(q)
<1>1. ASSUME UNCHANGED <<origin, reqLog, question, asked>> PROVE QuestionInv'
  BY <1>1 DEF QuestionInv, QuestionsTyped, AskedInOrder, Live
<1>2. CASE BeginTurnB BY <1>1, <1>2 DEF BeginTurnB
<1>3. CASE AnswerOfB BY <1>1, <1>3 DEF AnswerOfB
<1>4. CASE Forward BY <1>1, <1>4 DEF Forward
<1>5. ASSUME NEW r \in Requests, Deliver(r) PROVE QuestionInv' /\ resumedBy' = resumedBy
  BY <1>5 DEF Deliver, QuestionInv, QuestionsTyped, AskedInOrder, Live
<1>6. ASSUME NEW r \in Requests, Woken(r) \/ WaitTimesOut(r) \/ DeliveryFails(r)
      PROVE QuestionInv' /\ resumedBy' = resumedBy
  BY <1>1, <1>6 DEF Woken, WaitTimesOut, DeliveryFails
<1>7. ASSUME NEW r \in Requests, NEW h \in HumanSessions, NEW wait \in BOOLEAN, Register(r, h, wait)
      PROVE QuestionInv' /\ resumedBy' = resumedBy
  BY <1>7 DEF Register, QuestionInv, QuestionsTyped, AskedInOrder, Live
<1>8. ASSUME NEW q \in Questions, CreateQuestion(q) \/ ShowQuestion(q) \/ MarkDelivered(q)
                                   \/ CancelQuestion(q) \/ QuestionExpires(q)
      PROVE QuestionInv' /\ resumedBy' = resumedBy
  <2>1. resumedBy' = resumedBy
    BY <1>8 DEF CreateQuestion, ShowQuestion, MarkDelivered, CancelQuestion, QuestionExpires
  <2> QED BY <1>8, <2>1, CreatingKeepsOrder, QuestionsKeepOrder
<1>9. ASSUME NEW h \in HumanSessions, HumanReply(h)
      PROVE  QuestionInv' /\ \A q \in resumedBy' \ resumedBy : IsNewest(q)
  <2>1. PICK q \in Pending(h) : /\ question' = [question EXCEPT ![q].status = "answered"]
                                /\ resumedBy' = resumedBy \union {q}
    BY <1>9 DEF HumanReply
  <2>2. q \in Questions /\ Live(q) BY <2>1 DEF Pending, Live
  <2>3. QuestionInv'
    <3>1. "answered" \in QuestionStatus \ {"new"} BY DEF QuestionStatus
    <3>2. question[q].status # "new" BY <2>2 DEF Live
    <3> QED BY <1>9, <2>1, <2>2, <3>1, <3>2, QuestionMoves DEF HumanReply
  <2> QED BY <2>1, <2>2, <2>3, LiveIsNewest
<1>10. BeginTurnB \/ AnswerOfB \/ Forward => resumedBy' = resumedBy
  BY DEF BeginTurnB, AnswerOfB, Forward
<1> QED BY <1>2, <1>3, <1>4, <1>5, <1>6, <1>7, <1>8, <1>9, <1>10 DEF DelegNext, DelegStep

\* ReplyAnswersNewestQuestion, for any sessions, requests and questions: the question
\* route_pending_escalation_reply resumes is the last that create_user_escalation
\* wrote for its session, because that has cancelled every earlier one.
THEOREM ReplyIsForTheNewest == DelegSpec => ReplyAnswersNewestQuestion
<1>1. ASSUME QuestionInv, UNCHANGED delegVars PROVE QuestionInv'
  BY <1>1 DEF delegVars, QuestionInv, QuestionsTyped, AskedInOrder, Live
<1> QED BY QuestionInvInit, QuestionInvStep, <1>1, PTL DEF DelegSpec, ReplyAnswersNewestQuestion, IsNewest

\* The entries of the registry are those of the calls that can still be woken; a
\* request that was not made yet has none.
WaiterInv ==
    /\ waiter \in [Requests -> WaiterState] /\ registry \subseteq Requests
    /\ \A r \in Requests : origin[r] = NoSession => waiter[r] = "none"
    /\ WaitersAreRegistered

\* WaitersAreRegistered, for any requests: the entry of _WAIT_REGISTRY is there
\* while the call can be woken, and goes with it, whoever takes it out.
THEOREM WaitersAreFound == DelegSpec => []WaitersAreRegistered
<1>1. DelegInit => QuestionInv /\ WaiterInv
  BY QuestionInvInit DEF DelegInit, WaiterInv, WaitersAreRegistered, WaiterState, LiveWaiter
<1>2. ASSUME WaiterInv, NEW r \in Requests, NEW st \in WaiterState,
             waiter' = [waiter EXCEPT ![r] = st], st # "none",
             registry' \in {registry \ {r}, registry \union {r}},
             st \in {"registered", "waiting"} => r \in registry',
             r \in registry' => st \in LiveWaiter,
             origin[r] # NoSession \/ origin'[r] # NoSession,
             \A p \in Requests \ {r} : origin'[p] = origin[p],
             origin[r] # NoSession => origin'[r] = origin[r]
      PROVE  WaiterInv'
  <2>1. waiter' \in [Requests -> WaiterState] /\ registry' \subseteq Requests BY <1>2 DEF WaiterInv
  <2>2. waiter'[r] = st /\ \A p \in Requests \ {r} : /\ waiter'[p] = waiter[p]
                                                     /\ p \in registry' <=> p \in registry
    BY <1>2 DEF WaiterInv
  <2>3. origin'[r] # NoSession BY <1>2
  <2> QED BY <1>2, <2>1, <2>2, <2>3 DEF WaiterInv, WaitersAreRegistered
<1>3. ASSUME WaiterInv, UNCHANGED <<origin, waiter, registry>> PROVE WaiterInv'
  BY <1>3 DEF WaiterInv, WaitersAreRegistered
<1>4. ASSUME QuestionInv, WaiterInv, DelegNext PROVE WaiterInv'
  <2>1. {"registered", "waiting", "woken", "replied", "timed_out", "failed", "async"} \subseteq WaiterState
        /\ LiveWaiter = {"registered", "waiting", "woken"}
    BY DEF WaiterState, LiveWaiter
  <2>2. \A r \in Requests : Unsent(r) \/ waiter[r] \in {"woken", "waiting"} => origin[r] # NoSession
    BY <1>4 DEF Unsent, WaiterInv
  <2>3. ASSUME NEW r \in Requests, NEW h \in HumanSessions, NEW wait \in BOOLEAN, Register(r, h, wait)
        PROVE  WaiterInv'
    <3>1. r \notin registry /\ waiter[r] = "none" /\ origin[r] = NoSession
      BY <1>4, <2>1, <2>3 DEF Register, WaiterInv, WaitersAreRegistered
    <3>2. origin'[r] = h /\ \A p \in Requests \ {r} : origin'[p] = origin[p]
      BY <1>4, <2>3 DEF Register, QuestionInv, QuestionsTyped
    <3>3. h # NoSession BY SessionAssumption
    <3>4. CASE wait
      BY <1>2, <1>4, <2>1, <2>3, <3>1, <3>2, <3>3, <3>4 DEF Register
    <3>5. CASE ~wait
      <4>1. registry' = registry /\ registry = registry \ {r} /\ waiter' = [waiter EXCEPT ![r] = "async"]
        BY <2>3, <3>1, <3>5 DEF Register
      <4> QED BY <1>2, <1>4, <2>1, <3>1, <3>2, <3>3, <4>1
    <3> QED BY <3>4, <3>5
  <2>4. ASSUME NEW r \in Requests, DeliveryFails(r) PROVE WaiterInv'
    BY <1>2, <1>4, <2>1, <2>2, <2>4 DEF DeliveryFails
  <2>5. ASSUME NEW r \in Requests, Deliver(r) PROVE WaiterInv'
    <3>1. waiter[r] \in {"registered", "async"} BY <2>5 DEF Deliver, Unsent
    <3>2. CASE waiter[r] = "registered"
      <4>1. waiter' = [waiter EXCEPT ![r] = "waiting"] /\ registry' = registry \union {r} /\ origin' = origin
        BY <1>4, <2>5, <3>2 DEF Deliver, WaiterInv, WaitersAreRegistered
      <4> QED BY <1>2, <1>4, <2>1, <2>2, <2>5, <4>1 DEF Deliver
    <3>3. CASE waiter[r] = "async"
      <4>1. waiter' = waiter BY <1>4, <2>5, <3>3 DEF Deliver, WaiterInv
      <4> QED BY <1>3, <1>4, <2>5, <4>1 DEF Deliver
    <3> QED BY <3>1, <3>2, <3>3
  <2>6. ASSUME NEW r \in Requests, Woken(r) PROVE WaiterInv'
    BY <1>2, <1>4, <2>1, <2>2, <2>6 DEF Woken
  <2>7. ASSUME NEW r \in Requests, WaitTimesOut(r) PROVE WaiterInv'
    BY <1>2, <1>4, <2>1, <2>2, <2>7 DEF WaitTimesOut
  <2>8. CASE Forward
    <3> DEFINE r == Last(reqLog)
    <3>1. CASE r \in registry
      <4>1. r \in Requests /\ origin[r] # NoSession
        BY <1>4, <2>1, <3>1 DEF WaiterInv, WaitersAreRegistered
      <4>2. waiter' = [waiter EXCEPT ![r] = "woken"] /\ registry' = registry \ {r} /\ origin' = origin
        BY <2>8, <3>1 DEF Forward
      <4> QED BY <1>2, <1>4, <2>1, <4>1, <4>2
    <3>2. CASE r \notin registry
      <4>1. waiter' = [waiter EXCEPT ![r] = waiter[r]] /\ registry' = registry /\ origin' = origin
        BY <2>8, <3>2 DEF Forward
      <4>2. waiter' = waiter BY <1>4, <4>1 DEF WaiterInv
      <4> QED BY <1>3, <1>4, <4>1, <4>2
    <3> QED BY <3>1, <3>2
  <2>9. CASE BeginTurnB BY <1>3, <1>4, <2>9 DEF BeginTurnB
  <2>10. CASE AnswerOfB BY <1>3, <1>4, <2>10 DEF AnswerOfB
  <2>11. ASSUME NEW q \in Questions, CreateQuestion(q) \/ ShowQuestion(q) \/ MarkDelivered(q)
                                      \/ CancelQuestion(q) \/ QuestionExpires(q)
         PROVE WaiterInv'
    BY <1>3, <1>4, <2>11 DEF CreateQuestion, ShowQuestion, MarkDelivered, CancelQuestion, QuestionExpires
  <2>12. ASSUME NEW h \in HumanSessions, HumanReply(h) PROVE WaiterInv'
    BY <1>3, <1>4, <2>12 DEF HumanReply
  <2> QED BY <1>4, <2>3, <2>4, <2>5, <2>6, <2>7, <2>8, <2>9, <2>10, <2>11, <2>12 DEF DelegNext, DelegStep
<1>5. QuestionInv /\ WaiterInv /\ [DelegNext]_delegVars => (QuestionInv /\ WaiterInv)'
  <2>1. ASSUME QuestionInv, WaiterInv, UNCHANGED delegVars PROVE QuestionInv' /\ WaiterInv'
    BY <2>1 DEF delegVars, QuestionInv, QuestionsTyped, AskedInOrder, Live, WaiterInv, WaitersAreRegistered
  <2> QED BY <1>4, <2>1, QuestionInvStep
<1>6. WaiterInv => WaitersAreRegistered BY DEF WaiterInv
<1> QED BY <1>1, <1>5, <1>6, PTL DEF DelegSpec

-----------------------------------------------------------------------------
(* Plugins: a plugin that works is loaded, or a request under way will load it. *)

\* Of a request under way the plugin is known, and an instance it has made is that
\* plugin's own.
Own(p, i) == i # NoInstance /\ i[1] = p
HasMade(r) == r.at \in {"enable", "subscribe", "publish"}
Fields == {"at", "p", "op", "v", "inst", "kept"}
RequestsTyped ==
    /\ DOMAIN req = PluginAdmins /\ \A x \in PluginAdmins : DOMAIN req[x] = Fields
    /\ \A x \in PluginAdmins : ~ReqAt(x, "idle") =>
         ReqOf(x) \in Plugin /\ (HasMade(req[x]) => Own(ReqOf(x), req[x].inst))

\* A plugin's bridge is a listener of its own, or none.
BridgesTyped ==
    /\ DOMAIN bridge = Plugin /\ NoInstance \notin listeners
    /\ \A p \in Plugin : bridge[p] = NoInstance \/ Own(p, bridge[p])

PluginsTyped ==
    /\ DOMAIN files = Plugin /\ DOMAIN inDb = Plugin /\ known \in [Plugin -> BOOLEAN]
    /\ RequestsTyped /\ BridgesTyped

\* Before its reload has read the directory, or while what it read is what is there.
WillLoad(x, p) ==
    /\ ReqOf(x) = p
    /\ \/ req[x].at \in {"unload", "unsubscribe", "filter", "unhook", "manifest", "import", "remove"}
       \/ req[x].at \in {"enable", "subscribe"} /\ req[x].inst[3] = files[p]
Listens(p) == \E i \in listeners : i[1] = p /\ i[3] = files[p]
HeardOrLoaded(p) == Works(p) => Listens(p) \/ \E x \in PluginAdmins : WillLoad(x, p)

PluginInv == PluginsTyped /\ \A p \in Plugin : HeardOrLoaded(p)

LEMMA PluginInvInit == PluginInit => PluginInv
<1> SUFFICES ASSUME PluginInit PROVE PluginInv
  OBVIOUS
<1> USE DEF PluginInit
<1>1. PluginsTyped BY DEF PluginsTyped, RequestsTyped, BridgesTyped, Own, NoReq, ReqAt, NoInstance, Fields
<1>2. ASSUME NEW p \in Plugin, Works(p) PROVE Listens(p)
  <2>1. inDb[p] /\ files[p] \in Sound BY <1>2 DEF Works
  <2>2. <<p, 1, files[p]>> \in listeners BY <2>1
  <2> QED BY <2>2 DEF Listens
<1> QED BY <1>1, <1>2 DEF PluginInv, HeardOrLoaded

\* A thread that begins or goes on with a request of p, when no listener of another plugin
\* is taken away: what p was promised, the thread promises or has done.
Moves(x, p) ==
    /\ DOMAIN req' = PluginAdmins /\ \A y \in PluginAdmins \ {x} : req'[y] = req[y]
    /\ DOMAIN req'[x] = Fields
    /\ HasMade(req'[x]) => Own(p, req'[x].inst)
    /\ req'[x].at = "idle" \/ req'[x].p = p
Elsewhere(p) ==
    /\ DOMAIN files' = Plugin /\ DOMAIN inDb' = Plugin /\ known' \in [Plugin -> BOOLEAN] /\ BridgesTyped'
    /\ \A q \in Plugin \ {p} : files'[q] = files[q] /\ inDb'[q] = inDb[q] /\ known'[q] = known[q]
    /\ \A i \in listeners : i \in listeners' \/ i[1] = p
Promised(x, p) ==
    \/ ~Works(p)' \/ Listens(p)' \/ WillLoad(x, p)'
    \/ ~WillLoad(x, p) /\ UNCHANGED <<inDb, files, known>> /\ listeners \subseteq listeners'

LEMMA RequestMoves ==
    ASSUME PluginInv, NEW x \in PluginAdmins, NEW p \in Plugin,
           ~ReqAt(x, "idle") => ReqOf(x) = p, Moves(x, p), Elsewhere(p), Promised(x, p)
    PROVE  PluginInv'
<1> USE DEF PluginInv, PluginsTyped, ReqOf
<1>1. RequestsTyped' BY DEF RequestsTyped, ReqAt, Moves
<1>2. PluginsTyped' BY <1>1 DEF Elsewhere
<1>3. ASSUME NEW q \in Plugin \ {p}, NEW y \in PluginAdmins, WillLoad(y, q) PROVE WillLoad(y, q)'
  <2>1. y # x BY <1>3 DEF WillLoad, ReqAt
  <2> QED BY <1>3, <2>1 DEF WillLoad, Moves, Elsewhere
<1>4. ASSUME NEW q \in Plugin \ {p} PROVE HeardOrLoaded(q)'
  <2>1. Works(q)' => Works(q) BY DEF Works, Elsewhere
  <2>2. Listens(q) => Listens(q)' BY DEF Listens, Elsewhere
  <2> QED BY <1>3, <2>1, <2>2 DEF HeardOrLoaded
<1>5. HeardOrLoaded(p)'
  <2>1. CASE ~WillLoad(x, p) /\ UNCHANGED <<inDb, files, known>> /\ listeners \subseteq listeners'
    <3>1. ASSUME NEW y \in PluginAdmins, WillLoad(y, p) PROVE WillLoad(y, p)'
      <4>1. y # x BY <2>1, <3>1
      <4> QED BY <2>1, <3>1, <4>1 DEF WillLoad, Moves
    <3>2. (Works(p)' => Works(p)) /\ (Listens(p) => Listens(p)') BY <2>1 DEF Works, Listens
    <3> QED BY <3>1, <3>2 DEF HeardOrLoaded
  <2> QED BY <2>1 DEF HeardOrLoaded, Promised
<1> QED BY <1>2, <1>4, <1>5

LEMMA RequestsBegin ==
    ASSUME PluginInv, NEW x \in PluginAdmins, NEW p \in Plugin,
           \/ \E on \in BOOLEAN : SetPluginEnabled(x, p, on)
           \/ \E v \in Version : InstallPlugin(x, p, v)
           \/ SetPluginConfig(x, p) \/ UninstallPlugin(x, p)
    PROVE  PluginInv'
<1> USE DEF PluginInv, PluginsTyped, RequestsTyped
<1>1. PICK r : /\ ReqAt(x, "idle") /\ req' = [req EXCEPT ![x] = r]
               /\ DOMAIN r = Fields /\ r.p = p
               /\ (r.at = "unload" \/ (r.at = "copy" /\ files'[p] = NoFiles))
  <2>1. CASE \E on \in BOOLEAN : SetPluginEnabled(x, p, on)
    <3> DEFINE r == [NoReq EXCEPT !.at = "unload", !.p = p, !.op = "switch"]
    <3>1. ReqAt(x, "idle") /\ req' = [req EXCEPT ![x] = r] BY <2>1 DEF SetPluginEnabled, BeginRequest
    <3>2. DOMAIN r = Fields /\ r.p = p /\ r.at = "unload" BY DEF NoReq, Fields
    <3> HIDE DEF r
    <3> QED BY <3>1, <3>2
  <2>2. CASE \E v \in Version : InstallPlugin(x, p, v)
    <3>1. PICK v \in Version : InstallPlugin(x, p, v) BY <2>2
    <3> DEFINE r == [NoReq EXCEPT !.at = "copy", !.p = p, !.op = "install", !.v = v]
    <3>2. ReqAt(x, "idle") /\ req' = [req EXCEPT ![x] = r] /\ files'[p] = NoFiles
      BY <3>1 DEF InstallPlugin
    <3>3. DOMAIN r = Fields /\ r.p = p /\ r.at = "copy" BY DEF NoReq, Fields
    <3> HIDE DEF r
    <3> QED BY <3>2, <3>3
  <2>3. CASE SetPluginConfig(x, p)
    <3> DEFINE r == [NoReq EXCEPT !.at = "unload", !.p = p, !.op = "configure"]
    <3>1. ReqAt(x, "idle") /\ req' = [req EXCEPT ![x] = r] BY <2>3 DEF SetPluginConfig, BeginRequest
    <3>2. DOMAIN r = Fields /\ r.p = p /\ r.at = "unload" BY DEF NoReq, Fields
    <3> HIDE DEF r
    <3> QED BY <3>1, <3>2
  <2>4. CASE UninstallPlugin(x, p)
    <3> DEFINE r == [NoReq EXCEPT !.at = "unload", !.p = p, !.op = "uninstall"]
    <3>1. ReqAt(x, "idle") /\ req' = [req EXCEPT ![x] = r] BY <2>4 DEF UninstallPlugin, BeginRequest
    <3>2. DOMAIN r = Fields /\ r.p = p /\ r.at = "unload" BY DEF NoReq, Fields
    <3> HIDE DEF r
    <3> QED BY <3>1, <3>2
  <2> QED BY <2>1, <2>2, <2>3, <2>4
<1>2. DOMAIN req' = PluginAdmins /\ req'[x] = r /\ \A y \in PluginAdmins \ {x} : req'[y] = req[y]
  BY <1>1
<1>3. Moves(x, p) BY <1>1, <1>2 DEF Moves, HasMade
<1>4. Elsewhere(p)
  BY DEF Elsewhere, BridgesTyped, stored, registries, SetPluginEnabled, InstallPlugin,
         SetPluginConfig, UninstallPlugin
<1>5. NoFiles \notin SwitchedOn BY PluginAssumption DEF NoFiles
<1>6. Promised(x, p) BY <1>1, <1>2, <1>5 DEF Promised, WillLoad, ReqOf, Works
<1> QED BY <1>1, <1>3, <1>4, <1>6, RequestMoves

LEMMA CommandLineKeepsPlugins ==
    ASSUME PluginInv, NEW p \in Plugin,
           \/ \E on \in BOOLEAN : SwitchByCli(p, on)
           \/ \E v \in Version \union {NoFiles} : InstallByCli(p, v)
    PROVE  PluginInv'
<1>1. /\ known' = [known EXCEPT ![p] = FALSE] /\ UNCHANGED <<req, listeners, bridge>>
      /\ DOMAIN files' = Plugin /\ DOMAIN inDb' = Plugin
      /\ \A q \in Plugin \ {p} : files'[q] = files[q] /\ inDb'[q] = inDb[q]
  BY DEF SwitchByCli, InstallByCli, registries, PluginInv, PluginsTyped
<1>2. PluginsTyped'
  BY <1>1 DEF PluginInv, PluginsTyped, RequestsTyped, BridgesTyped, ReqAt, ReqOf
<1>3. \A q \in Plugin : Works(q)' => Works(q) /\ q # p BY <1>1 DEF Works, PluginInv, PluginsTyped
<1>4. \A q \in Plugin \ {p} : /\ Listens(q) => Listens(q)'
                              /\ \A x \in PluginAdmins : WillLoad(x, q) => WillLoad(x, q)'
  BY <1>1 DEF Listens, WillLoad, ReqOf
<1> QED BY <1>2, <1>3, <1>4 DEF PluginInv, HeardOrLoaded

\* The thread of a request under way.
LEMMA UnderWay ==
    ASSUME PluginInv, NEW x \in PluginAdmins, ~ReqAt(x, "idle")
    PROVE  ReqOf(x) \in Plugin /\ (HasMade(req[x]) => Own(ReqOf(x), req[x].inst))
BY DEF PluginInv, PluginsTyped, RequestsTyped

\* The steps of a request up to the reading of plugin.json; what they take away, they
\* bring back.
LEMMA UnloadingIsPromising ==
    ASSUME PluginInv, NEW x \in PluginAdmins,
           DropModule(x) \/ Unsubscribe(x) \/ FilterHooks(x) \/ Unhook(x)
    PROVE  PluginInv'
<1> USE DEF PluginInv, PluginsTyped, RequestsTyped
<1>1. ~ReqAt(x, "idle") /\ UNCHANGED <<inDb, files, known>>
  BY DEF DropModule, Unsubscribe, FilterHooks, Unhook, ReqAt, stored
<1>2. /\ DOMAIN req' = PluginAdmins /\ \A y \in PluginAdmins \ {x} : req'[y] = req[y]
      /\ DOMAIN req'[x] = Fields /\ req'[x].p = ReqOf(x)
      /\ req'[x].at \in {"unsubscribe", "filter", "unhook", "remove", "manifest"}
  BY DEF DropModule, Unsubscribe, FilterHooks, Unhook, ReqGoes, ReqOf, Fields
<1>3. PICK p \in Plugin : p = ReqOf(x) BY <1>1, UnderWay
<1>4. BridgesTyped' /\ \A i \in listeners : i \in listeners' \/ i[1] = p
  <2>1. CASE Unsubscribe(x) BY <1>3, <2>1 DEF Unsubscribe, Own, BridgesTyped
  <2>2. CASE DropModule(x) \/ FilterHooks(x) \/ Unhook(x)
    BY <2>2 DEF DropModule, FilterHooks, Unhook, registries, BridgesTyped
  <2> QED BY <2>1, <2>2
<1>5. Moves(x, p) BY <1>2, <1>3 DEF Moves, HasMade
<1>6. Elsewhere(p) BY <1>1, <1>4 DEF Elsewhere
<1>7. Promised(x, p) BY <1>2, <1>3 DEF Promised, WillLoad, ReqOf
<1> QED BY <1>3, <1>5, <1>6, <1>7, RequestMoves

LEMMA FilesFollowRequests ==
    ASSUME PluginInv, NEW x \in PluginAdmins, CopyFiles(x) \/ RemoveFiles(x) \/ ReadManifest(x)
    PROVE  PluginInv'
<1> USE DEF PluginInv, PluginsTyped, RequestsTyped
<1>1. ~ReqAt(x, "idle") /\ UNCHANGED <<listeners, bridge>>
  BY DEF CopyFiles, RemoveFiles, ReadManifest, ReqAt, registries
<1>2. PICK p \in Plugin : p = ReqOf(x) BY <1>1, UnderWay
<1>3. NoFiles \notin SwitchedOn BY PluginAssumption DEF NoFiles
<1>4. Elsewhere(p)
  BY <1>1, <1>2 DEF CopyFiles, RemoveFiles, ReadManifest, stored, Elsewhere, BridgesTyped
<1>5. /\ DOMAIN req' = PluginAdmins /\ \A y \in PluginAdmins \ {x} : req'[y] = req[y]
      /\ DOMAIN req'[x] = Fields /\ req'[x].at \in {"idle", "unload", "import"}
      /\ req'[x].at \in {"unload", "import"} => req'[x].p = p
  <2>1. CASE CopyFiles(x)
    BY <1>2, <2>1 DEF CopyFiles, ReqDone, ReqGoes, NoReq, ReqOf, Fields
  <2>2. CASE RemoveFiles(x) BY <2>2 DEF RemoveFiles, ReqDone, NoReq, Fields
  <2>3. CASE ReadManifest(x)
    BY <1>2, <2>3 DEF ReadManifest, ReqDone, ReqGoes, NoReq, ReqOf, Fields
  <2> QED BY <2>1, <2>2, <2>3
<1>6. Moves(x, p) BY <1>5 DEF Moves, HasMade
<1>7. Promised(x, p)
  <2>1. CASE req'[x].at \in {"unload", "import"}
    BY <1>5, <2>1 DEF Promised, WillLoad, ReqOf
  <2>2. CASE req'[x].at = "idle" /\ CopyFiles(x)
    <3>1. ~WillLoad(x, p) BY <2>2 DEF CopyFiles, ReqAt, WillLoad
    <3>2. UNCHANGED <<inDb, files, known>> BY <2>2 DEF CopyFiles, ReqGoes, Fields
    <3> QED BY <1>1, <3>1, <3>2 DEF Promised
  <2>3. CASE req'[x].at = "idle" /\ RemoveFiles(x)
    <3>1. files'[p] = NoFiles BY <1>2, <2>3 DEF RemoveFiles
    <3> QED BY <1>3, <3>1 DEF Promised, Works
  <2>4. CASE req'[x].at = "idle" /\ ReadManifest(x)
    <3>1. files'[p] \notin SwitchedOn BY <1>2, <2>4 DEF ReadManifest, ReqGoes, stored, Fields
    <3> QED BY <3>1 DEF Promised, Works
  <2> QED BY <1>5, <2>1, <2>2, <2>3, <2>4
<1> QED BY <1>2, <1>4, <1>6, <1>7, RequestMoves

LEMMA LoadingIsHeard ==
    ASSUME PluginInv, NEW x \in PluginAdmins,
           \/ ImportModule(x) \/ Enable(x) \/ Subscribe(x) \/ PublishBridge(x) \/ RegisterCommands(x)
    PROVE  PluginInv'
<1> USE DEF PluginInv, PluginsTyped, RequestsTyped
<1>1. ~ReqAt(x, "idle") /\ UNCHANGED <<inDb, files, known>>
  BY DEF ImportModule, Enable, Subscribe, PublishBridge, RegisterCommands, ReqAt, stored
<1>2. PICK p \in Plugin : p = ReqOf(x) BY <1>1, UnderWay
<1>3. HasMade(req[x]) => Own(p, req[x].inst) BY <1>1, <1>2, UnderWay
<1>4. BridgesTyped' /\ listeners \subseteq listeners'
  <2>1. CASE Subscribe(x) BY <1>3, <2>1 DEF Subscribe, HasMade, Own, ReqAt, BridgesTyped
  <2>2. CASE PublishBridge(x)
    BY <1>2, <1>3, <2>2 DEF PublishBridge, HasMade, Own, ReqAt, registries, BridgesTyped
  <2>3. CASE ImportModule(x) \/ Enable(x) \/ RegisterCommands(x)
    BY <2>3 DEF ImportModule, Enable, RegisterCommands, registries, BridgesTyped
  <2> QED BY <2>1, <2>2, <2>3
<1>5. Elsewhere(p) BY <1>1, <1>4 DEF Elsewhere
<1>6. /\ DOMAIN req' = PluginAdmins /\ \A y \in PluginAdmins \ {x} : req'[y] = req[y]
      /\ DOMAIN req'[x] = Fields /\ (req'[x].at = "idle" \/ req'[x].p = p)
      /\ HasMade(req'[x]) => Own(p, req'[x].inst)
  <2>1. CASE ImportModule(x)
    <3>1. CASE files[p] \in Sound
      BY <1>2, <2>1, <3>1 DEF ImportModule, HasMade, Own, NoInstance, ReqOf, Fields
    <3>2. CASE files[p] \notin Sound
      BY <1>2, <2>1, <3>2 DEF ImportModule, HasMade, ReqOf, Fields
    <3> QED BY <3>1, <3>2
  <2>2. CASE Enable(x) \/ Subscribe(x) \/ PublishBridge(x)
    BY <1>2, <1>3, <2>2 DEF Enable, Subscribe, PublishBridge, ReqGoes, HasMade, ReqOf, ReqAt, Fields
  <2>3. CASE RegisterCommands(x) BY <2>3 DEF RegisterCommands, ReqDone, NoReq, HasMade, Fields
  <2> QED BY <2>1, <2>2, <2>3
<1>7. Moves(x, p) BY <1>6 DEF Moves
<1>8. Promised(x, p)
  <2> USE DEF Promised
  <2>1. CASE ImportModule(x)
    <3>1. CASE files[p] \in Sound
      <4>1. req'[x].at = "enable" /\ req'[x].inst[3] = files[p]
        BY <1>2, <2>1, <3>1 DEF ImportModule, ReqOf, Fields
      <4> QED BY <1>1, <1>6, <4>1 DEF WillLoad, ReqOf
    <3>2. CASE files[p] \notin Sound BY <1>1, <3>2 DEF Works
    <3> QED BY <3>1, <3>2
  <2>2. CASE Enable(x)
    <3>1. req'[x].at = "subscribe" /\ req'[x].inst = req[x].inst /\ req[x].at = "enable"
      BY <2>2 DEF Enable, ReqGoes, ReqAt, Fields
    <3> QED BY <1>1, <1>4, <1>6, <3>1 DEF WillLoad, ReqOf
  <2>3. CASE Subscribe(x)
    <3>1. req[x].inst \in listeners' /\ req[x].inst[1] = p /\ req[x].at = "subscribe"
      BY <1>3, <2>3 DEF Subscribe, HasMade, Own, ReqAt
    <3>2. WillLoad(x, p) => Listens(p)' BY <1>1, <3>1 DEF WillLoad, Listens
    <3> QED BY <1>1, <1>4, <3>2
  <2>4. CASE PublishBridge(x) \/ RegisterCommands(x)
    <3>1. ~WillLoad(x, p) BY <2>4 DEF PublishBridge, RegisterCommands, ReqAt, WillLoad
    <3> QED BY <1>1, <1>4, <3>1
  <2> QED BY <2>1, <2>2, <2>3, <2>4
<1> QED BY <1>2, <1>5, <1>7, <1>8, RequestMoves

LEMMA PluginStep == PluginInv /\ [PluginNext]_pluginVars => PluginInv'
<1> SUFFICES ASSUME PluginInv, [PluginNext]_pluginVars PROVE PluginInv'
  OBVIOUS
<1>1. CASE ListNavItems \/ StoreNavItems \/ UNCHANGED pluginVars
  BY <1>1 DEF ListNavItems, StoreNavItems, pluginVars, stored, registries, PluginInv, PluginsTyped,
     RequestsTyped, BridgesTyped, HeardOrLoaded, Works, Listens, WillLoad, ReqAt, ReqOf
<1> QED BY <1>1, RequestsBegin, CommandLineKeepsPlugins, UnloadingIsPromising, FilesFollowRequests,
           LoadingIsHeard DEF PluginNext

LEMMA PluginInvHears == PluginInv => PluginIsHeard
<1> SUFFICES ASSUME PluginInv, NoRequest, NEW p \in Plugin, Works(p)
             PROVE  \E i \in Instances(p, listeners) : i[3] = files[p]
  BY DEF PluginIsHeard
<1>1. \A x \in PluginAdmins : ~WillLoad(x, p) BY DEF NoRequest, ReqAt, WillLoad
<1>2. Listens(p) BY <1>1 DEF PluginInv, HeardOrLoaded
<1> QED BY <1>2 DEF Listens, Instances

\* However requests overlap, when they are over a plugin that the database switches on and
\* whose directory holds a sound and switched-on version listens with that version
\* (_load_plugin, _unload_plugin).
THEOREM PluginsAreHeard == PluginSpec => []PluginIsHeard
<1>1. PluginInit => PluginInv BY PluginInvInit
<1>2. PluginInv /\ [PluginNext]_pluginVars => PluginInv' BY PluginStep
<1>3. PluginInv => PluginIsHeard BY PluginInvHears
<1> QED BY <1>1, <1>2, <1>3, PTL DEF PluginSpec


-----------------------------------------------------------------------------
(* The rows of a session's state: who may write what over what. *)

\* A row, an AgentState or a copy of one: execute mode has a plan, or is trivial, or the
\* session's commands allowed it; a row that is not there says nothing.
WorkOk(w) ==
    /\ DOMAIN w = {"mode", "plan", "trivial"}
    /\ w.mode = "execute" => w.plan \/ w.trivial
WorkOkIf(w, earned) ==
    /\ DOMAIN w = {"mode", "plan", "trivial"}
    /\ w.mode = "execute" => w.plan \/ w.trivial \/ earned
GoalShape(g) == DOMAIN g = {"id", "used"}
AgentOk(r) == DOMAIN r = {"there", "work", "focus", "fallback"} /\ WorkOk(r.work)
ChatOk(r, earned) ==
    /\ DOMAIN r = {"there", "own", "work", "goal", "fast"}
    /\ GoalShape(r.goal) /\ WorkOkIf(r.work, earned)
    /\ ~r.there => r.goal.id = 0 /\ r.fast = FALSE
TurnFields == {"at", "then", "work", "focus", "goal", "agent", "chat", "nudged", "onFallback",
               "outdated"}
TurnOk(t, earned) ==
    /\ DOMAIN t = TurnFields /\ GoalShape(t.goal)
    /\ WorkOkIf(t.work, earned) /\ AgentOk(t.agent) /\ ChatOk(t.chat, earned)
ToldFields == {"goal", "fast", "earned", "torn"}

\* A command has the session it is about; what it is to write in plan mode is plan mode.
OnSession == {"readState", "readRow", "writeRow", "freshRow"}
CommandOk ==
    /\ DOMAIN cmd = {"at", "op", "c", "work", "agent", "chat"}
    /\ AgentOk(cmd.agent) /\ DOMAIN cmd.work = {"mode", "plan", "trivial"}
    /\ cmd.at \in OnSession => cmd.c \in Chat /\ ChatOk(cmd.chat, told[cmd.c].earned)
    /\ cmd.at = "readState" => cmd.op \in {"plan", "exec", "goal"}
    /\ cmd.at \in {"readRow", "writeRow"} =>
         /\ cmd.op \in {"plan", "exec", "goal", "fast"}
         /\ cmd.op = "plan" => cmd.work.mode = "plan"
KeysOk(c) ==
    ~told[c].torn => chatRow[c].goal.id = told[c].goal /\ chatRow[c].fast = told[c].fast
SessionOk(c) ==
    /\ DOMAIN told[c] = ToldFields /\ KeysOk(c)
    /\ ChatOk(chatRow[c], told[c].earned) /\ TurnOk(turn[c], told[c].earned)

StateInv ==
    /\ DOMAIN turn = Chat /\ DOMAIN chatRow = Chat /\ DOMAIN told = Chat
    /\ AgentOk(agentRow) /\ CommandOk /\ \A c \in Chat : SessionOk(c)

LEMMA FreshIsOk ==
    /\ WorkOk(FreshWork) /\ AgentOk(NoAgentRow)
    /\ \A earned : WorkOkIf(FreshWork, earned) /\ ChatOk(NoChatRow, earned) /\ TurnOk(NoTurn, earned)
<1> USE DEF FreshWork, NoGoal, GoalShape, WorkOk, WorkOkIf
<1>1. WorkOk(FreshWork) /\ \A earned : WorkOkIf(FreshWork, earned) OBVIOUS
<1>2. AgentOk(NoAgentRow) BY DEF NoAgentRow, AgentOk
<1>3. \A earned : ChatOk(NoChatRow, earned) BY DEF NoChatRow, ChatOk
<1>4. \A earned : TurnOk(NoTurn, earned)
  BY <1>1, <1>2, <1>3 DEF NoTurn, TurnOk, TurnFields
<1> QED BY <1>1, <1>2, <1>3, <1>4

LEMMA StateInvInit == StateInit => StateInv
<1> SUFFICES ASSUME StateInit PROVE StateInv
  OBVIOUS
<1> USE DEF StateInit
<1>1. CommandOk BY FreshIsOk DEF CommandOk, NoCommand, OnSession, FreshWork
<1>2. ASSUME NEW c \in Chat PROVE SessionOk(c)
  <2>1. KeysOk(c) BY DEF KeysOk, NoChatRow, NoGoal, ToldNothing
  <2> QED BY <2>1, FreshIsOk DEF SessionOk, ToldNothing, ToldFields
<1> QED BY <1>1, <1>2, FreshIsOk DEF StateInv

\* What a session reads is as good as what is in its row and in the agent's.
LEMMA ReadIsOk ==
    ASSUME StateInv, NEW c \in Chat
    PROVE  /\ ChatOk(Migrated(c), told[c].earned)
           /\ Migrated(c).goal.id = chatRow[c].goal.id /\ Migrated(c).fast = chatRow[c].fast
<1>1. CASE chatRow[c].there \/ ~agentRow.there BY <1>1 DEF Migrated, StateInv, SessionOk
<1>2. CASE ~(chatRow[c].there \/ ~agentRow.there)
  <2>1. Migrated(c) = [NoChatRow EXCEPT !.there = TRUE, !.own = TRUE, !.work = agentRow.work]
    BY <1>2 DEF Migrated
  <2>2. chatRow[c].goal.id = 0 /\ chatRow[c].fast = FALSE
    BY <1>2 DEF StateInv, SessionOk, ChatOk
  <2>3. WorkOkIf(agentRow.work, told[c].earned) BY DEF StateInv, AgentOk, WorkOk, WorkOkIf
  <2>4. /\ Migrated(c).work = agentRow.work /\ Migrated(c).there = TRUE
        /\ Migrated(c).goal = NoGoal /\ Migrated(c).fast = FALSE
        /\ DOMAIN Migrated(c) = {"there", "own", "work", "goal", "fast"}
    BY <2>1 DEF NoChatRow
  <2>5. ChatOk(Migrated(c), told[c].earned) BY <2>3, <2>4 DEF ChatOk, GoalShape, NoGoal
  <2>6. Migrated(c).fast = chatRow[c].fast BY <2>2, <2>4, Zenon
  <2>7. Migrated(c).goal.id = chatRow[c].goal.id BY <2>2, <2>4 DEF NoGoal
  <2> QED BY <2>5, <2>6, <2>7
<1> QED BY <1>1, <1>2

\* Only session c, its turn and the agent's row move.
OnlySession(c) ==
    /\ DOMAIN turn' = Chat /\ DOMAIN chatRow' = Chat /\ DOMAIN told' = Chat
    /\ \A d \in Chat \ {c} : turn'[d] = turn[d] /\ chatRow'[d] = chatRow[d] /\ told'[d] = told[d]
    /\ told[c].earned => told'[c].earned

LEMMA SessionMoves ==
    ASSUME StateInv, NEW c \in Chat, OnlySession(c), SessionOk(c)', AgentOk(agentRow)'
    PROVE  /\ UNCHANGED cmd => StateInv'
           /\ CommandOk' => StateInv'
<1>1. \A d \in Chat : SessionOk(d)'
  BY DEF StateInv, SessionOk, KeysOk, OnlySession
<1>2. ASSUME UNCHANGED cmd PROVE CommandOk'
  <2>1. \A d \in Chat : told[d].earned => told'[d].earned BY DEF OnlySession
  <2>2. \A d \in Chat : \A r : ChatOk(r, told[d].earned) => ChatOk(r, told'[d].earned)
    BY <2>1 DEF ChatOk, WorkOkIf
  <2> QED BY <1>2, <2>2 DEF CommandOk, StateInv
<1> QED BY <1>1, <1>2 DEF StateInv, OnlySession

\* The rows stay, or session c's is read; its turn goes on with what is sound.
LEMMA TurnGoesOn ==
    ASSUME StateInv, NEW c \in Chat, OnlySession(c), UNCHANGED <<told, cmd>>,
           chatRow'[c] \in {chatRow[c], Migrated(c)},
           TurnOk(turn'[c], told[c].earned), AgentOk(agentRow)'
    PROVE  StateInv'
<1>1. /\ ChatOk(chatRow'[c], told[c].earned)
      /\ chatRow'[c].goal.id = chatRow[c].goal.id /\ chatRow'[c].fast = chatRow[c].fast
  BY ReadIsOk DEF StateInv, SessionOk
<1>2. SessionOk(c)' BY <1>1 DEF SessionOk, StateInv, KeysOk
<1> QED BY <1>2, SessionMoves

LEMMA TurnsKeepState ==
    ASSUME StateInv, NEW c \in Chat,
           \/ BeginTurn(c) \/ CheckFallback(c) \/ ProbeFails(c) \/ PrimaryRecovered(c)
           \/ FallbackSucceeds(c) \/ KeepFallback(c)
           \/ PersistReadAgent(c) \/ PersistAgent(c) \/ PersistReadChat(c)
           \/ ReadForUsage(c) \/ CandidateAnswer(c) \/ LeaveTurn(c) \/ ReadForGoal(c)
    PROVE  StateInv'
<1>1. /\ TurnOk(turn[c], told[c].earned) /\ AgentOk(agentRow)
      /\ DOMAIN turn = Chat /\ DOMAIN chatRow = Chat /\ DOMAIN told = Chat
  BY DEF StateInv, SessionOk
<1>2. OnlySession(c) /\ UNCHANGED <<told, cmd>> /\ chatRow'[c] \in {chatRow[c], Migrated(c)}
  BY <1>1 DEF BeginTurn, CheckFallback, ProbeFails, PrimaryRecovered, FallbackSucceeds, KeepFallback,
     PersistReadAgent, PersistAgent, PersistReadChat, ReadForUsage, CandidateAnswer, LeaveTurn,
     ReadForGoal, TurnGoes, ReadChat, OnlySession
<1>3. TurnOk(turn'[c], told[c].earned)
  <2>1. CASE BeginTurn(c)
    <3>1. turn'[c] = [NoTurn EXCEPT !.at = "restore", !.agent = agentRow] BY <1>1, <2>1 DEF BeginTurn
    <3> QED BY <1>1, <3>1, FreshIsOk DEF TurnOk, TurnFields
  <2>2. CASE CheckFallback(c) \/ FallbackSucceeds(c) \/ PersistReadAgent(c)
    BY <1>1, <2>2 DEF CheckFallback, FallbackSucceeds, PersistReadAgent, TurnOk, TurnFields
  <2>3. CASE ProbeFails(c) \/ PrimaryRecovered(c) \/ KeepFallback(c) \/ PersistAgent(c)
             \/ CandidateAnswer(c)
    BY <1>1, <2>3 DEF ProbeFails, PrimaryRecovered, KeepFallback, PersistAgent, CandidateAnswer,
       TurnGoes, TurnOk, TurnFields
  <2>4. CASE PersistReadChat(c) \/ ReadForUsage(c) \/ ReadForGoal(c)
    BY <1>1, <2>4, ReadIsOk DEF PersistReadChat, ReadForUsage, ReadForGoal, TurnOk, TurnFields
  <2>5. CASE LeaveTurn(c) BY <1>1, <2>5, FreshIsOk DEF LeaveTurn
  <2> QED BY <2>1, <2>2, <2>3, <2>4, <2>5
<1>4. AgentOk(agentRow)'
  <2>1. AgentOk(turn[c].agent) BY <1>1 DEF TurnOk
  <2>2. CASE PrimaryRecovered(c) BY <2>1, <2>2 DEF PrimaryRecovered, AgentOk
  <2>3. CASE KeepFallback(c) BY <2>1, <2>3 DEF KeepFallback, AgentOk
  <2>4. CASE PersistAgent(c) BY <2>1, <2>4 DEF PersistAgent, AgentOk
  <2>5. CASE UNCHANGED agentRow BY <1>1, <2>5
  <2> QED BY <2>2, <2>3, <2>4, <2>5 DEF BeginTurn, CheckFallback, ProbeFails, FallbackSucceeds,
        PersistReadAgent, PersistReadChat, ReadForUsage, CandidateAnswer, LeaveTurn, ReadForGoal
<1> QED BY <1>2, <1>3, <1>4, TurnGoesOn

LEMMA JudgingKeepsState ==
    ASSUME StateInv, NEW c \in Chat, NEW verdict, Judge(c, verdict)
    PROVE  StateInv'
<1>1. /\ TurnOk(turn[c], told[c].earned) /\ AgentOk(agentRow)
      /\ DOMAIN turn = Chat /\ DOMAIN chatRow = Chat /\ DOMAIN told = Chat
  BY DEF StateInv, SessionOk
<1>2. OnlySession(c) /\ UNCHANGED <<told, cmd, chatRow, agentRow>>
  BY <1>1 DEF Judge, OnlySession
<1>3. PICK place, used, nudged :
         turn' = [turn EXCEPT ![c].at = place, ![c].goal.used = used, ![c].nudged = nudged]
  BY DEF Judge
<1>4. TurnOk(turn'[c], told[c].earned) BY <1>1, <1>3 DEF TurnOk, TurnFields, GoalShape
<1> QED BY <1>1, <1>2, <1>4, TurnGoesOn

\* Approval needs a plan, and a task begins a new one.
LEMMA RestoringIsSound ==
    ASSUME NEW work, NEW new \in BOOLEAN, NEW asks, NEW earned, WorkOkIf(work, earned)
    PROVE  WorkOkIf(Restored(work, new, asks), earned)
<1> USE DEF WorkOkIf, FreshWork
<1>1. CASE new BY <1>1 DEF Restored
<1>2. CASE ~new /\ work.mode = "plan" /\ asks = "approves" BY <1>2 DEF Restored
<1>3. CASE ~new /\ work.mode = "plan" /\ asks = "task" BY <1>3 DEF Restored
<1>4. CASE ~new /\ ~(work.mode = "plan" /\ asks \in {"approves", "task"}) BY <1>4 DEF Restored
<1> QED BY <1>1, <1>2, <1>3, <1>4

LEMMA RestoringKeepsState ==
    ASSUME StateInv, NEW c \in Chat, NEW asks, RestoreState(c, asks)
    PROVE  StateInv'
<1> DEFINE row == Migrated(c)
           read == turn[c].agent
           work == IF row.own THEN row.work ELSE read.work
           new == ~read.there /\ ~row.there
           reset == ~new /\ work.mode = "plan" /\ asks = "task"
<1>1. /\ TurnOk(turn[c], told[c].earned) /\ AgentOk(agentRow) /\ ChatOk(row, told[c].earned)
      /\ DOMAIN turn = Chat /\ DOMAIN chatRow = Chat /\ DOMAIN told = Chat
  BY ReadIsOk DEF StateInv, SessionOk
<1>2. WorkOkIf(work, told[c].earned) BY <1>1 DEF TurnOk, ChatOk, AgentOk, WorkOk, WorkOkIf
<1>3. WorkOkIf(Restored(work, new, asks), told[c].earned) BY <1>2, RestoringIsSound
<1>4. GoalShape(IF reset THEN NoGoal ELSE row.goal) BY <1>1 DEF ChatOk, GoalShape, NoGoal
<1>5. turn' = [turn EXCEPT ![c].at = "fallback", ![c].work = Restored(work, new, asks),
                           ![c].focus = read.focus /\ ~reset,
                           ![c].goal = IF reset THEN NoGoal ELSE row.goal]
  BY DEF RestoreState
<1>6. OnlySession(c) /\ UNCHANGED <<told, cmd, agentRow>> /\ chatRow'[c] = row
  BY <1>1 DEF RestoreState, ReadChat, OnlySession
<1> HIDE DEF row, work, new, reset
<1>7. TurnOk(turn'[c], told[c].earned) BY <1>1, <1>3, <1>4, <1>5 DEF TurnOk, TurnFields
<1> QED BY <1>1, <1>6, <1>7, TurnGoesOn DEF row

LEMMA ToolsKeepState ==
    ASSUME StateInv, NEW c \in Chat, ChangeState(c)
    PROVE  StateInv'
<1>1. /\ TurnOk(turn[c], told[c].earned) /\ AgentOk(agentRow)
      /\ DOMAIN turn = Chat /\ DOMAIN chatRow = Chat /\ DOMAIN told = Chat
  BY DEF StateInv, SessionOk
<1>2. OnlySession(c) /\ UNCHANGED <<told, cmd, chatRow, agentRow>>
  BY <1>1 DEF ChangeState, OnlySession
<1>3. \A w \in ModesAfter(turn[c].work) : WorkOkIf(w, told[c].earned)
  BY <1>1 DEF ModesAfter, TurnOk, WorkOkIf
<1>4. TurnOk(turn'[c], told[c].earned)
  <2>1. CASE \E w \in ModesAfter(turn[c].work) :
               turn' = [turn EXCEPT ![c].at = "readAgent", ![c].work = w, ![c].then = "loop"]
    BY <1>1, <1>3, <2>1 DEF TurnOk, TurnFields
  <2>2. CASE \E on \in BOOLEAN :
               turn' = [turn EXCEPT ![c].at = "readAgent", ![c].focus = on, ![c].then = "loop"]
    BY <1>1, <2>2 DEF TurnOk, TurnFields
  <2> QED BY <2>1, <2>2 DEF ChangeState
<1> QED BY <1>1, <1>2, <1>4, TurnGoesOn

\* Nothing was lost: the row is the one that was read.
LEMMA TurnsWriteRows ==
    ASSUME StateInv, NEW c \in Chat, PersistChat(c) \/ WriteUsage(c) \/ WriteGoal(c)
    PROVE  StateInv'
<1>1. /\ TurnOk(turn[c], told[c].earned) /\ AgentOk(agentRow) /\ KeysOk(c)
      /\ DOMAIN turn = Chat /\ DOMAIN chatRow = Chat /\ DOMAIN told = Chat
      /\ DOMAIN told[c] = ToldFields /\ ChatOk(turn[c].chat, told[c].earned)
  BY DEF StateInv, SessionOk, TurnOk
<1> USE <1>1
<1>2. CASE PersistChat(c)
  <2>1. chatRow'[c] = [turn[c].chat EXCEPT !.own = TRUE, !.work = turn[c].work, !.there = TRUE]
    BY <1>2 DEF PersistChat, WriteChat
  <2>2. ChatOk(chatRow'[c], told[c].earned) BY <2>1 DEF ChatOk, TurnOk
  <2>3. /\ DOMAIN told'[c] = ToldFields /\ told'[c].earned = told[c].earned
        /\ told'[c].goal = told[c].goal /\ told'[c].fast = told[c].fast
        /\ ~told'[c].torn => ~told[c].torn /\ chatRow[c] = turn[c].chat
    BY <1>2 DEF PersistChat, Torn, ToldFields
  <2>4. TurnOk(turn'[c], told[c].earned)
    <3>1. CASE turn[c].then = "end" BY <1>2, <3>1, FreshIsOk DEF PersistChat
    <3>2. CASE turn[c].then # "end" BY <1>2, <3>2 DEF PersistChat, TurnOk, TurnFields
    <3> QED BY <3>1, <3>2
  <2>5. KeysOk(c)' BY <2>1, <2>3 DEF KeysOk, ChatOk
  <2>6. SessionOk(c)' BY <2>2, <2>3, <2>4, <2>5 DEF SessionOk
  <2>7. OnlySession(c) /\ UNCHANGED <<cmd, agentRow>>
    BY <1>2, <2>3 DEF PersistChat, WriteChat, OnlySession
  <2> QED BY <2>6, <2>7, SessionMoves
<1>3. CASE WriteUsage(c)
  <2>1. chatRow'[c] = [turn[c].chat EXCEPT !.there = TRUE] BY <1>3 DEF WriteUsage, WriteChat
  <2>2. ChatOk(chatRow'[c], told[c].earned) BY <2>1 DEF ChatOk
  <2>3. /\ DOMAIN told'[c] = ToldFields /\ told'[c].earned = told[c].earned
        /\ told'[c].goal = told[c].goal /\ told'[c].fast = told[c].fast
        /\ ~told'[c].torn => ~told[c].torn /\ chatRow[c] = turn[c].chat
    BY <1>3 DEF WriteUsage, Torn, ToldFields
  <2>4. TurnOk(turn'[c], told[c].earned) BY <1>3 DEF WriteUsage, TurnGoes, TurnOk, TurnFields
  <2>5. KeysOk(c)' BY <2>1, <2>3 DEF KeysOk, ChatOk
  <2>6. SessionOk(c)' BY <2>2, <2>3, <2>4, <2>5 DEF SessionOk
  <2>7. OnlySession(c) /\ UNCHANGED <<cmd, agentRow>>
    BY <1>3, <2>3 DEF WriteUsage, WriteChat, TurnGoes, OnlySession
  <2> QED BY <2>6, <2>7, SessionMoves
<1>4. CASE WriteGoal(c)
  <2>1. PICK goal : /\ GoalShape(goal)
                    /\ chatRow'[c] = [turn[c].chat EXCEPT !.goal = goal, !.there = TRUE]
                    /\ told' = [told EXCEPT ![c].torn = Torn(c, turn[c].chat)
                                               \/ turn[c].chat.goal.id # turn[c].goal.id,
                                            ![c].goal = goal.id]
                    /\ \E place : turn' = [turn EXCEPT ![c].at = place, ![c].goal = goal]
    <3> DEFINE goal == IF TurnAt(c, "writeNudge") THEN turn[c].goal ELSE NoGoal
    <3>1. GoalShape(goal) BY DEF TurnOk, GoalShape, NoGoal
    <3>2. /\ chatRow'[c] = [turn[c].chat EXCEPT !.goal = goal, !.there = TRUE]
          /\ told' = [told EXCEPT ![c].torn = Torn(c, turn[c].chat)
                                     \/ turn[c].chat.goal.id # turn[c].goal.id,
                                  ![c].goal = goal.id]
          /\ \E place : turn' = [turn EXCEPT ![c].at = place, ![c].goal = goal]
      BY <1>4 DEF WriteGoal, WriteChat
    <3> HIDE DEF goal
    <3> QED BY <3>1, <3>2
  <2>2. ChatOk(chatRow'[c], told[c].earned) BY <2>1 DEF ChatOk
  <2>3. /\ DOMAIN told'[c] = ToldFields /\ told'[c].earned = told[c].earned
        /\ told'[c].goal = goal.id /\ told'[c].fast = told[c].fast
        /\ ~told'[c].torn => ~told[c].torn /\ chatRow[c] = turn[c].chat
    BY <2>1 DEF Torn, ToldFields
  <2>4. TurnOk(turn'[c], told[c].earned) BY <2>1 DEF TurnOk, TurnFields
  <2>5. KeysOk(c)' BY <2>1, <2>3 DEF KeysOk, ChatOk
  <2>6. SessionOk(c)' BY <2>2, <2>3, <2>4, <2>5 DEF SessionOk
  <2>7. OnlySession(c) /\ UNCHANGED <<cmd, agentRow>>
    BY <1>4, <2>3 DEF WriteGoal, WriteChat, OnlySession
  <2> QED BY <2>6, <2>7, SessionMoves
<1> QED BY <1>2, <1>3, <1>4

-----------------------------------------------------------------------------
\* A command that reads session c's row, or goes on elsewhere.
LEMMA CommandGoesOn ==
    ASSUME StateInv, NEW c \in Chat, UNCHANGED <<turn, told>>, CommandOk',
           DOMAIN chatRow' = Chat, \A d \in Chat \ {c} : chatRow'[d] = chatRow[d],
           chatRow'[c] \in {chatRow[c], Migrated(c)}, AgentOk(agentRow)'
    PROVE  StateInv'
<1>1. /\ ChatOk(chatRow'[c], told[c].earned)
      /\ chatRow'[c].goal.id = chatRow[c].goal.id /\ chatRow'[c].fast = chatRow[c].fast
  BY ReadIsOk DEF StateInv, SessionOk
<1>2. SessionOk(c)' BY <1>1 DEF SessionOk, StateInv, KeysOk
<1>3. OnlySession(c) BY DEF OnlySession, StateInv
<1> QED BY <1>2, <1>3, SessionMoves

\* Without sessions there is nothing to keep but the agent's row.
LEMMA AgentRowMoves ==
    ASSUME StateInv, UNCHANGED <<turn, told, chatRow>>, CommandOk', AgentOk(agentRow)'
    PROVE  StateInv'
BY DEF StateInv, SessionOk, KeysOk

LEMMA CommandsKeepState ==
    ASSUME StateInv,
           \/ \E c \in Chat, op \in Ops : ChangeByCommand(c, op)
           \/ \E op \in Ops : ChangeAgent(op)
           \/ ReadAgent \/ WriteAgent \/ WipeAgentRow \/ \E delivered \in BOOLEAN : Reminded(delivered)
    PROVE  StateInv'
<1>1. /\ CommandOk /\ AgentOk(agentRow) /\ AgentOk(cmd.agent)
  BY DEF StateInv, CommandOk
<1>2. CommandOk'
  <2>1. ASSUME NEW c \in Chat, NEW op \in Ops, ChangeByCommand(c, op) PROVE CommandOk'
    <3>1. cmd' = [NoCommand EXCEPT !.at = IF op = "fast" THEN "readRow" ELSE "readState",
                                   !.op = op, !.c = c]
          /\ op \in {"plan", "exec", "goal", "fast"} /\ UNCHANGED told
      BY <2>1 DEF ChangeByCommand, BeginCommand
    <3>2. CASE op = "fast" BY <3>1, <3>2, FreshIsOk DEF CommandOk, NoCommand, FreshWork
    <3>3. CASE op # "fast" BY <3>1, <3>3, FreshIsOk DEF CommandOk, NoCommand, FreshWork
    <3> QED BY <3>2, <3>3
  <2>2. ASSUME NEW op \in Ops, ChangeAgent(op) PROVE CommandOk'
    <3>1. cmd' = [NoCommand EXCEPT !.at = "readAgent", !.op = op, !.c = cmd.c]
      BY <2>2 DEF ChangeAgent, BeginCommand
    <3> QED BY <3>1, FreshIsOk DEF CommandOk, NoCommand, FreshWork, OnSession
  <2>3. CASE ReadAgent BY <1>1, <2>3 DEF ReadAgent, CommandOk, OnSession
  <2>4. CASE cmd' = NoCommand BY <2>4, FreshIsOk DEF CommandOk, NoCommand, FreshWork, OnSession
  <2>5. CASE cmd' = [cmd EXCEPT !.at = "remind"] BY <1>1, <2>5 DEF CommandOk, OnSession
  <2> QED BY <2>1, <2>2, <2>3, <2>4, <2>5 DEF WriteAgent, WipeAgentRow, Reminded, CmdDone, CmdGoes
<1>3. AgentOk(agentRow)'
  <2>1. CASE WriteAgent
    <3>1. CASE agentRow' = agentRow BY <1>1, <3>1
    <3>2. CASE agentRow' = [cmd.agent EXCEPT !.there = TRUE, !.focus = FALSE]
      BY <1>1, <3>2 DEF AgentOk
    <3>3. CASE agentRow' = [cmd.agent EXCEPT !.focus = FALSE, !.fallback = FALSE]
      BY <1>1, <3>3 DEF AgentOk
    <3>4. CASE agentRow' = [cmd.agent EXCEPT !.fallback = FALSE] BY <1>1, <3>4 DEF AgentOk
    <3>5. CASE agentRow' = [there |-> TRUE, focus |-> FALSE, fallback |-> FALSE,
                            work |-> [mode |-> "execute", plan |-> TRUE, trivial |-> FALSE]]
      BY <3>5 DEF AgentOk, WorkOk
    <3> QED BY <2>1, <3>1, <3>2, <3>3, <3>4, <3>5 DEF WriteAgent
  <2>2. CASE WipeAgentRow
    <3>1. agentRow' = [NoAgentRow EXCEPT !.there = TRUE] BY <2>2 DEF WipeAgentRow
    <3> QED BY <3>1, FreshIsOk DEF AgentOk, NoAgentRow
  <2>3. CASE \E delivered \in BOOLEAN : Reminded(delivered) BY <1>1, <2>3 DEF Reminded
  <2>4. CASE UNCHANGED agentRow BY <1>1, <2>4
  <2> QED BY <2>1, <2>2, <2>3, <2>4 DEF ChangeByCommand, ChangeAgent, ReadAgent
<1>4. UNCHANGED <<turn, told, chatRow>>
  BY DEF ChangeByCommand, ChangeAgent, ReadAgent, WriteAgent, WipeAgentRow, Reminded
<1> QED BY <1>2, <1>3, <1>4, AgentRowMoves

LEMMA CommandsRead ==
    ASSUME StateInv, ReadState \/ ReadRow
    PROVE  StateInv'
<1> DEFINE c == cmd.c
<1>1. /\ CommandOk /\ AgentOk(agentRow) /\ c \in Chat /\ ChatOk(Migrated(c), told[c].earned)
      /\ ChatOk(cmd.chat, told[c].earned)
  BY ReadIsOk DEF StateInv, CommandOk, ReadState, ReadRow, CmdAt, OnSession
<1>2. CommandOk'
  <2>1. CASE ReadState
    <3> DEFINE w == [Migrated(c).work EXCEPT !.mode = IF Asks("plan") THEN "plan" ELSE "execute"]
    <3>1. cmd' = [cmd EXCEPT !.at = "readRow", !.work = w] /\ UNCHANGED told /\ CmdAt("readState")
      BY <2>1 DEF ReadState
    <3>2. DOMAIN w = {"mode", "plan", "trivial"} /\ (cmd.op = "plan" => w.mode = "plan")
      BY <1>1 DEF ChatOk, WorkOkIf, Asks
    <3> HIDE DEF w
    <3> QED BY <1>1, <3>1, <3>2 DEF CommandOk, CmdAt
  <2>2. CASE ReadRow
    <3>1. cmd' = [cmd EXCEPT !.at = "writeRow", !.chat = Migrated(c)] /\ UNCHANGED told
          /\ CmdAt("readRow")
      BY <2>2 DEF ReadRow
    <3> QED BY <1>1, <3>1 DEF CommandOk, CmdAt
  <2> QED BY <2>1, <2>2
<1>3. /\ UNCHANGED <<turn, told, agentRow>> /\ chatRow' = [chatRow EXCEPT ![c] = Migrated(c)]
  BY DEF ReadState, ReadRow, ReadChat
<1> HIDE DEF c
<1> QED BY <1>1, <1>2, <1>3, CommandGoesOn DEF StateInv

\* Session c's row is written anew, or goes; its turn, if there is one, is outdated.
LEMMA CommandsClear ==
    ASSUME StateInv,
           \/ \E c \in Chat, op \in Ops : ClearSession(c, op)
           \/ WriteFreshRow
    PROVE  StateInv'
<1>1. CommandOk /\ AgentOk(agentRow) /\ DOMAIN turn = Chat /\ DOMAIN chatRow = Chat /\ DOMAIN told = Chat
      /\ \A c \in Chat : DOMAIN told[c] = ToldFields
  BY DEF StateInv, SessionOk
<1>2. PICK c \in Chat :
        /\ \/ chatRow' = [chatRow EXCEPT ![c] = NoChatRow]
           \/ chatRow' = [chatRow EXCEPT ![c] = [[NoChatRow EXCEPT !.own = TRUE] EXCEPT !.there = TRUE]]
        /\ told' = [told EXCEPT ![c].goal = 0, ![c].fast = FALSE]
        /\ turn' = turn \/ turn' = [turn EXCEPT ![c].outdated = TRUE]
        /\ UNCHANGED agentRow
  <2>1. CASE \E c \in Chat, op \in Ops : ClearSession(c, op) BY <2>1 DEF ClearSession
  <2>2. CASE WriteFreshRow
    BY <1>1, <2>2 DEF WriteFreshRow, WriteChat, CommandOk, CmdAt, OnSession
  <2> QED BY <2>1, <2>2
<1>3. OnlySession(c) BY <1>1, <1>2 DEF OnlySession, ToldFields
<1>4. /\ DOMAIN told'[c] = ToldFields /\ told'[c].earned = told[c].earned
      /\ told'[c].goal = 0 /\ told'[c].fast = FALSE
  BY <1>1, <1>2 DEF ToldFields
<1>5. ChatOk(chatRow'[c], told[c].earned) /\ chatRow'[c].goal.id = 0 /\ chatRow'[c].fast = FALSE
  <2>1. CASE chatRow' = [chatRow EXCEPT ![c] = NoChatRow]
    <3>1. chatRow'[c] = NoChatRow BY <1>1, <2>1
    <3>2. NoChatRow.goal.id = 0 /\ NoChatRow.fast = FALSE BY DEF NoChatRow, NoGoal
    <3> QED BY <3>1, <3>2, FreshIsOk, Zenon
  <2>2. CASE chatRow' = [chatRow EXCEPT ![c] = [[NoChatRow EXCEPT !.own = TRUE] EXCEPT !.there = TRUE]]
    <3>1. chatRow'[c] = [[NoChatRow EXCEPT !.own = TRUE] EXCEPT !.there = TRUE] BY <1>1, <2>2
    <3> QED BY <3>1 DEF ChatOk, NoChatRow, NoGoal, GoalShape, WorkOkIf, FreshWork
  <2> QED BY <1>2, <2>1, <2>2
<1>6. TurnOk(turn'[c], told[c].earned)
  <2>1. TurnOk(turn[c], told[c].earned) BY DEF StateInv, SessionOk
  <2> QED BY <1>1, <1>2, <2>1 DEF TurnOk, TurnFields
<1>7. SessionOk(c)' BY <1>4, <1>5, <1>6 DEF SessionOk, KeysOk
<1>8. CommandOk'
  <2>1. \A d \in Chat : told'[d].earned = told[d].earned BY <1>1, <1>2 DEF ToldFields
  <2>2. ASSUME NEW d \in Chat, NEW op \in Ops, ClearSession(d, op) PROVE CommandOk'
    <3>1. PICK place \in {"freshRow", "wipe", "readAgent"} :
             cmd' = [NoCommand EXCEPT !.at = place, !.op = op, !.c = d]
      BY <2>2 DEF ClearSession, BeginCommand
    <3> QED BY <3>1, FreshIsOk DEF CommandOk, NoCommand, FreshWork, OnSession
  <2>3. CASE WriteFreshRow
    BY <1>1, <2>3 DEF WriteFreshRow, CmdGoes, CommandOk, OnSession
  <2> QED BY <2>2, <2>3
<1> QED BY <1>2, <1>3, <1>7, <1>8, <1>1, SessionMoves

\* What a command writes: the row it read with what it changes, and the session is told.
LEMMA CommandsWrite ==
    ASSUME StateInv, WriteRow
    PROVE  StateInv'
<1>0. PICK c \in Chat : c = cmd.c
  BY DEF StateInv, CommandOk, WriteRow, CmdAt, OnSession
<1> DEFINE row == cmd.chat
           goal == [id |-> goals + 1, used |-> 0]
           new == CASE Asks("fast") -> [row EXCEPT !.fast = ~@]
                    [] Asks("goal") -> [row EXCEPT !.own = TRUE, !.work = cmd.work, !.goal = goal]
                    [] OTHER -> [row EXCEPT !.own = TRUE, !.work = cmd.work]
           earned == told[c].earned \/ cmd.op \in {"exec", "goal"}
<1>1. /\ CommandOk /\ AgentOk(agentRow) /\ AgentOk(cmd.agent)
      /\ DOMAIN turn = Chat /\ DOMAIN chatRow = Chat /\ DOMAIN told = Chat
      /\ DOMAIN told[c] = ToldFields /\ ChatOk(row, told[c].earned) /\ KeysOk(c)
      /\ TurnOk(turn[c], told[c].earned)
      /\ cmd.op \in {"plan", "exec", "goal", "fast"} /\ (cmd.op = "plan" => cmd.work.mode = "plan")
      /\ DOMAIN cmd.work = {"mode", "plan", "trivial"}
  BY <1>0 DEF StateInv, SessionOk, CommandOk, WriteRow, CmdAt, OnSession
<1>2. chatRow' = [chatRow EXCEPT ![c] = [new EXCEPT !.there = TRUE]]
      /\ told' = [told EXCEPT ![c].torn = Torn(c, row), ![c].fast = new.fast,
                              ![c].goal = IF Asks("goal") THEN goal.id ELSE @,
                              ![c].earned = @ \/ cmd.op \in {"exec", "goal"}]
      /\ UNCHANGED <<agentRow, turn>>
  BY <1>0 DEF WriteRow, WriteChat
<1>3. /\ DOMAIN new = {"there", "own", "work", "goal", "fast"} /\ GoalShape(new.goal)
      /\ WorkOkIf(new.work, earned)
      /\ new.goal.id = IF Asks("goal") THEN goal.id ELSE row.goal.id
      /\ ~Asks("fast") => new.fast = row.fast
  <2>1. CASE Asks("fast") BY <1>1, <2>1 DEF ChatOk, Asks, WorkOkIf
  <2>2. CASE Asks("goal") BY <1>1, <2>2 DEF ChatOk, Asks, WorkOkIf, GoalShape
  <2>3. CASE ~Asks("fast") /\ ~Asks("goal") BY <1>1, <2>3 DEF ChatOk, Asks, WorkOkIf
  <2> QED BY <2>1, <2>2, <2>3
<1>4. earned <=> told'[c].earned BY <1>1, <1>2 DEF ToldFields
<1>5. /\ DOMAIN told'[c] = ToldFields /\ told'[c].fast = new.fast
      /\ told'[c].goal = (IF Asks("goal") THEN goal.id ELSE told[c].goal)
      /\ ~told'[c].torn => ~told[c].torn /\ chatRow[c] = row
  BY <1>1, <1>2 DEF ToldFields, Torn
<1> HIDE DEF new, row, goal, earned
<1>6. /\ chatRow'[c] = [new EXCEPT !.there = TRUE]
      /\ chatRow'[c].goal = new.goal /\ chatRow'[c].fast = new.fast
      /\ chatRow'[c].work = new.work /\ chatRow'[c].there = TRUE
      /\ DOMAIN chatRow'[c] = {"there", "own", "work", "goal", "fast"}
  BY <1>1, <1>2, <1>3
<1>7. ChatOk(chatRow'[c], told'[c].earned) BY <1>3, <1>4, <1>6 DEF ChatOk, WorkOkIf
<1>8. KeysOk(c)' BY <1>1, <1>3, <1>5, <1>6 DEF KeysOk
<1>9. told[c].earned => told'[c].earned BY <1>4 DEF earned
<1>10. TurnOk(turn'[c], told'[c].earned) BY <1>1, <1>2, <1>9 DEF TurnOk, ChatOk, WorkOkIf
<1>11. SessionOk(c)' BY <1>5, <1>7, <1>8, <1>10 DEF SessionOk
<1>12. OnlySession(c) BY <1>1, <1>2, <1>9 DEF OnlySession
<1>13. CommandOk'
  <2>1. CASE cmd' = NoCommand BY <2>1, FreshIsOk DEF CommandOk, NoCommand, FreshWork, OnSession
  <2>2. CASE cmd' = [cmd EXCEPT !.at = "readAgent"] BY <1>1, <2>2 DEF CommandOk, OnSession
  <2> QED BY <2>1, <2>2 DEF WriteRow, CmdDone, CmdGoes
<1> QED BY <1>1, <1>2, <1>11, <1>12, <1>13, SessionMoves

LEMMA StateStep == StateInv /\ [StateNext]_stateVars => StateInv'
<1> SUFFICES ASSUME StateInv, [StateNext]_stateVars PROVE StateInv'
  OBVIOUS
<1>1. CASE UNCHANGED stateVars
  BY <1>1 DEF stateVars, bounds, StateInv, SessionOk, KeysOk, CommandOk
<1> QED BY <1>1, TurnsKeepState, JudgingKeepsState, RestoringKeepsState, ToolsKeepState,
           TurnsWriteRows, CommandsKeepState, CommandsRead, CommandsClear, CommandsWrite DEF StateNext

\* The goal and preference last asked for stay unless a writer wrote over another, and nobody
\* comes to execute unasked (agent_state.py, runtime.py, the writers of both rows).
THEOREM SessionIsKept == StateSpec => []SessionKeepsItsState
<1>1. StateInit => StateInv BY StateInvInit
<1>2. StateInv /\ [StateNext]_stateVars => StateInv' BY StateStep
<1>3. StateInv => SessionKeepsItsState
  BY DEF StateInv, SessionOk, KeysOk, ChatOk, WorkOkIf, SessionKeepsItsState, KeysAreKept, ExecuteIsEarned
<1> QED BY <1>1, <1>2, <1>3, PTL DEF StateSpec

-----------------------------------------------------------------------------
(* The knowledge base: what a cursor stands for, and what becomes of a page. *)

OpOk(op) ==
    /\ DOMAIN op = {"do", "page", "to", "fact"} /\ op.page \in Title
    /\ \/ op.do = "file" /\ op.to = "none" /\ op.fact \in Fact
       \/ op.do = "edit" /\ op.to = "none"
       \/ op.do = "rename" /\ op.to \in Title
FilingFields == {"at", "session", "source", "base", "feed", "manual", "ops", "op", "read"}
FilingOk(r) ==
    /\ DOMAIN r = FilingFields /\ r.source \subseteq Fact /\ r.feed \subseteq Fact
    /\ \A op \in r.ops : OpOk(op)
    /\ r.at = "writing" => OpOk(r.op)

\* What a thread has to file was filed before or is what an organizer is asked about; once
\* one has answered, all of it is.
Earning(r, ans) ==
    /\ r.at \in {"cooldown", "delta", "claim", "exploring", "last_run", "snapshot"} =>
         r.session \in KbSessions
    /\ r.at \in {"claim", "exploring"} => r.source \subseteq r.feed \union ans[r.session]
    /\ r.at \in {"last_run", "snapshot"} => r.source \subseteq ans[r.session]
CursorInv ==
    /\ DOMAIN organized = KbSessions /\ DOMAIN answered = KbSessions /\ DOMAIN filing = Filer
    /\ \A k \in Filer : FilingOk(filing[k]) /\ Earning(filing[k], answered)
    /\ CursorIsEarned

Holds(k) == FilingAt(k, "writing")
PagesOf(k) == {filing[k].op.page, filing[k].op.to} \ {"none"}

\* A thread that writes has the lock of the name its operation gives; the page it was sent to
\* is the one it would be sent to now, if nobody renamed it.
LockIsHeld(k) ==
    /\ LockName(InHand(k)) \in Title /\ pageLock[LockName(InHand(k))] = k
    /\ InHand(k).page = TargetOf(InHand(k)) \/ InHand(k).page \in torn

\* What it read is what was written there, and a rename has found its target free.
ReadIsWhole(k) ==
    LET op == InHand(k)
    IN  /\ \A w \in wrote : w[1] = op.page => op.page \in torn \/ w[2] \in filing[k].read
        /\ op.do = "rename" /\ op.to # op.page => op.to \in torn \/ ~Exists(op.to)
Overlaps(j, k) == \A p \in PagesOf(j) \intersect PagesOf(k) : p \in torn

PageInv ==
    /\ DOMAIN pageLock = Title /\ DOMAIN doc = Title
    /\ \A p \in Title : ~Exists(p) => doc[p].facts = {}
    /\ wrote \subseteq Title \X Fact /\ WrittenFactStays
    /\ \A k \in Filer : Holds(k) => LockIsHeld(k) /\ ReadIsWhole(k)
    /\ \A j, k \in Filer : Holds(j) /\ Holds(k) /\ j # k => Overlaps(j, k)

KnowledgeInv == CursorInv /\ PageInv

LEMMA KnowledgeInvInit == KbInit => KnowledgeInv
<1> SUFFICES ASSUME KbInit PROVE KnowledgeInv
  OBVIOUS
<1> USE DEF KbInit
<1>1. CursorInv
  <2>1. \A k \in Filer : filing[k] = OffFiling OBVIOUS
  <2>2. FilingOk(OffFiling) BY DEF FilingOk, OffFiling, FilingFields
  <2>3. \A k \in Filer : Earning(OffFiling, answered) BY DEF Earning, OffFiling
  <2> QED BY <2>1, <2>2, <2>3 DEF CursorInv, CursorIsEarned
<1>2. PageInv BY DEF PageInv, Holds, FilingAt, OffFiling, NoPage, WrittenFactStays, Exists
<1> QED BY <1>1, <1>2 DEF KnowledgeInv

\* Steps that leave the pages and all that write them alone.
LEMMA PagesStay ==
    ASSUME PageInv, UNCHANGED pages,
           \A k \in Filer : filing'[k].at = "writing" => filing'[k] = filing[k]
    PROVE  PageInv'
<1>1. \A k \in Filer : Holds(k)' => Holds(k) /\ filing'[k] = filing[k] BY DEF Holds, FilingAt
<1>2. \A k \in Filer : Holds(k)' => LockIsHeld(k)' /\ ReadIsWhole(k)'
  BY <1>1 DEF PageInv, pages, LockIsHeld, ReadIsWhole, InHand, LockName, TargetOf, Exists
<1>3. \A j, k \in Filer : Holds(j)' /\ Holds(k)' /\ j # k => Overlaps(j, k)'
  BY <1>1 DEF PageInv, pages, Overlaps, PagesOf
<1> QED BY <1>2, <1>3 DEF PageInv, pages, WrittenFactStays, Exists

\* One thread goes on, with an answer for its session or without.
OnlyFiler(k) ==
    /\ DOMAIN filing' = Filer /\ \A j \in Filer \ {k} : filing'[j] = filing[j]
    /\ FilingOk(filing'[k]) /\ Earning(filing'[k], answered')
    /\ DOMAIN answered' = KbSessions /\ \A s \in KbSessions : answered[s] \subseteq answered'[s]

LEMMA FilerMoves ==
    ASSUME CursorInv, NEW k \in Filer, OnlyFiler(k), CursorIsEarned', DOMAIN organized' = KbSessions
    PROVE  CursorInv'
<1>1. \A j \in Filer \ {k} : Earning(filing'[j], answered') BY DEF CursorInv, OnlyFiler, Earning
<1> QED BY <1>1 DEF CursorInv, OnlyFiler

LEMMA FilingsBegin ==
    ASSUME KnowledgeInv, NEW s \in KbSessions, NEW summary \in SUBSET Fact,
           SummaryUpdated(s, summary) \/ TriggerOrganizer(s, summary)
    PROVE  KnowledgeInv'
<1> DEFINE k == NextFiler
<1>1. k \in Filer /\ UNCHANGED <<cursors, pages>> BY DEF SummaryUpdated, TriggerOrganizer
<1> HIDE DEF k
<1>2. PICK j \in Filer : j = k BY <1>1
<1>3. PICK r : filing' = [filing EXCEPT ![j] = r] /\ FilingOk(r) /\ Earning(r, answered) /\ r.at # "writing"
  <2>1. CASE SummaryUpdated(s, summary)
    <3> DEFINE r == [OffFiling EXCEPT !.at = "cooldown", !.session = s, !.source = summary]
    <3>1. filing' = [filing EXCEPT ![j] = r] BY <1>2, <2>1 DEF SummaryUpdated, k
    <3>2. FilingOk(r) /\ Earning(r, answered) /\ r.at # "writing"
      BY DEF FilingOk, Earning, OffFiling, FilingFields
    <3> HIDE DEF r
    <3> QED BY <3>1, <3>2
  <2>2. CASE TriggerOrganizer(s, summary)
    <3> DEFINE r == [OffFiling EXCEPT !.at = "exploring", !.session = s, !.feed = summary, !.manual = TRUE]
    <3>1. filing' = [filing EXCEPT ![j] = r] BY <1>2, <2>2 DEF TriggerOrganizer, k
    <3>2. FilingOk(r) /\ Earning(r, answered) /\ r.at # "writing"
      BY DEF FilingOk, Earning, OffFiling, FilingFields
    <3> HIDE DEF r
    <3> QED BY <3>1, <3>2
  <2> QED BY <2>1, <2>2
<1>4. OnlyFiler(j) /\ CursorIsEarned' /\ DOMAIN organized' = KbSessions
  BY <1>1, <1>3 DEF OnlyFiler, KnowledgeInv, CursorInv, CursorIsEarned, cursors
<1>5. CursorInv' BY <1>4, FilerMoves DEF KnowledgeInv
<1>6. \A i \in Filer : filing'[i].at = "writing" => filing'[i] = filing[i]
  BY <1>3 DEF KnowledgeInv, CursorInv
<1>7. PageInv' BY <1>1, <1>6, PagesStay DEF KnowledgeInv
<1> QED BY <1>5, <1>7 DEF KnowledgeInv

\* What a model asks for is of a known form.
LEMMA AnswersAreOk ==
    ASSUME NEW feed \in SUBSET Fact, NEW ops \in Answers(feed), NEW op \in ops
    PROVE  OpOk(op)
<1>1. CASE op \in UNION Tidy BY <1>1 DEF Tidy, Edit, Rename, OpOk
<1>2. CASE \E hint \in [feed -> Title], f \in feed : op = File(f, hint[f])
  BY <1>2 DEF File, OpOk
<1>3. op \in UNION Tidy \/ \E hint \in [feed -> Title], f \in feed : op = File(f, hint[f])
  BY DEF Answers
<1> QED BY <1>1, <1>2, <1>3

FilingKept(k) ==
    /\ FilingOk(filing'[k]) /\ Earning(filing'[k], answered') /\ filing'[k].at # "writing"
    /\ DOMAIN answered' = KbSessions /\ \A s \in KbSessions : answered[s] \subseteq answered'[s]
    /\ CursorIsEarned' /\ DOMAIN organized' = KbSessions

LEMMA FilingsAsk ==
    ASSUME KnowledgeInv, NEW k \in Filer,
           \/ CheckCooldown(k) \/ TakeDelta(k) \/ ClaimSlot(k) \/ NoAnswer(k)
           \/ \E ops \in Answers(filing[k].feed) : OrganizerAnswers(k, ops) \/ AuthorAnswers(k, ops)
           \/ SaveLastRun(k) \/ SaveSnapshot(k) \/ OpsDone(k)
    PROVE  KnowledgeInv'
<1>0. /\ FilingOk(filing[k]) /\ Earning(filing[k], answered) /\ CursorIsEarned
      /\ DOMAIN filing = Filer /\ DOMAIN organized = KbSessions /\ DOMAIN answered = KbSessions
  BY DEF KnowledgeInv, CursorInv
<1>1. UNCHANGED pages
  BY DEF CheckCooldown, TakeDelta, ClaimSlot, NoAnswer, OrganizerAnswers, AuthorAnswers, SaveLastRun,
     SaveSnapshot, OpsDone
<1>2. DOMAIN filing' = Filer /\ \A j \in Filer \ {k} : filing'[j] = filing[j]
  BY <1>0 DEF CheckCooldown, TakeDelta, ClaimSlot, NoAnswer, OrganizerAnswers, AuthorAnswers,
     SaveLastRun, SaveSnapshot, OpsDone, FilingEnds, FilingGoes
<1>3. \A ans : FilingOk([OffFiling EXCEPT !.at = "ended"]) /\ Earning([OffFiling EXCEPT !.at = "ended"], ans)
               /\ [OffFiling EXCEPT !.at = "ended"].at = "ended"
  BY DEF FilingOk, Earning, OffFiling, FilingFields
<1>4. FilingKept(k)
  <2> USE DEF FilingKept
  <2>1. CASE FilingEnds(k) /\ UNCHANGED cursors
    <3>1. filing'[k] = [OffFiling EXCEPT !.at = "ended"] BY <1>0, <2>1 DEF FilingEnds
    <3> QED BY <1>0, <1>3, <2>1, <3>1 DEF cursors, CursorIsEarned
  <2>2. CASE CheckCooldown(k)
    <3>1. CASE cooling BY <2>1, <2>2, <3>1 DEF CheckCooldown
    <3>2. CASE ~cooling /\ kbMode = "agentic"
      BY <1>0, <2>2, <3>2 DEF CheckCooldown, FilingGoes, FilingAt, FilingOk, Earning, FilingFields,
         cursors, CursorIsEarned
    <3>3. CASE ~cooling /\ kbMode # "agentic"
      BY <1>0, <2>2, <3>3 DEF CheckCooldown, FilingAt, FilingOk, Earning, FilingFields,
         cursors, CursorIsEarned
    <3> QED BY <3>1, <3>2, <3>3
  <2>3. CASE TakeDelta(k)
    <3> DEFINE base == organized[SessionOf(k)]
               new == filing[k].source \ base
               feed == IF base = {} THEN filing[k].source ELSE new
    <3>1. CASE FilingEnds(k) BY <2>1, <2>3, <3>1 DEF TakeDelta
    <3>2. CASE filing' = [filing EXCEPT ![k].at = "claim", ![k].feed = feed]
      <4>1. filing[k].session \in KbSessions BY <1>0, <2>3 DEF TakeDelta, FilingAt, Earning
      <4>2. base \subseteq answered[filing[k].session] BY <1>0, <4>1 DEF CursorIsEarned, SessionOf
      <4>3. feed \subseteq Fact /\ filing[k].source \subseteq feed \union answered[filing[k].session]
        BY <1>0, <4>2 DEF FilingOk
      <4>4. UNCHANGED cursors BY <2>3 DEF TakeDelta
      <4> HIDE DEF feed
      <4> QED BY <1>0, <3>2, <4>1, <4>3, <4>4 DEF FilingOk, Earning, FilingFields, cursors, CursorIsEarned
    <3> QED BY <2>3, <3>1, <3>2 DEF TakeDelta
  <2>4. CASE ClaimSlot(k)
    <3>1. CASE FilingEnds(k) BY <2>1, <2>4, <3>1 DEF ClaimSlot
    <3>2. CASE FilingGoes(k, "exploring")
      BY <1>0, <2>4, <3>2 DEF ClaimSlot, FilingGoes, FilingAt, FilingOk, Earning, FilingFields,
         cursors, CursorIsEarned
    <3> QED BY <2>4, <3>1, <3>2 DEF ClaimSlot
  <2>5. CASE NoAnswer(k) BY <2>1, <2>5 DEF NoAnswer
  <2>6. CASE OpsDone(k) BY <2>1, <2>6 DEF OpsDone
  <2>7. ASSUME NEW ops \in Answers(filing[k].feed), OrganizerAnswers(k, ops)
        PROVE  FilingKept(k)
    <3> DEFINE s == SessionOf(k)
    <3>1. s \in KbSessions BY <1>0, <2>7 DEF OrganizerAnswers, FilingAt, Earning, SessionOf
    <3>2. \A op \in ops : OpOk(op) BY <1>0, AnswersAreOk DEF FilingOk
    <3>3. /\ UNCHANGED organized /\ answered' = [answered EXCEPT ![s] = @ \union filing[k].feed]
          /\ filing[k].source \subseteq filing[k].feed \union answered[s]
      BY <1>0, <2>7 DEF OrganizerAnswers, FilingAt, Earning, SessionOf
    <3>4. PICK place \in {"apply", "last_run"} :
             filing' = [filing EXCEPT ![k].at = place, ![k].ops = ops]
      BY <2>7 DEF OrganizerAnswers
    <3>5. DOMAIN answered' = KbSessions /\ (\A q \in KbSessions : answered[q] \subseteq answered'[q])
          /\ filing[k].source \subseteq answered'[s]
      BY <1>0, <3>1, <3>3
    <3>6. CursorIsEarned' BY <1>0, <3>3, <3>5 DEF CursorIsEarned
    <3>7. FilingOk(filing'[k]) /\ filing'[k].at # "writing"
      BY <1>0, <3>2, <3>4 DEF FilingOk, FilingFields
    <3>8. Earning(filing'[k], answered')
      BY <1>0, <3>1, <3>4, <3>5 DEF Earning, FilingOk, FilingFields, SessionOf
    <3> QED BY <1>0, <3>3, <3>5, <3>6, <3>7, <3>8
  <2>8. ASSUME NEW ops \in Answers(filing[k].feed), AuthorAnswers(k, ops)
        PROVE  FilingKept(k)
    <3>1. \A op \in ops : OpOk(op) BY <1>0, AnswersAreOk DEF FilingOk
    <3>2. filing' = [filing EXCEPT ![k].at = "apply", ![k].ops = ops] /\ UNCHANGED <<organized, answered>>
      BY <2>8 DEF AuthorAnswers
    <3> QED BY <1>0, <3>1, <3>2 DEF FilingOk, Earning, FilingFields, CursorIsEarned
  <2>9. CASE SaveLastRun(k)
    BY <1>0, <2>9 DEF SaveLastRun, FilingGoes, FilingAt, FilingOk, Earning, FilingFields, CursorIsEarned
  <2>10. CASE SaveSnapshot(k)
    BY <1>0, <2>10 DEF SaveSnapshot, FilingGoes, FilingAt, FilingOk, Earning, FilingFields,
       CursorIsEarned, SessionOf
  <2> QED BY <2>2, <2>3, <2>4, <2>5, <2>6, <2>7, <2>8, <2>9, <2>10
<1>5. OnlyFiler(k) BY <1>2, <1>4 DEF OnlyFiler, FilingKept
<1>6. CursorInv' BY <1>4, <1>5, FilerMoves DEF KnowledgeInv, FilingKept
<1>7. \A i \in Filer : filing'[i].at = "writing" => filing'[i] = filing[i]
  BY <1>2, <1>4 DEF FilingKept
<1>8. PageInv' BY <1>1, <1>7, PagesStay DEF KnowledgeInv
<1> QED BY <1>6, <1>8 DEF KnowledgeInv

\* The lock is taken, and the page it leads to is read.
LEMMA OperationsBegin ==
    ASSUME KnowledgeInv, NEW k \in Filer, NEW op \in filing[k].ops, BeginOp(k, op)
    PROVE  KnowledgeInv'
<1> DEFINE target == TargetOf(op)
           held == [op EXCEPT !.page = target]
<1>0. /\ FilingOk(filing[k]) /\ Earning(filing[k], answered) /\ CursorIsEarned
      /\ DOMAIN filing = Filer /\ DOMAIN organized = KbSessions /\ DOMAIN answered = KbSessions
      /\ OpOk(op) /\ PageInv
  BY DEF KnowledgeInv, CursorInv, FilingOk
<1>1. /\ FilingAt(k, "apply") /\ pageLock[LockName(op)] = NoFiler
      /\ pageLock' = [pageLock EXCEPT ![LockName(op)] = k]
      /\ torn' = torn \union Met(k, op) /\ UNCHANGED <<cursors, doc, wrote>>
  BY DEF BeginOp, Take
<1>2. target \in Title /\ LockName(op) \in Title
  BY <1>0, KbAssumption DEF TargetOf, LockName, OpOk
<1>3. /\ DOMAIN held = {"do", "page", "to", "fact"} /\ held.page = target
      /\ held.do = op.do /\ held.to = op.to /\ held.fact = op.fact
  <2>1. DOMAIN op = {"do", "page", "to", "fact"} BY <1>0 DEF OpOk
  <2> HIDE DEF target
  <2> QED BY <2>1
<1>4. OpOk(held) /\ LockName(held) = LockName(op) /\ TargetOf(held) = target
  BY <1>0, <1>2, <1>3 DEF OpOk, LockName, TargetOf
<1>5. filing' = [filing EXCEPT ![k].at = "writing", ![k].ops = @ \ {op}, ![k].op = held,
                               ![k].read = doc[target].facts]
  BY DEF BeginOp, Take
<1> HIDE DEF target, held
<1>6. /\ DOMAIN filing' = Filer /\ \A j \in Filer \ {k} : filing'[j] = filing[j]
      /\ filing'[k].op = held /\ filing'[k].read = doc[target].facts /\ filing'[k].at = "writing"
      /\ FilingOk(filing'[k]) /\ Earning(filing'[k], answered)
  <2> DEFINE r == [filing[k] EXCEPT !.at = "writing", !.ops = @ \ {op}, !.op = held,
                                    !.read = doc[target].facts]
  <2>1. DOMAIN filing[k] = FilingFields BY <1>0 DEF FilingOk
  <2>2. /\ DOMAIN r = FilingFields /\ r.at = "writing" /\ r.ops = filing[k].ops \ {op}
        /\ r.op = held /\ r.read = doc[target].facts
        /\ r.source = filing[k].source /\ r.feed = filing[k].feed
    BY <2>1 DEF FilingFields
  <2>3. filing' = [filing EXCEPT ![k] = r] BY <1>0, <1>5
  <2> HIDE DEF r
  <2>4. FilingOk(r) BY <1>0, <1>4, <2>2 DEF FilingOk
  <2>5. Earning(r, answered) BY <2>2 DEF Earning
  <2> QED BY <1>0, <2>2, <2>3, <2>4, <2>5
<1>7. CursorInv'
  <2>1. OnlyFiler(k) /\ CursorIsEarned' /\ DOMAIN organized' = KbSessions
    BY <1>0, <1>1, <1>6 DEF OnlyFiler, cursors, CursorIsEarned
  <2> QED BY <2>1, FilerMoves DEF KnowledgeInv
<1>8. \A j \in Filer \ {k} : /\ Holds(j)' <=> Holds(j)
                             /\ InHand(j)' = InHand(j) /\ PagesOf(j)' = PagesOf(j)
                             /\ LockName(InHand(j))' = LockName(InHand(j))
                            /\ TargetOf(InHand(j))' = TargetOf(InHand(j))
  BY <1>1, <1>6 DEF Holds, FilingAt, InHand, PagesOf, LockName, TargetOf, Exists
<1>9. k # NoFiler BY DEF Filer, NoFiler
<1>10. \A j \in Filer \ {k} : Holds(j) => LockName(InHand(j)) # LockName(op)
  <2> SUFFICES ASSUME NEW j \in Filer \ {k}, Holds(j) PROVE LockName(InHand(j)) # LockName(op)
    OBVIOUS
  <2>1. pageLock[LockName(InHand(j))] = j BY <1>0 DEF PageInv, LockIsHeld
  <2> QED BY <1>1, <2>1 DEF Filer, NoFiler
<1>11. \A j \in Filer \ {k} : Holds(j) => LockIsHeld(j)' /\ ReadIsWhole(j)'
  <2> SUFFICES ASSUME NEW j \in Filer \ {k}, Holds(j) PROVE LockIsHeld(j)' /\ ReadIsWhole(j)'
    OBVIOUS
  <2>1. LockIsHeld(j) /\ ReadIsWhole(j) BY <1>0 DEF PageInv
  <2>2. LockIsHeld(j)' BY <1>0, <1>1, <1>2, <1>8, <1>10, <2>1 DEF LockIsHeld, PageInv
  <2>3. ReadIsWhole(j)' BY <1>1, <1>6, <1>8, <2>1 DEF ReadIsWhole, Exists
  <2> QED BY <2>2, <2>3
<1>12. LockIsHeld(k)'
  <2>1. InHand(k)' = held BY <1>6 DEF InHand
  <2>2. LockName(InHand(k))' = LockName(op) BY <1>4, <2>1 DEF LockName
  <2>3. TargetOf(InHand(k))' = target BY <1>1, <1>4, <2>1 DEF TargetOf, Exists
  <2> QED BY <1>0, <1>1, <1>2, <1>3, <2>1, <2>2, <2>3 DEF LockIsHeld, PageInv
<1>13. ReadIsWhole(k)'
  <2>1. InHand(k)' = held BY <1>6 DEF InHand
  <2>2. \A w \in wrote : w[1] = target => target \in torn \/ w[2] \in doc[target].facts
    BY <1>0 DEF PageInv, WrittenFactStays
  <2>3. op.do = "rename" => target = op.page BY DEF target, TargetOf
  <2>4. op.do = "rename" /\ op.to # target => op.to \in torn' \/ ~Exists(op.to)
    <3> SUFFICES ASSUME op.do = "rename", op.to # target, Exists(op.to) PROVE op.to \in torn'
      OBVIOUS
    <3>1. op.to # "none" BY <1>0, KbAssumption DEF OpOk
    <3>2. op.to \in Met(k, op) BY <2>3, <3>1 DEF Met
    <3> QED BY <1>1, <3>2
  <2> QED BY <1>1, <1>3, <1>6, <2>1, <2>2, <2>4 DEF ReadIsWhole, Exists
<1>14. \A j \in Filer \ {k} : Holds(j) => Overlaps(j, k)' /\ Overlaps(k, j)'
  <2> SUFFICES ASSUME NEW j \in Filer \ {k}, Holds(j), NEW p \in PagesOf(j), p \in {target, op.to}
               PROVE  p \in torn'
    BY <1>3, <1>6, <1>8 DEF Overlaps, PagesOf
  <2>1. p # "none" /\ (p = InHand(j).page \/ p = InHand(j).to) BY DEF PagesOf, InHand
  <2>2. CASE p \in torn BY <1>1, <2>2
  <2>3. CASE p \notin torn
    <3>1. LockIsHeld(j) BY <1>0 DEF PageInv
    <3>2. Touches(j, p) BY <2>1, <2>3, <3>1 DEF Touches, LockIsHeld, Holds
    <3>3. p \in Met(k, op) BY <1>10, <2>1, <3>2 DEF Met, target
    <3> QED BY <1>1, <3>3
  <2> QED BY <2>2, <2>3
<1>15. \A i, j \in Filer \ {k} : Holds(i) /\ Holds(j) /\ i # j => Overlaps(i, j)'
  BY <1>0, <1>1, <1>8 DEF PageInv, Overlaps
<1>16. PageInv'
  <2>1. \A j \in Filer : Holds(j)' => LockIsHeld(j)' /\ ReadIsWhole(j)'
    BY <1>8, <1>11, <1>12, <1>13
  <2>2. \A i, j \in Filer : Holds(i)' /\ Holds(j)' /\ i # j => Overlaps(i, j)'
    BY <1>8, <1>14, <1>15
  <2> QED BY <1>0, <1>1, <2>1, <2>2 DEF PageInv, WrittenFactStays, Exists
<1> QED BY <1>7, <1>16 DEF KnowledgeInv

\* What a write does to the pages, whatever it was.
LEMMA WritingKeepsFacts ==
    ASSUME KnowledgeInv, NEW k \in Filer, Holds(k),
           \/ \E kept \in SUBSET filing[k].read, added \in SUBSET NewText(InHand(k)) :
                 Written(k, kept, added)
           \/ UNCHANGED <<doc, wrote, torn>>
    PROVE  /\ DOMAIN doc' = Title /\ (\A p \in Title : ~Exists(p)' => doc'[p].facts = {})
           /\ wrote' \subseteq Title \X Fact /\ WrittenFactStays' /\ torn \subseteq torn'
           /\ \A p \in Title \ PagesOf(k) : /\ doc'[p] = doc[p]
                                            /\ \A f : <<p, f>> \in wrote' => <<p, f>> \in wrote
<1> DEFINE op == InHand(k)
           read == filing[k].read
<1>1. /\ OpOk(op) /\ ReadIsWhole(k) /\ PageInv
      /\ DOMAIN doc = Title /\ (\A p \in Title : ~Exists(p) => doc[p].facts = {})
      /\ wrote \subseteq Title \X Fact /\ WrittenFactStays
  BY DEF KnowledgeInv, PageInv, CursorInv, FilingOk, InHand, Holds, FilingAt
<1>2. /\ op.page \in Title /\ op.page # "none" /\ op.page \in PagesOf(k)
      /\ op.to \in Title => op.to \in PagesOf(k)
  BY <1>1, KbAssumption DEF OpOk, PagesOf, InHand
<1>3. CASE UNCHANGED <<doc, wrote, torn>> BY <1>1, <1>3 DEF WrittenFactStays, Exists
<1>4. ASSUME NEW kept \in SUBSET read, NEW added \in SUBSET NewText(op), Written(k, kept, added)
      PROVE  /\ DOMAIN doc' = Title /\ (\A p \in Title : ~Exists(p)' => doc'[p].facts = {})
             /\ wrote' \subseteq Title \X Fact /\ WrittenFactStays' /\ torn \subseteq torn'
             /\ \A p \in Title \ PagesOf(k) : /\ doc'[p] = doc[p]
                                              /\ \A f : <<p, f>> \in wrote' => <<p, f>> \in wrote
  <2> DEFINE stays == wrote \ ({op.page} \X (read \ kept))
  <2>1. \A w \in stays : /\ w \in wrote /\ w = <<w[1], w[2]>> /\ w[1] \in Title /\ w[2] \in Fact
                         /\ w[1] = op.page => op.page \in torn \/ w[2] \in kept
    <3> SUFFICES ASSUME NEW w \in stays
                 PROVE  /\ w \in wrote /\ w = <<w[1], w[2]>> /\ w[1] \in Title /\ w[2] \in Fact
                        /\ w[1] = op.page => op.page \in torn \/ w[2] \in kept
      OBVIOUS
    <3>1. w \in wrote /\ w = <<w[1], w[2]>> /\ w[1] \in Title /\ w[2] \in Fact BY <1>1
    <3>2. ASSUME w[1] = op.page, op.page \notin torn PROVE w[2] \in kept
      <4>1. w[2] \in read BY <1>1, <3>1, <3>2 DEF ReadIsWhole
      <4> QED BY <3>1, <3>2, <4>1
    <3> QED BY <3>1, <3>2
  <2>2. added \subseteq Fact BY <1>1 DEF NewText, OpOk
  <2>3. /\ op.do = "rename" =>
             /\ doc' = [p \in Title |-> IF p = op.to THEN [there |-> TRUE, facts |-> kept]
                                        ELSE IF p = op.page THEN NoPage ELSE doc[p]]
             /\ wrote' = {w \in stays : w[1] # op.page} \union
                         {<<op.to, w[2]>> : w \in {w \in stays : w[1] = op.page}}
             /\ torn' = IF op.page \in torn THEN torn \union {op.to} ELSE torn
        /\ op.do # "rename" =>
             /\ doc' = [doc EXCEPT ![op.page] = [there |-> TRUE, facts |-> kept \union added]]
             /\ wrote' = stays \union ({op.page} \X added) /\ torn' = torn
    BY <1>4 DEF Written, Page
  <2>4. op.do = "rename" => op.to \in Title /\ (op.to # op.page => op.to \in torn \/ ~Exists(op.to))
    BY <1>1 DEF ReadIsWhole, OpOk
  <2> HIDE DEF stays, op, read
  <2>5. CASE op.do # "rename"
    <3>1. /\ doc'[op.page].facts = kept \union added /\ doc'[op.page].there /\ DOMAIN doc' = Title
          /\ \A p \in Title \ {op.page} : doc'[p] = doc[p]
      BY <1>1, <1>2, <2>3, <2>5
    <3>2. \A w \in wrote' : w \in stays \/ (\E f \in added : w = <<op.page, f>>)
      BY <2>3, <2>5
    <3>3. WrittenFactStays'
      <4> SUFFICES ASSUME NEW w \in wrote' PROVE w[1] \in torn \/ w[2] \in doc'[w[1]].facts
        BY <2>3, <2>5 DEF WrittenFactStays
      <4>1. CASE \E f \in added : w = <<op.page, f>> BY <3>1, <4>1
      <4>2. CASE w \in stays /\ w[1] = op.page BY <2>1, <3>1, <4>2
      <4>3. CASE w \in stays /\ w[1] # op.page
        <5>1. doc'[w[1]] = doc[w[1]] /\ w \in wrote BY <2>1, <3>1, <4>3
        <5> QED BY <1>1, <5>1 DEF WrittenFactStays
      <4> QED BY <3>2, <4>1, <4>2, <4>3
    <3>4. wrote' \subseteq Title \X Fact
      <4> SUFFICES ASSUME NEW w \in wrote' PROVE w \in Title \X Fact
        OBVIOUS
      <4>1. CASE w \in stays BY <1>1, <2>1, <4>1
      <4>2. CASE \E f \in added : w = <<op.page, f>> BY <1>2, <2>2, <4>2
      <4> QED BY <3>2, <4>1, <4>2
    <3>5. ASSUME NEW p \in Title \ PagesOf(k), NEW f, <<p, f>> \in wrote' PROVE <<p, f>> \in wrote
      BY <1>2, <2>1, <3>2, <3>5
    <3> QED BY <1>1, <1>2, <2>3, <2>5, <3>1, <3>3, <3>4, <3>5 DEF Exists
  <2>6. CASE op.do = "rename"
    <3>1. /\ doc'[op.to].facts = kept /\ doc'[op.to].there /\ DOMAIN doc' = Title
          /\ op.to # op.page => doc'[op.page].facts = {}
          /\ \A p \in Title \ {op.page, op.to} : doc'[p] = doc[p]
      BY <1>2, <2>3, <2>4, <2>6 DEF NoPage
    <3>2. \A w \in wrote' : \/ w \in stays /\ w[1] # op.page
                            \/ \E v \in stays : v[1] = op.page /\ w = <<op.to, v[2]>>
      BY <2>3, <2>6
    <3>3. wrote' \subseteq Title \X Fact
      <4> SUFFICES ASSUME NEW w \in wrote' PROVE w \in Title \X Fact
        OBVIOUS
      <4>1. CASE w \in stays BY <1>1, <2>1, <4>1
      <4>2. CASE \E v \in stays : w = <<op.to, v[2]>> BY <2>1, <2>4, <2>6, <4>2
      <4> QED BY <3>2, <4>1, <4>2
    <3>4. WrittenFactStays'
      <4> SUFFICES ASSUME NEW w \in wrote' PROVE w[1] \in torn' \/ w[2] \in doc'[w[1]].facts
        BY DEF WrittenFactStays
      <4>1. CASE w \in stays /\ w[1] # op.page /\ w[1] # op.to
        <5>1. doc'[w[1]] = doc[w[1]] /\ w \in wrote BY <2>1, <3>1, <4>1
        <5>2. torn \subseteq torn' BY <2>3, <2>6
        <5> QED BY <1>1, <5>1, <5>2 DEF WrittenFactStays
      <4>2. CASE w \in stays /\ w[1] # op.page /\ w[1] = op.to
        <5>1. op.to \in torn \/ w[2] \in doc[op.to].facts BY <1>1, <2>1, <4>2 DEF WrittenFactStays
        <5>2. op.to \in torn BY <1>1, <2>4, <2>6, <4>2, <5>1
        <5> QED BY <2>3, <2>6, <4>2, <5>2
      <4>3. CASE \E v \in stays : v[1] = op.page /\ w = <<op.to, v[2]>>
        BY <2>1, <2>3, <2>6, <3>1, <4>3
      <4> QED BY <3>2, <4>1, <4>2, <4>3
    <3>5. ASSUME NEW p \in Title \ PagesOf(k), NEW f, <<p, f>> \in wrote' PROVE <<p, f>> \in wrote
      <4>1. p # op.page /\ p # op.to BY <1>2, <2>4, <2>6
      <4> QED BY <2>1, <3>2, <3>5, <4>1
    <3>6. \A p \in Title : ~Exists(p)' => doc'[p].facts = {}
      BY <1>1, <2>4, <2>6, <3>1 DEF Exists
    <3> QED BY <1>2, <2>3, <2>4, <2>6, <3>1, <3>3, <3>4, <3>5, <3>6
  <2> QED BY <2>5, <2>6
<1> QED BY <1>3, <1>4

LEMMA OperationsEnd ==
    ASSUME KnowledgeInv, NEW k \in Filer, NEW ok \in BOOLEAN, NEW goesOn \in BOOLEAN, EndOp(k, ok, goesOn)
    PROVE  KnowledgeInv'
<1>0. /\ FilingOk(filing[k]) /\ Earning(filing[k], answered) /\ CursorIsEarned
      /\ DOMAIN filing = Filer /\ DOMAIN organized = KbSessions /\ DOMAIN answered = KbSessions
      /\ PageInv /\ Holds(k)
  BY DEF KnowledgeInv, CursorInv, EndOp, Holds
<1>1. /\ pageLock' = [p \in Title |-> IF pageLock[p] = k THEN NoFiler ELSE pageLock[p]]
      /\ UNCHANGED cursors
      /\ \/ \E kept \in SUBSET filing[k].read, added \in SUBSET NewText(InHand(k)) :
               Written(k, kept, added)
         \/ UNCHANGED <<doc, wrote, torn>>
  BY DEF EndOp
<1>2. /\ DOMAIN filing' = Filer /\ (\A j \in Filer \ {k} : filing'[j] = filing[j])
      /\ filing'[k].at = "apply" /\ FilingOk(filing'[k]) /\ Earning(filing'[k], answered)
  <2>1. DOMAIN filing[k] = FilingFields
    BY <1>0 DEF FilingOk
  <2>2. DOMAIN filing' = Filer /\ (\A j \in Filer \ {k} : filing'[j] = filing[j])
    BY <1>0 DEF EndOp
  <2>3. /\ DOMAIN filing'[k] = FilingFields /\ filing'[k].at = "apply"
        /\ filing'[k].source = filing[k].source /\ filing'[k].feed = filing[k].feed
    BY <1>0, <2>1 DEF EndOp, FilingFields
  <2>4. filing'[k].ops \subseteq filing[k].ops
    <3> DEFINE rest == {op \in filing[k].ops : goesOn}
    <3>1. filing' = [filing EXCEPT ![k] = [@ EXCEPT !.at = "apply", !.op = NoOp, !.read = {},
                                                    !.ops = rest]]
      BY DEF EndOp
    <3>2. rest \subseteq filing[k].ops
      OBVIOUS
    <3> HIDE DEF rest
    <3>3. filing'[k].ops = rest
      BY <1>0, <2>1, <3>1 DEF FilingFields
    <3> QED BY <3>2, <3>3
  <2>5. FilingOk(filing'[k]) /\ Earning(filing'[k], answered)
    BY <1>0, <2>3, <2>4 DEF FilingOk, Earning
  <2> QED BY <2>2, <2>3, <2>5
<1>3. CursorInv'
  <2>1. OnlyFiler(k) /\ CursorIsEarned' /\ DOMAIN organized' = KbSessions
    BY <1>0, <1>1, <1>2 DEF OnlyFiler, cursors, CursorIsEarned
  <2> QED BY <2>1, FilerMoves DEF KnowledgeInv
<1>4. /\ DOMAIN doc' = Title /\ (\A p \in Title : ~Exists(p)' => doc'[p].facts = {})
      /\ wrote' \subseteq Title \X Fact /\ WrittenFactStays' /\ torn \subseteq torn'
      /\ \A p \in Title \ PagesOf(k) : /\ doc'[p] = doc[p]
                                       /\ \A f : <<p, f>> \in wrote' => <<p, f>> \in wrote
  BY <1>0, <1>1, WritingKeepsFacts
<1>5. \A j \in Filer : Holds(j)' => j # k /\ Holds(j) /\ filing'[j] = filing[j]
  BY <1>2 DEF Holds, FilingAt
<1>6. \A i, j \in Filer : Holds(i)' /\ Holds(j)' /\ i # j => Overlaps(i, j)'
  BY <1>0, <1>4, <1>5 DEF PageInv, Overlaps, PagesOf
<1>7. ASSUME NEW j \in Filer, Holds(j)' PROVE LockIsHeld(j)' /\ ReadIsWhole(j)'
  <2> DEFINE op == InHand(j)
  <2>1. /\ j # k /\ Holds(j) /\ filing'[j] = filing[j] /\ LockIsHeld(j) /\ ReadIsWhole(j)
        /\ Overlaps(j, k) /\ OpOk(op)
    BY <1>0, <1>5, <1>7 DEF PageInv, KnowledgeInv, CursorInv, FilingOk, InHand, Holds, FilingAt
  <2>2. op.page \in PagesOf(j) /\ (op.to \in Title => op.to \in PagesOf(j))
    BY <2>1, KbAssumption DEF OpOk, PagesOf, InHand
  <2>3. \A p \in PagesOf(j) : p \in torn' \/ p \notin PagesOf(k) BY <1>4, <2>1 DEF Overlaps
  <2>4. InHand(j)' = op /\ LockName(InHand(j))' = LockName(op) BY <2>1 DEF InHand, LockName
  <2>5. LockIsHeld(j)'
    <3>1. pageLock'[LockName(op)] = j BY <1>1, <2>1 DEF LockIsHeld
    <3>2. op.page \in torn' \/ op.page = TargetOf(op)'
      <4> SUFFICES ASSUME op.page \notin torn' PROVE op.page = TargetOf(op)'
        OBVIOUS
      <4>1. op.page \notin torn /\ op.page \notin PagesOf(k) BY <1>4, <2>2, <2>3
      <4>2. op.page = TargetOf(op) BY <2>1, <4>1 DEF LockIsHeld
      <4>3. doc'[op.page] = doc[op.page] BY <1>4, <2>1, <4>1 DEF OpOk
      <4> QED BY <2>4, <4>2, <4>3 DEF TargetOf, Exists
    <3> QED BY <2>1, <2>4, <3>1, <3>2 DEF LockIsHeld
  <2>6. ReadIsWhole(j)'
    <3>1. ASSUME NEW w \in wrote', w[1] = op.page PROVE op.page \in torn' \/ w[2] \in filing[j].read
      <4> SUFFICES ASSUME op.page \notin torn' PROVE w[2] \in filing[j].read
        OBVIOUS
      <4>1. op.page \notin torn /\ op.page \notin PagesOf(k) /\ op.page \in Title
        BY <1>4, <2>1, <2>2, <2>3 DEF OpOk
      <4>2. w = <<op.page, w[2]>> BY <1>4, <3>1
      <4>3. w \in wrote BY <1>4, <4>1, <4>2
      <4> QED BY <2>1, <3>1, <4>1, <4>3 DEF ReadIsWhole
    <3>2. ASSUME op.do = "rename", op.to # op.page PROVE op.to \in torn' \/ ~Exists(op.to)'
      <4> SUFFICES ASSUME op.to \notin torn' PROVE ~Exists(op.to)'
        OBVIOUS
      <4>1. op.to \in Title BY <2>1, <3>2 DEF OpOk
      <4>2. op.to \notin torn /\ op.to \notin PagesOf(k) BY <1>4, <2>2, <2>3, <4>1
      <4>3. ~Exists(op.to) BY <2>1, <3>2, <4>2 DEF ReadIsWhole
      <4>4. doc'[op.to] = doc[op.to] BY <1>4, <4>1, <4>2
      <4> QED BY <2>4, <4>3, <4>4 DEF Exists
    <3> QED BY <2>1, <2>4, <3>1, <3>2 DEF ReadIsWhole, Exists
  <2> QED BY <2>5, <2>6
<1>8. PageInv' BY <1>1, <1>4, <1>6, <1>7 DEF PageInv
<1> QED BY <1>3, <1>8 DEF KnowledgeInv

LEMMA DyingKeepsKnowledge == KnowledgeInv /\ KbServerDies => KnowledgeInv'
<1> SUFFICES ASSUME KnowledgeInv, KbServerDies PROVE KnowledgeInv'
  OBVIOUS
<1>1. /\ DOMAIN filing' = Filer /\ UNCHANGED <<cursors, doc, wrote, torn>>
      /\ pageLock' = [p \in Title |-> NoFiler]
      /\ \A k \in Filer : filing'[k] = filing[k] \/ filing'[k] = [OffFiling EXCEPT !.at = "ended"]
      /\ \A k \in Filer : FilingAt(k, "off") <=> filing[k].at = "off"
      /\ \A k \in Filer : filing'[k] = filing[k] => filing[k].at # "writing"
  BY DEF KbServerDies, FilingAt, OffFiling
<1>2. \A ans : FilingOk([OffFiling EXCEPT !.at = "ended"]) /\ Earning([OffFiling EXCEPT !.at = "ended"], ans)
               /\ [OffFiling EXCEPT !.at = "ended"].at = "ended"
  BY DEF FilingOk, Earning, OffFiling, FilingFields
<1>3. CursorInv'
  BY <1>1, <1>2 DEF KnowledgeInv, CursorInv, cursors, CursorIsEarned
<1>4. \A k \in Filer : ~Holds(k)' BY <1>1, <1>2 DEF Holds, FilingAt
<1>5. PageInv' BY <1>1, <1>4 DEF KnowledgeInv, PageInv, WrittenFactStays, Exists
<1> QED BY <1>3, <1>5 DEF KnowledgeInv

LEMMA KnowledgeStep == KnowledgeInv /\ [KbNext]_kbVars => KnowledgeInv'
<1> SUFFICES ASSUME KnowledgeInv, [KbNext]_kbVars PROVE KnowledgeInv'
  OBVIOUS
<1>1. CASE IntervalPasses \/ DebouncePasses \/ UNCHANGED kbVars
  <2>1. UNCHANGED <<organized, answered, filing, pages>>
    BY <1>1 DEF IntervalPasses, DebouncePasses, kbVars, cursors, pages
  <2>2. CursorInv' BY <2>1 DEF KnowledgeInv, CursorInv, CursorIsEarned
  <2>3. PageInv' BY <2>1, PagesStay DEF KnowledgeInv
  <2> QED BY <2>2, <2>3 DEF KnowledgeInv
<1> QED BY <1>1, FilingsBegin, FilingsAsk, OperationsBegin, OperationsEnd, DyingKeepsKnowledge DEF KbNext

\* What a cursor calls filed was given to an organizer that answered, and a fact stays on its
\* page until a write that had read it takes it out, unless the page was under two names
\* (memory_manager.py, evomem_writer.py).
THEOREM FactsAreKept == KbSpec => []KnowledgeIsKept
<1>1. KbInit => KnowledgeInv BY KnowledgeInvInit
<1>2. KnowledgeInv /\ [KbNext]_kbVars => KnowledgeInv' BY KnowledgeStep
<1>3. KnowledgeInv => KnowledgeIsKept BY DEF KnowledgeInv, CursorInv, PageInv, KnowledgeIsKept
<1> QED BY <1>1, <1>2, <1>3, PTL DEF KbSpec

-----------------------------------------------------------------------------
(* The queue of a chat: a worker is registered as long as there is text. *)

WorkerInv ==
    /\ registered \in BOOLEAN /\ wPlace # "exit" /\ (registered <=> wPlace # "none")
    /\ chatQueue # <<>> /\ running => registered

\* With no item but its own, a text breaks nothing: an error needs an item put back.
LEMMA TextsAreQueued == ASSUME WorkerInv, Enqueue PROVE WorkerInv'
<1> DEFINE q == Pooled(toSend)
           broken == toSend \in FinalTexts /\ Len(q) >= 2 /\ ~q[1].whole /\ ~q[1].final
<1>1. UNCHANGED running BY DEF Enqueue
<1>2. CASE ~running BY <1>1, <1>2 DEF WorkerInv, Enqueue
<1>3. CASE running /\ broken
  <2>1. UNCHANGED <<registered, wPlace>> BY <1>3 DEF Enqueue
  <2>2. chatQueue # <<>>
    <3> SUFFICES ASSUME chatQueue = <<>> PROVE FALSE
      OBVIOUS
    <3>1. q = <<Item(<<toSend>>, toSend \in FinalTexts)>> BY DEF Pooled
    <3> QED BY <1>3, <3>1
  <2> QED BY <1>1, <1>3, <2>1, <2>2 DEF WorkerInv
<1>4. CASE running /\ ~broken
  <2>1. registered' = TRUE /\ wPlace' = IF registered THEN wPlace ELSE "look" BY <1>4 DEF Enqueue
  <2> QED BY <1>1, <1>4, <2>1 DEF WorkerInv
<1> QED BY <1>2, <1>3, <1>4

LEMMA WorkerInvStep == ASSUME WorkerInv, [DispatchNext]_dispatchVars PROVE WorkerInv'
<1>1. CASE UNCHANGED dispatchVars BY <1>1 DEF WorkerInv, dispatchVars
<1>2. CASE Enqueue BY <1>2, TextsAreQueued
<1>3. CASE WorkerFindsNothing BY <1>3 DEF WorkerInv, WorkerFindsNothing
<1>4. CASE WorkerTakes
  <2>1. /\ wPlace = "look" /\ wPlace' \in {"dead", "deliver"} /\ running /\ chatQueue # <<>>
        /\ UNCHANGED <<registered, running>>
    BY <1>4 DEF WorkerTakes
  <2> QED BY <2>1 DEF WorkerInv
<1>5. CASE WorkerStops BY <1>5 DEF WorkerInv, WorkerStops
<1>6. CASE Requeue
  <2>1. registered BY <1>6 DEF Requeue, WorkerInv
  <2> QED BY <1>6, <2>1 DEF WorkerInv, Requeue
<1>7. CASE DeliverText(TRUE) \/ DeliverText(FALSE) \/ Throttle
  BY <1>7 DEF WorkerInv, DeliverText, Throttle
<1>8. CASE PoolCloses \/ PauseSending \/ ResumeSending \/ ShutDown
  BY <1>8 DEF WorkerInv, PoolCloses, PauseSending, ResumeSending, ShutDown
<1> QED BY <1>1, <1>2, <1>3, <1>4, <1>5, <1>6, <1>7, <1>8 DEF DispatchNext, WorkerStep

-----------------------------------------------------------------------------
(* The queue of a chat: sequences that are joined.  FlattenSeq is a recursive  *)
(* function; what it returns for a sequence of any length is shown by the      *)
(* least number at which the claim would fail.                                 *)

LEMMA LeastElement ==
  ASSUME NEW S \in SUBSET Nat, S # {}
  PROVE  \E n \in S : \A k \in S : n <= k
<1> DEFINE Segments == {1..n : n \in S}
<1>1. Segments \subseteq FiniteSubsetsOf(Nat)
  <2> SUFFICES ASSUME NEW n \in S PROVE 1..n \in FiniteSubsetsOf(Nat)
    OBVIOUS
  <2>1. IsFiniteSet(1..n)
    BY FS_Interval
  <2>2. QED
    BY <2>1 DEF FiniteSubsetsOf
<1>2. PICK s \in Segments : \A r \in Segments : <<r, s>> \notin StrictSubsetOrdering(Nat)
  <2>1. Segments # {}
    OBVIOUS
  <2> HIDE DEF Segments
  <2>2. QED
    BY <1>1, <2>1, FS_StrictSubsetOrderingWellFounded, WFMin
<1>3. PICK n \in S : s = 1..n
  OBVIOUS
<1>4. ASSUME NEW k \in S, k < n PROVE FALSE
  <2>1. 1..k \in Segments /\ 1..k \subseteq 1..n /\ n \in 1..n /\ n \notin 1..k
    BY <1>4
  <2>4. 1..k \in SUBSET Nat /\ 1..n \in SUBSET Nat
    OBVIOUS
  <2>2. <<1..k, s>> \in StrictSubsetOrdering(Nat)
    BY <1>3, <2>1, <2>4 DEF StrictSubsetOrdering
  <2>3. QED
    BY <1>2, <2>1, <2>2
<1>5. QED
  BY <1>4

\* Induction: what holds of 0 and is passed on holds of every number up to n.
LEMMA NoGapUpTo ==
  ASSUME NEW n \in Nat, NEW T \in SUBSET Nat, 0 \in T,
         \A k \in 0..(n - 1) : k \in T => k + 1 \in T
  PROVE  0..n \subseteq T
<1> SUFFICES ASSUME NEW b \in 0..n, b \notin T PROVE FALSE
  OBVIOUS
<1> DEFINE B == {k \in 0..n : k \notin T}
<1>1. PICK m \in B : \A k \in B : m <= k
  <2>1. B \in SUBSET Nat /\ B # {}
    OBVIOUS
  <2> HIDE DEF B
  <2>2. QED
    BY <2>1, LeastElement
<1>2. m # 0 /\ m - 1 \in 0..(n - 1) /\ m - 1 \notin B
  BY <1>1
<1>3. QED
  BY <1>1, <1>2

\* What FlattenSeq builds up: the sequences joined so far, one more at a time.
Joins(F, s) ==
  F = [i \in 1..Len(s) |-> IF i = 1 THEN s[i] ELSE F[i - 1] \o s[i]]

JoinsUpTo(F, s, n) ==
  F = [i \in 1..n |-> IF i = 1 THEN s[i] ELSE F[i - 1] \o s[i]]

LEMMA JoinsExist ==
  ASSUME NEW s, Len(s) \in Nat
  PROVE  \E f : Joins(f, s)
<1> DEFINE Built(n) == \E f : JoinsUpTo(f, s, n)
           T == {n \in Nat : Built(n)}
<1>1. Built(0)
  <2> DEFINE F == [i \in 1..0 |-> s[i]]
  <2>1. F = [i \in 1..0 |-> IF i = 1 THEN s[i] ELSE F[i - 1] \o s[i]]
    OBVIOUS
  <2> HIDE DEF F
  <2>2. JoinsUpTo(F, s, 0)
    BY <2>1 DEF JoinsUpTo
  <2>3. QED
    BY <2>2
<1>2. ASSUME NEW n \in Nat, Built(n) PROVE Built(n + 1)
  <2>1. PICK G : JoinsUpTo(G, s, n)
    BY <1>2
  <2> DEFINE F == [i \in 1..(n + 1) |-> IF i = 1 THEN s[i] ELSE G[i - 1] \o s[i]]
  <2>0. \A i \in 1..n : G[i] = IF i = 1 THEN s[i] ELSE G[i - 1] \o s[i]
    BY <2>1, Zenon DEF JoinsUpTo
  <2>2. \A i \in 1..n : F[i] = G[i]
    BY <2>0
  <2>3. \A i \in 1..(n + 1) : i # 1 => i - 1 \in 1..n
    OBVIOUS
  <2>4. F = [i \in 1..(n + 1) |-> IF i = 1 THEN s[i] ELSE F[i - 1] \o s[i]]
    BY <2>2, <2>3
  <2> HIDE DEF F
  <2>5. JoinsUpTo(F, s, n + 1)
    BY <2>4 DEF JoinsUpTo
  <2>6. QED
    BY <2>5
<1> HIDE DEF Built
<1>3. T \in SUBSET Nat /\ 0 \in T /\ \A k \in 0..(Len(s) - 1) : k \in T => k + 1 \in T
  BY <1>1, <1>2
<1> HIDE DEF T
<1>4. 0..Len(s) \subseteq T
  BY <1>3, NoGapUpTo
<1>5. Len(s) \in T
  BY <1>4
<1>6. QED
  BY <1>5 DEF T, Built, Joins, JoinsUpTo

LEMMA FlattenJoins ==
  ASSUME NEW s, Len(s) \in Nat \ {0}
  PROVE  \E F : Joins(F, s) /\ FlattenSeq(s) = F[Len(s)]
<1> DEFINE F == CHOOSE f : Joins(f, s)
<1>1. Joins(F, s)
  BY JoinsExist
<1>2. FlattenSeq(s) = F[Len(s)]
  BY DEF FlattenSeq, Joins
<1>3. QED
  BY <1>1, <1>2

\* Texts in the order in which they were queued.
Increasing(x) == \A i, j \in DOMAIN x : i < j => x[i] < x[j]
Precedes(x, y) == \A i \in DOMAIN x, j \in DOMAIN y : x[i] < y[j]
Below(x, m) == \A i \in DOMAIN x : x[i] < m

\* y holds nothing but texts of the first n sequences of s.
MadeOf(y, s, n) == \A a \in DOMAIN y : \E i \in 1..n : \E b \in DOMAIN s[i] : y[a] = s[i][b]

LEMMA JoinTwo ==
  ASSUME NEW x \in Seq(Nat), NEW y \in Seq(Nat), Increasing(x), Increasing(y), Precedes(x, y)
  PROVE  /\ x \o y \in Seq(Nat) /\ Increasing(x \o y)
         /\ \A a \in DOMAIN (x \o y) : \/ \E b \in DOMAIN x : (x \o y)[a] = x[b]
                                       \/ \E b \in DOMAIN y : (x \o y)[a] = y[b]
<1> DEFINE z == x \o y
<1>1. /\ Len(x) \in Nat /\ DOMAIN x = 1..Len(x) /\ \A i \in 1..Len(x) : x[i] \in Nat
      /\ Len(y) \in Nat /\ DOMAIN y = 1..Len(y) /\ \A i \in 1..Len(y) : y[i] \in Nat
  OBVIOUS
<1>2. /\ z \in Seq(Nat) /\ Len(z) = Len(x) + Len(y) /\ DOMAIN z = 1..(Len(x) + Len(y))
      /\ \A i \in 1..(Len(x) + Len(y)) : z[i] = IF i <= Len(x) THEN x[i] ELSE y[i - Len(x)]
  BY ConcatProperties, LenProperties
<1> HIDE DEF z
<1>3. ASSUME NEW i \in DOMAIN z
      PROVE  /\ i \in Nat
             /\ i <= Len(x) => i \in DOMAIN x /\ z[i] = x[i]
             /\ ~(i <= Len(x)) => i - Len(x) \in DOMAIN y /\ z[i] = y[i - Len(x)]
  <2>1. i \in 1..(Len(x) + Len(y)) /\ z[i] = IF i <= Len(x) THEN x[i] ELSE y[i - Len(x)]
    BY <1>2
  <2>2. i \in Nat /\ Len(x) \in Nat /\ Len(y) \in Nat /\ 1 <= i /\ i <= Len(x) + Len(y)
    BY <1>1, <2>1
  <2>3. i <= Len(x) => i \in 1..Len(x)
    BY <2>2
  <2>4. ~(i <= Len(x)) => i - Len(x) \in 1..Len(y)
    BY <2>2
  <2>5. QED
    BY <1>1, <2>1, <2>2, <2>3, <2>4
<1>4. \A a \in DOMAIN z : \/ \E b \in DOMAIN x : z[a] = x[b]
                          \/ \E b \in DOMAIN y : z[a] = y[b]
  BY <1>3
<1>5. ASSUME NEW i \in DOMAIN z, NEW j \in DOMAIN z, i < j PROVE z[i] < z[j]
  <2>1. CASE j <= Len(x)
    <3>1. i <= Len(x)
      BY <1>1, <1>3, <1>5, <2>1
    <3>2. QED
      BY <1>3, <1>5, <2>1, <3>1 DEF Increasing
  <2>2. CASE ~(i <= Len(x))
    <3>1. ~(j <= Len(x)) /\ i - Len(x) < j - Len(x)
      BY <1>1, <1>3, <1>5, <2>2
    <3>2. /\ i - Len(x) \in DOMAIN y /\ j - Len(x) \in DOMAIN y
          /\ z[i] = y[i - Len(x)] /\ z[j] = y[j - Len(x)]
      BY <1>3, <2>2, <3>1
    <3>3. QED
      BY <3>1, <3>2 DEF Increasing
  <2>3. CASE i <= Len(x) /\ ~(j <= Len(x))
    BY <1>3, <2>3 DEF Precedes
  <2>4. QED
    BY <2>1, <2>2, <2>3
<1>6. QED
  BY <1>2, <1>4, <1>5 DEF Increasing, z

\* Sequences that are in order, joined, are one sequence in order of the same texts.
LEMMA FlattenOrdered ==
  ASSUME NEW s, Len(s) \in Nat \ {0},
         \A i \in 1..Len(s) : s[i] \in Seq(Nat) /\ Increasing(s[i]),
         \A i, j \in 1..Len(s) : i < j => Precedes(s[i], s[j])
  PROVE  /\ FlattenSeq(s) \in Seq(Nat) /\ Increasing(FlattenSeq(s))
         /\ MadeOf(FlattenSeq(s), s, Len(s))
<1>1. PICK f : Joins(f, s) /\ FlattenSeq(s) = f[Len(s)]
  BY FlattenJoins
<1>2. \A i \in 1..Len(s) : f[i] = IF i = 1 THEN s[i] ELSE f[i - 1] \o s[i]
  BY <1>1, Zenon DEF Joins
<1> DEFINE Good(n) == n \in 1..Len(s) => /\ f[n] \in Seq(Nat) /\ Increasing(f[n])
                                         /\ MadeOf(f[n], s, n)
           T == {n \in Nat : Good(n)}
<1>3. Good(0)
  OBVIOUS
<1>4. ASSUME NEW n \in Nat, Good(n) PROVE Good(n + 1)
  <2> SUFFICES ASSUME n + 1 \in 1..Len(s)
               PROVE  /\ f[n + 1] \in Seq(Nat) /\ Increasing(f[n + 1])
                      /\ MadeOf(f[n + 1], s, n + 1)
    OBVIOUS
  <2> HIDE DEF Good
  <2>1. CASE n = 0
    <3>1. f[n + 1] = s[n + 1]
      BY <1>2, <2>1
    <3>2. MadeOf(s[n + 1], s, n + 1)
      BY DEF MadeOf
    <3>3. QED
      BY <3>1, <3>2
  <2>2. CASE n # 0
    <3> DEFINE x == f[n]
               y == s[n + 1]
    <3>1. n \in 1..Len(s) /\ n + 1 # 1 /\ (n + 1) - 1 = n
      BY <2>2
    <3>2. f[n + 1] = x \o y
      BY <1>2, <3>1
    <3>3. x \in Seq(Nat) /\ Increasing(x) /\ MadeOf(x, s, n)
      BY <1>4, <3>1 DEF Good
    <3>4. y \in Seq(Nat) /\ Increasing(y)
      OBVIOUS
    <3>5. Precedes(x, y)
      <4> SUFFICES ASSUME NEW a \in DOMAIN x, NEW b \in DOMAIN y PROVE x[a] < y[b]
        BY DEF Precedes
      <4>1. PICK i \in 1..n : \E c \in DOMAIN s[i] : x[a] = s[i][c]
        BY <3>3 DEF MadeOf
      <4>2. PICK c \in DOMAIN s[i] : x[a] = s[i][c]
        BY <4>1
      <4>3. i \in 1..Len(s) /\ i < n + 1
        BY <3>1
      <4>4. Precedes(s[i], y)
        BY <4>3
      <4>5. QED
        BY <4>2, <4>4 DEF Precedes
    <3> HIDE DEF x, y
    <3>6. /\ x \o y \in Seq(Nat) /\ Increasing(x \o y)
          /\ \A a \in DOMAIN (x \o y) : \/ \E b \in DOMAIN x : (x \o y)[a] = x[b]
                                        \/ \E b \in DOMAIN y : (x \o y)[a] = y[b]
      BY <3>3, <3>4, <3>5, JoinTwo
    <3>7. MadeOf(x \o y, s, n + 1)
      <4> SUFFICES ASSUME NEW a \in DOMAIN (x \o y)
                   PROVE  \E i \in 1..(n + 1) : \E b \in DOMAIN s[i] : (x \o y)[a] = s[i][b]
        BY DEF MadeOf
      <4>1. CASE \E b \in DOMAIN x : (x \o y)[a] = x[b]
        <5>1. PICK b \in DOMAIN x : (x \o y)[a] = x[b]
          BY <4>1
        <5>2. PICK i \in 1..n : \E c \in DOMAIN s[i] : x[b] = s[i][c]
          BY <3>3 DEF MadeOf
        <5>3. i \in 1..(n + 1)
          OBVIOUS
        <5>4. QED
          BY <5>1, <5>2, <5>3
      <4>2. CASE \E b \in DOMAIN y : (x \o y)[a] = y[b]
        <5>1. n + 1 \in 1..(n + 1)
          OBVIOUS
        <5>2. QED
          BY <4>2, <5>1 DEF y
      <4>3. QED
        BY <3>6, <4>1, <4>2
    <3>8. QED
      BY <3>2, <3>6, <3>7 DEF x, y
  <2>3. QED
    BY <2>1, <2>2
<1> HIDE DEF Good
<1>5. T \in SUBSET Nat /\ 0 \in T /\ \A k \in 0..(Len(s) - 1) : k \in T => k + 1 \in T
  BY <1>3, <1>4
<1> HIDE DEF T
<1>6. 0..Len(s) \subseteq T
  BY <1>5, NoGapUpTo
<1>7. Len(s) \in T
  BY <1>6
<1>8. QED
  BY <1>1, <1>7 DEF T, Good

-----------------------------------------------------------------------------
(* The queue: every item is in order, after what was sent and what the worker  *)
(* holds, and before the items behind it.                                      *)

Items == [texts : Seq(Nat), final : BOOLEAN, whole : BOOLEAN]

\* Texts that come after x and y, numbered below m.
Follows(u, x, y, m) == Increasing(u) /\ Below(u, m) /\ Precedes(x, u) /\ Precedes(y, u)

QueueFits(q, x, y, m) ==
    /\ q \in Seq(Items)
    /\ \A i \in 1..Len(q) : Follows(q[i].texts, x, y, m)
    /\ \A i, j \in 1..Len(q) : i < j => Precedes(q[i].texts, q[j].texts)

LEMMA QueueOfItems ==
  ASSUME NEW q \in Seq(Items), NEW i \in 1..Len(q)
  PROVE  q[i] \in Items /\ q[i].texts \in Seq(Nat) /\ q[i].final \in BOOLEAN
<1>1. q[i] \in Items
  BY ElementOfSeq
<1>2. QED
  BY <1>1 DEF Items

\* The items taken from the head of the queue are one sequence of texts.
LEMMA FrontFits ==
  ASSUME NEW q, NEW x, NEW y, NEW m \in Nat, QueueFits(q, x, y, m), NEW n \in 1..Len(q)
  PROVE  LET u == TextsOf(SubSeq(q, 1, n))
         IN /\ u \in Seq(Nat) /\ Follows(u, x, y, m)
            /\ \A j \in (n + 1)..Len(q) : Precedes(u, q[j].texts)
<1> DEFINE p == SubSeq(q, 1, n)
           s == [i \in DOMAIN p |-> p[i].texts]
           u == TextsOf(p)
<1>1. q \in Seq(Items) /\ Len(q) \in Nat /\ n \in Nat /\ 1 <= n /\ n <= Len(q)
  BY DEF QueueFits
<1>2. /\ p \in Seq(Items) /\ Len(p) = n /\ DOMAIN p = 1..n
      /\ \A i \in 1..n : p[i] = q[i]
  <2>1. \A i \in 1..n : i \in 1..Len(q) /\ q[i] \in Items
    BY <1>1, QueueOfItems
  <2>2. /\ p \in Seq(Items) /\ Len(p) = IF 1 <= n THEN n - 1 + 1 ELSE 0
        /\ \A i \in 1..(n - 1 + 1) : p[i] = q[1 + i - 1]
    <3>1. 1 \in Int /\ n \in Int /\ \A i \in 1..n : q[i] \in Items
      BY <1>1, <2>1
    <3>2. QED
      BY <3>1, SubSeqProperties
  <2>3. DOMAIN p = 1..Len(p)
    BY <2>2, LenProperties
  <2>4. QED
    BY <1>1, <2>2, <2>3
<1> HIDE DEF p
<1>3. Len(s) = n /\ \A i \in 1..n : s[i] = q[i].texts
  BY <1>2
<1>4. \A i \in 1..n : i \in 1..Len(q) /\ s[i] \in Seq(Nat) /\ Follows(s[i], x, y, m)
  <2> SUFFICES ASSUME NEW i \in 1..n
               PROVE  i \in 1..Len(q) /\ s[i] \in Seq(Nat) /\ Follows(s[i], x, y, m)
    OBVIOUS
  <2>1. i \in 1..Len(q)
    BY <1>1
  <2>2. q[i].texts \in Seq(Nat) /\ Follows(q[i].texts, x, y, m)
    BY <1>1, <2>1, QueueOfItems DEF QueueFits
  <2>3. QED
    BY <1>3, <2>1, <2>2
<1>5. \A i, j \in 1..n : i < j => Precedes(s[i], s[j])
  BY <1>1, <1>3, <1>4 DEF QueueFits
<1>6. u = FlattenSeq(s)
  BY DEF TextsOf
<1> HIDE DEF s, u
<1>7. u \in Seq(Nat) /\ Increasing(u) /\ MadeOf(u, s, n)
  <2>1. /\ Len(s) \in Nat \ {0}
        /\ \A i \in 1..Len(s) : s[i] \in Seq(Nat) /\ Increasing(s[i])
        /\ \A i, j \in 1..Len(s) : i < j => Precedes(s[i], s[j])
    BY <1>1, <1>3, <1>4, <1>5 DEF Follows
  <2>2. QED
    BY <1>3, <1>6, <2>1, FlattenOrdered
<1>8. \A a \in DOMAIN u : \E i \in 1..n : \E b \in DOMAIN s[i] : u[a] = s[i][b]
  BY <1>7 DEF MadeOf
<1>9. Below(u, m) /\ Precedes(x, u) /\ Precedes(y, u)
  BY <1>4, <1>8 DEF Below, Precedes, Follows
<1>10. ASSUME NEW j \in (n + 1)..Len(q) PROVE Precedes(u, q[j].texts)
  <2>1. \A i \in 1..n : Precedes(s[i], q[j].texts)
    <3>1. j \in 1..Len(q) /\ \A i \in 1..n : i < j
      BY <1>1
    <3>2. QED
      BY <1>3, <1>4, <3>1 DEF QueueFits
  <2>2. QED
    BY <1>8, <2>1 DEF Precedes
<1>11. QED
  BY <1>7, <1>9, <1>10 DEF Follows, u, p

\* The items behind them stay as they are.
LEMMA RestFits ==
  ASSUME NEW q, NEW x, NEW y, NEW m \in Nat, QueueFits(q, x, y, m), NEW n \in 0..Len(q)
  PROVE  LET r == SubSeq(q, n + 1, Len(q))
         IN /\ QueueFits(r, x, y, m) /\ Len(r) = Len(q) - n
            /\ \A i \in 1..Len(r) : i + n \in (n + 1)..Len(q) /\ r[i] = q[i + n]
<1> DEFINE r == SubSeq(q, n + 1, Len(q))
<1>1. q \in Seq(Items) /\ Len(q) \in Nat /\ n \in Nat /\ n <= Len(q)
  BY DEF QueueFits
<1>2. /\ r \in Seq(Items) /\ Len(r) = IF n + 1 <= Len(q) THEN Len(q) - (n + 1) + 1 ELSE 0
      /\ \A i \in 1..(Len(q) - (n + 1) + 1) : r[i] = q[n + 1 + i - 1]
  <2>1. \A i \in (n + 1)..Len(q) : q[i] \in Items
    BY <1>1, QueueOfItems
  <2>2. n + 1 \in Int /\ Len(q) \in Int
    BY <1>1
  <2>3. QED
    BY <2>1, <2>2, SubSeqProperties
<1> HIDE DEF r
<1>3. Len(r) = Len(q) - n
  BY <1>1, <1>2
<1>4. \A i \in 1..Len(r) : i + n \in (n + 1)..Len(q) /\ i + n \in 1..Len(q) /\ r[i] = q[i + n]
  BY <1>1, <1>2, <1>3
<1>5. \A i \in 1..Len(r) : Follows(r[i].texts, x, y, m)
  BY <1>4 DEF QueueFits
<1>6. \A i, j \in 1..Len(r) : i < j => Precedes(r[i].texts, r[j].texts)
  <2> SUFFICES ASSUME NEW i \in 1..Len(r), NEW j \in 1..Len(r), i < j
               PROVE  Precedes(r[i].texts, r[j].texts)
    OBVIOUS
  <2>1. i + n < j + n
    BY <1>1, <1>3
  <2>2. QED
    BY <1>4, <2>1 DEF QueueFits
<1>7. QED
  BY <1>2, <1>3, <1>4, <1>5, <1>6 DEF QueueFits, r

\* An item in front of those that come after it.
LEMMA HeadFits ==
  ASSUME NEW q, NEW x, NEW y, NEW m \in Nat, QueueFits(q, x, y, m), NEW e \in Items,
         Follows(e.texts, x, y, m), \A j \in 1..Len(q) : Precedes(e.texts, q[j].texts)
  PROVE  QueueFits(<<e>> \o q, x, y, m)
<1> DEFINE r == <<e>> \o q
<1>1. q \in Seq(Items) /\ Len(q) \in Nat
  BY DEF QueueFits
<1>2. <<e>> \in Seq(Items) /\ Len(<<e>>) = 1 /\ <<e>>[1] = e
  OBVIOUS
<1>3. /\ r \in Seq(Items) /\ Len(r) = 1 + Len(q)
      /\ \A i \in 1..(1 + Len(q)) : r[i] = IF i <= 1 THEN <<e>>[i] ELSE q[i - 1]
  BY <1>1, <1>2, ConcatProperties
<1> HIDE DEF r
<1>4. \A i \in 1..Len(r) : \/ i = 1 /\ r[i] = e
                           \/ i > 1 /\ i - 1 \in 1..Len(q) /\ r[i] = q[i - 1]
  BY <1>1, <1>2, <1>3
<1>5. \A i \in 1..Len(r) : Follows(r[i].texts, x, y, m)
  BY <1>4 DEF QueueFits
<1>6. ASSUME NEW i \in 1..Len(r), NEW j \in 1..Len(r), i < j
      PROVE  Precedes(r[i].texts, r[j].texts)
  <2>1. j > 1 /\ j - 1 \in 1..Len(q) /\ r[j] = q[j - 1]
    BY <1>1, <1>3, <1>4, <1>6
  <2>2. CASE i = 1
    BY <1>4, <2>1, <2>2
  <2>3. CASE i # 1
    <3>1. i - 1 \in 1..Len(q) /\ r[i] = q[i - 1] /\ i - 1 < j - 1
      BY <1>1, <1>3, <1>4, <1>6, <2>3
    <3>2. QED
      BY <2>1, <3>1 DEF QueueFits
  <2>4. QED
    BY <2>2, <2>3
<1>7. QED
  BY <1>3, <1>5, <1>6 DEF QueueFits, r

LEMMA LaterFits ==
  ASSUME NEW q, NEW x, NEW y, NEW m \in Nat, QueueFits(q, x, y, m)
  PROVE  QueueFits(q, x, y, m + 1)
<1>1. ASSUME NEW i \in 1..Len(q) PROVE Below(q[i].texts, m + 1)
  <2>1. q \in Seq(Items) /\ Below(q[i].texts, m)
    BY DEF QueueFits, Follows
  <2>2. q[i].texts \in Seq(Nat)
    BY <2>1, QueueOfItems
  <2>3. \A a \in DOMAIN q[i].texts : q[i].texts[a] \in Nat
    BY <2>2
  <2>4. QED
    BY <2>1, <2>3 DEF Below
<1>2. QED
  BY <1>1 DEF QueueFits, Follows

\* The next text is behind everything there is.
LEMMA NextIsLast ==
  ASSUME NEW u \in Seq(Nat), NEW m \in Nat, Below(u, m)
  PROVE  /\ Precedes(u, <<m>>)
         /\ Append(u, m) \in Seq(Nat) /\ Below(Append(u, m), m + 1)
         /\ Increasing(u) => Increasing(Append(u, m))
         /\ \A z : Precedes(z, u) /\ Precedes(z, <<m>>) => Precedes(z, Append(u, m))
<1> DEFINE v == Append(u, m)
<1>1. /\ v \in Seq(Nat) /\ DOMAIN v = 1..(Len(u) + 1) /\ Len(u) \in Nat /\ DOMAIN u = 1..Len(u)
      /\ \A i \in DOMAIN u : u[i] \in Nat /\ u[i] < m
      /\ \A i \in 1..(Len(u) + 1) : v[i] = IF i <= Len(u) THEN u[i] ELSE m
  BY DEF Below
<1>2. DOMAIN <<m>> = {1} /\ <<m>>[1] = m
  OBVIOUS
<1> HIDE DEF v
<1>3. \A i \in DOMAIN v : \/ i \in DOMAIN u /\ v[i] = u[i]
                          \/ i = Len(u) + 1 /\ v[i] = m
  BY <1>1
<1>4. Precedes(u, <<m>>)
  BY <1>1, <1>2 DEF Precedes
<1>5. Below(v, m + 1)
  BY <1>1, <1>3 DEF Below
<1>6. Increasing(u) => Increasing(v)
  BY <1>1, <1>3 DEF Increasing
<1>7. \A z : Precedes(z, u) /\ Precedes(z, <<m>>) => Precedes(z, v)
  BY <1>2, <1>3 DEF Precedes
<1>8. QED
  BY <1>1, <1>4, <1>5, <1>6, <1>7 DEF v

\* A text that is an item of its own.
LEMMA NewItemFits ==
  ASSUME NEW q, NEW x \in Seq(Nat), NEW y \in Seq(Nat), NEW m \in Nat, QueueFits(q, x, y, m),
         Below(x, m), Below(y, m), NEW f \in BOOLEAN
  PROVE  QueueFits(Append(q, Item(<<m>>, f)), x, y, m + 1)
<1> DEFINE e == Item(<<m>>, f)
           r == Append(q, e)
<1>1. q \in Seq(Items) /\ Len(q) \in Nat
  BY DEF QueueFits
<1>2. e \in Items /\ e.texts = <<m>>
  BY DEF Items, Item
<1>3. /\ r \in Seq(Items) /\ Len(r) = Len(q) + 1
      /\ \A i \in 1..Len(r) : \/ i \in 1..Len(q) /\ r[i] = q[i]
                              \/ i = Len(q) + 1 /\ r[i] = e
  BY <1>1, <1>2
<1> HIDE DEF r, e
<1>4. Follows(<<m>>, x, y, m + 1)
  <2>1. Precedes(x, <<m>>) /\ Precedes(y, <<m>>)
    BY NextIsLast
  <2>2. Increasing(<<m>>) /\ Below(<<m>>, m + 1)
    BY DEF Increasing, Below
  <2>3. QED
    BY <2>1, <2>2 DEF Follows
<1>5. \A i \in 1..Len(q) : Precedes(q[i].texts, <<m>>)
  <2> SUFFICES ASSUME NEW i \in 1..Len(q) PROVE Precedes(q[i].texts, <<m>>)
    OBVIOUS
  <2>1. q[i].texts \in Seq(Nat) /\ Below(q[i].texts, m)
    BY <1>1, QueueOfItems DEF QueueFits, Follows
  <2>2. QED
    BY <2>1, NextIsLast
<1>6. QueueFits(q, x, y, m + 1)
  BY LaterFits
<1>7. \A i \in 1..Len(r) : Follows(r[i].texts, x, y, m + 1)
  BY <1>2, <1>3, <1>4, <1>6 DEF QueueFits
<1>8. ASSUME NEW i \in 1..Len(r), NEW j \in 1..Len(r), i < j
      PROVE  Precedes(r[i].texts, r[j].texts)
  <2>1. i \in 1..Len(q) /\ r[i] = q[i]
    BY <1>1, <1>3, <1>8
  <2>2. CASE j \in 1..Len(q) /\ r[j] = q[j]
    BY <1>6, <1>8, <2>1, <2>2 DEF QueueFits
  <2>3. CASE r[j] = e
    BY <1>2, <1>5, <2>1, <2>3
  <2>4. QED
    BY <1>3, <2>2, <2>3
<1>9. QED
  BY <1>3, <1>7, <1>8 DEF QueueFits, r, e

\* A text that joins the last item.
LEMMA JoinedFits ==
  ASSUME NEW q, NEW x \in Seq(Nat), NEW y \in Seq(Nat), NEW m \in Nat, QueueFits(q, x, y, m),
         Below(x, m), Below(y, m), NEW f \in BOOLEAN, Len(q) # 0
  PROVE  LET n == Len(q)
         IN  QueueFits([q EXCEPT ![n].texts = Append(@, m), ![n].final = @ \/ f], x, y, m + 1)
<1> DEFINE n == Len(q)
           u == q[n].texts
           b == q[n].final \/ f
           v == Append(u, m)
           e == [q[n] EXCEPT !.texts = v, !.final = b]
           r == [q EXCEPT ![n].texts = Append(@, m), ![n].final = @ \/ f]
<1>1. q \in Seq(Items) /\ Len(q) \in Nat /\ n \in 1..Len(q)
  BY DEF QueueFits
<1>2. q[n] \in Items /\ u \in Seq(Nat) /\ q[n].final \in BOOLEAN
  BY <1>1, QueueOfItems
<1>3. Follows(u, x, y, m) /\ \A i \in 1..Len(q) : i < n => Precedes(q[i].texts, u)
  BY <1>1 DEF QueueFits
<1>4. e \in Items /\ e.texts = Append(u, m)
  <2>1. b \in BOOLEAN /\ v \in Seq(Nat)
    BY <1>2
  <2> HIDE DEF b, v
  <2>2. [q[n] EXCEPT !.texts = v, !.final = b] \in Items
    BY <1>2, <2>1 DEF Items
  <2>3. [q[n] EXCEPT !.texts = v, !.final = b].texts = v
    BY <1>2, <2>1 DEF Items
  <2>4. QED
    BY <2>2, <2>3 DEF v
<1>5. r = [q EXCEPT ![n] = e]
  BY <1>1, <1>2 DEF Items
<1> HIDE DEF r, e
<1>6. /\ r \in Seq(Items) /\ Len(r) = Len(q)
      /\ \A i \in 1..Len(q) : r[i] = IF i = n THEN e ELSE q[i]
  BY <1>1, <1>4, <1>5, ExceptSeq
<1> HIDE DEF u, n
<1>7. /\ Below(Append(u, m), m + 1) /\ Increasing(Append(u, m))
      /\ \A z : Precedes(z, u) /\ Precedes(z, <<m>>) => Precedes(z, Append(u, m))
  BY <1>2, <1>3, NextIsLast DEF Follows
<1>8. Precedes(x, <<m>>) /\ Precedes(y, <<m>>)
  BY NextIsLast
<1>9. Follows(e.texts, x, y, m + 1)
  BY <1>3, <1>4, <1>7, <1>8 DEF Follows
<1>10. \A i \in 1..Len(q) : i < n => Precedes(q[i].texts, e.texts)
  <2> SUFFICES ASSUME NEW i \in 1..Len(q), i < n PROVE Precedes(q[i].texts, e.texts)
    OBVIOUS
  <2>1. q[i].texts \in Seq(Nat) /\ Below(q[i].texts, m)
    BY <1>1, QueueOfItems DEF QueueFits, Follows
  <2>2. Precedes(q[i].texts, <<m>>)
    BY <2>1, NextIsLast
  <2>3. QED
    BY <1>3, <1>4, <1>7, <2>2
<1>11. QueueFits(q, x, y, m + 1)
  BY LaterFits
<1>12. \A i \in 1..Len(r) : Follows(r[i].texts, x, y, m + 1)
  BY <1>6, <1>9, <1>11 DEF QueueFits
<1>13. ASSUME NEW i \in 1..Len(r), NEW j \in 1..Len(r), i < j
       PROVE  Precedes(r[i].texts, r[j].texts)
  <2>1. i \in 1..Len(q) /\ j \in 1..Len(q) /\ i # n /\ r[i] = q[i]
    BY <1>1, <1>6, <1>13 DEF n
  <2>2. CASE j = n
    BY <1>6, <1>10, <1>13, <2>1, <2>2
  <2>3. CASE j # n
    BY <1>6, <1>11, <1>13, <2>1, <2>3 DEF QueueFits
  <2>4. QED
    BY <2>2, <2>3
<1>14. QED
  BY <1>6, <1>12, <1>13 DEF QueueFits, r, n

\* A final text takes the items in front of it with it.
LEMMA AbsorbedFits ==
  ASSUME NEW q, NEW x, NEW y, NEW m \in Nat, QueueFits(q, x, y, m)
  PROVE  QueueFits(Absorbed(q), x, y, m)
<1> DEFINE finals == {i \in DOMAIN q : q[i].final}
           first == CHOOSE i \in finals : \A j \in finals : i <= j
           u == TextsOf(SubSeq(q, 1, first))
           e == [q[first] EXCEPT !.texts = u]
           r == SubSeq(q, first + 1, Len(q))
<1>1. CASE finals = {} \/ Len(q) < 2
  <2>1. Absorbed(q) = q
    BY <1>1 DEF Absorbed
  <2>2. QED
    BY <2>1
<1>2. CASE ~(finals = {} \/ Len(q) < 2)
  <2>1. Absorbed(q) = <<e>> \o r
    BY <1>2 DEF Absorbed
  <2>2. q \in Seq(Items) /\ Len(q) \in Nat /\ DOMAIN q = 1..Len(q)
    BY DEF QueueFits
  <2>3. first \in 1..Len(q)
    <3>1. finals \in SUBSET Nat /\ finals # {}
      BY <1>2, <2>2
    <3>2. finals \subseteq 1..Len(q)
      BY <2>2
    <3> HIDE DEF finals
    <3>3. \E i \in finals : \A j \in finals : i <= j
      BY <3>1, LeastElement
    <3>4. first \in finals
      BY <3>3
    <3>5. QED
      BY <3>2, <3>4
  <2> HIDE DEF first
  <2>4. /\ u \in Seq(Nat) /\ Follows(u, x, y, m)
        /\ \A j \in (first + 1)..Len(q) : Precedes(u, q[j].texts)
    BY <2>3, FrontFits
  <2>5. /\ QueueFits(r, x, y, m)
        /\ \A i \in 1..Len(r) : i + first \in (first + 1)..Len(q) /\ r[i] = q[i + first]
    <3>1. first \in 0..Len(q)
      BY <2>2, <2>3
    <3>2. QED
      BY <3>1, RestFits
  <2>6. q[first] \in Items
    BY <2>2, <2>3, QueueOfItems
  <2> HIDE DEF u, r
  <2>7. e \in Items /\ e.texts = u
    BY <2>4, <2>6 DEF Items
  <2> HIDE DEF e
  <2>8. \A j \in 1..Len(r) : Precedes(e.texts, r[j].texts)
    BY <2>4, <2>5, <2>7
  <2>9. QueueFits(<<e>> \o r, x, y, m)
    BY <2>4, <2>5, <2>7, <2>8, HeadFits
  <2>10. QED
    BY <2>1, <2>9
<1>3. QED
  BY <1>1, <1>2

-----------------------------------------------------------------------------
(* What was sent, what the worker holds and what is queued: in this order.   *)

ChatInv ==
    /\ toSend \in Nat /\ sent \in Seq(Nat) /\ wItem \in Seq(Nat)
    /\ Increasing(sent) /\ Increasing(wItem) /\ Precedes(sent, wItem)
    /\ Below(sent, toSend) /\ Below(wItem, toSend)
    /\ QueueFits(chatQueue, sent, wItem, toSend)

LEMMA PooledFits ==
  ASSUME ChatInv
  PROVE  QueueFits(Pooled(toSend), sent, wItem, toSend + 1)
<1>1. (toSend \in FinalTexts) \in BOOLEAN
  OBVIOUS
<1>2. CASE chatQueue # <<>> /\ poolOpen
  <2> DEFINE n == Len(chatQueue)
             f == toSend \in FinalTexts
             joined == [chatQueue EXCEPT ![n].texts = Append(@, toSend), ![n].final = @ \/ f]
  <2>1. chatQueue \in Seq(Items)
    BY DEF ChatInv, QueueFits
  <2>2. Len(chatQueue) # 0
    BY <1>2, <2>1, EmptySeq
  <2>3. Pooled(toSend) = joined
    BY <1>2 DEF Pooled
  <2>4. f \in BOOLEAN
    OBVIOUS
  <2> HIDE DEF f
  <2>5. QueueFits(joined, sent, wItem, toSend + 1)
    BY <2>2, <2>4, JoinedFits DEF ChatInv
  <2>6. QED
    BY <2>3, <2>5
<1>3. CASE ~(chatQueue # <<>> /\ poolOpen)
  <2>1. Pooled(toSend) = Append(chatQueue, Item(<<toSend>>, toSend \in FinalTexts))
    BY <1>3 DEF Pooled
  <2>2. QED
    BY <1>1, <2>1, NewItemFits DEF ChatInv
<1>4. QED
  BY <1>2, <1>3

LEMMA EnqueueKeepsOrder ==
  ASSUME ChatInv, Enqueue
  PROVE  ChatInv'
<1> DEFINE q == Pooled(toSend)
           m == toSend + 1
<1>1. toSend' = m /\ m \in Nat /\ UNCHANGED <<wItem, sent>>
  BY DEF Enqueue, ChatInv
<1>2. QueueFits(q, sent, wItem, m) /\ QueueFits(chatQueue, sent, wItem, m)
  BY PooledFits, LaterFits DEF ChatInv
<1>3. /\ q \in Seq(Items)
      /\ q # <<>> => QueueFits(Tail(q), sent, wItem, m)
  <2>1. q \in Seq(Items)
    BY <1>2 DEF QueueFits
  <2>2. ASSUME q # <<>> PROVE QueueFits(Tail(q), sent, wItem, m)
    <3>1. Len(q) \in Nat \ {0} /\ Tail(q) = SubSeq(q, 2, Len(q))
      BY <2>1, <2>2, EmptySeq, TailIsSubSeq
    <3>2. 1 \in 0..Len(q) /\ 1 + 1 = 2
      BY <3>1
    <3>3. QueueFits(SubSeq(q, 1 + 1, Len(q)), sent, wItem, m)
      BY <1>1, <1>2, <3>2, RestFits
    <3>4. QED
      BY <3>1, <3>2, <3>3
  <2>3. QED
    BY <2>1, <2>2
<1>4. QueueFits(Absorbed(q), sent, wItem, m)
  BY <1>1, <1>2, AbsorbedFits
<1>5. chatQueue' \in {chatQueue, q, Absorbed(q)} \/ (chatQueue' = Tail(q) /\ Len(q) >= 2)
  BY DEF Enqueue
<1>6. Len(q) >= 2 => q # <<>>
  BY <1>3, EmptySeq
<1> HIDE DEF q
<1>7. QueueFits(chatQueue', sent, wItem, m)
  BY <1>2, <1>3, <1>4, <1>5, <1>6
<1>8. Below(sent, m) /\ Below(wItem, m)
  <2>1. \A z \in Seq(Nat) : Below(z, toSend) => Below(z, toSend + 1)
    <3> SUFFICES ASSUME NEW z \in Seq(Nat), Below(z, toSend), NEW i \in DOMAIN z
                 PROVE  z[i] < toSend + 1
      BY DEF Below
    <3>1. z[i] \in Nat /\ z[i] < toSend /\ toSend \in Nat
      BY DEF Below, ChatInv
    <3>2. QED
      BY <3>1
  <2>2. QED
    BY <2>1 DEF ChatInv
<1>9. /\ QueueFits(chatQueue, sent, wItem, toSend)' /\ Below(sent, toSend)' /\ Below(wItem, toSend)'
      /\ Increasing(sent)' /\ Increasing(wItem)' /\ Precedes(sent, wItem)'
  BY <1>1, <1>7, <1>8 DEF ChatInv, QueueFits, Follows, Below, Precedes, Increasing
<1>10. QED
  BY <1>1, <1>9 DEF ChatInv

LEMMA EmptyFits ==
  ASSUME NEW m
  PROVE  /\ <<>> \in Seq(Nat) /\ Increasing(<<>>) /\ Below(<<>>, m)
         /\ \A z : Precedes(z, <<>>) /\ Precedes(<<>>, z)
  BY DEF Increasing, Below, Precedes

LEMMA TakingKeepsOrder ==
  ASSUME ChatInv, WorkerTakes
  PROVE  ChatInv'
<1>1. UNCHANGED <<toSend, sent>>
  BY DEF WorkerTakes
<1>2. CASE UNCHANGED <<chatQueue, wItem>>
  BY <1>1, <1>2 DEF ChatInv, QueueFits, Follows, Below, Precedes, Increasing
<1>3. ASSUME NEW n \in 1..Len(chatQueue),
             wItem' = TextsOf(SubSeq(chatQueue, 1, n)),
             chatQueue' = SubSeq(chatQueue, n + 1, Len(chatQueue))
      PROVE  ChatInv'
  <2> DEFINE u == TextsOf(SubSeq(chatQueue, 1, n))
             r == SubSeq(chatQueue, n + 1, Len(chatQueue))
  <2>1. /\ u \in Seq(Nat) /\ Follows(u, sent, wItem, toSend)
        /\ \A j \in (n + 1)..Len(chatQueue) : Precedes(u, chatQueue[j].texts)
    BY FrontFits DEF ChatInv
  <2>2. /\ QueueFits(r, sent, wItem, toSend)
        /\ \A i \in 1..Len(r) : i + n \in (n + 1)..Len(chatQueue) /\ r[i] = chatQueue[i + n]
    <3>1. Len(chatQueue) \in Nat
      BY DEF ChatInv, QueueFits
    <3>2. n \in 0..Len(chatQueue)
      BY <3>1
    <3>3. QED
      BY <3>2, RestFits DEF ChatInv
  <2> HIDE DEF u, r
  <2>3. QueueFits(r, sent, u, toSend)
    BY <2>1, <2>2 DEF QueueFits, Follows
  <2>4. wItem' = u /\ chatQueue' = r
    BY <1>3 DEF u, r
  <2>5. QED
    BY <1>1, <2>1, <2>3, <2>4 DEF ChatInv, QueueFits, Follows, Below, Precedes, Increasing
<1>4. QED
  BY <1>2, <1>3 DEF WorkerTakes

LEMMA DeliveryKeepsOrder ==
  ASSUME ChatInv, NEW ok \in BOOLEAN, DeliverText(ok)
  PROVE  ChatInv'
<1>1. UNCHANGED <<toSend, chatQueue>> /\ wItem' = <<>> /\ sent' = IF ok THEN sent \o wItem ELSE sent
  BY DEF DeliverText
<1>2. /\ sent' \in Seq(Nat) /\ Increasing(sent')
      /\ \A a \in DOMAIN sent' : \/ \E b \in DOMAIN sent : sent'[a] = sent[b]
                                 \/ \E b \in DOMAIN wItem : sent'[a] = wItem[b]
  <2>1. CASE ok
    BY <1>1, <2>1, JoinTwo DEF ChatInv
  <2>2. CASE ~ok
    BY <1>1, <2>2 DEF ChatInv
  <2>3. QED
    BY <2>1, <2>2
<1>3. Below(sent', toSend)
  BY <1>2 DEF ChatInv, Below
<1>4. \A z : Precedes(sent, z) /\ Precedes(wItem, z) => Precedes(sent', z)
  BY <1>2 DEF Precedes
<1>5. QueueFits(chatQueue, sent', <<>>, toSend)
  BY <1>4, EmptyFits DEF ChatInv, QueueFits, Follows
<1>6. /\ QueueFits(chatQueue, sent, wItem, toSend)' /\ Below(sent, toSend)' /\ Below(wItem, toSend)'
      /\ Increasing(sent)' /\ Increasing(wItem)' /\ Precedes(sent, wItem)' /\ wItem' \in Seq(Nat)
  BY <1>1, <1>2, <1>3, <1>5, EmptyFits DEF QueueFits, Follows, Below, Precedes, Increasing
<1>7. QED
  BY <1>1, <1>2, <1>6 DEF ChatInv

LEMMA RequeueKeepsOrder ==
  ASSUME ChatInv, Requeue
  PROVE  ChatInv'
<1> DEFINE e == PutBack(wItem)
<1>1. UNCHANGED <<toSend, sent>> /\ wItem' = <<>> /\ chatQueue' = <<e>> \o chatQueue
  BY DEF Requeue
<1>2. e \in Items /\ e.texts = wItem
  BY DEF ChatInv, PutBack, Items
<1> HIDE DEF e
<1>3. QueueFits(chatQueue, sent, <<>>, toSend)
  BY EmptyFits DEF ChatInv, QueueFits, Follows
<1>4. Follows(e.texts, sent, <<>>, toSend) /\ \A j \in 1..Len(chatQueue) : Precedes(e.texts, chatQueue[j].texts)
  BY <1>2, EmptyFits DEF ChatInv, QueueFits, Follows
<1>5. QueueFits(<<e>> \o chatQueue, sent, <<>>, toSend)
  BY <1>2, <1>3, <1>4, HeadFits DEF ChatInv
<1>6. QED
  BY <1>1, <1>5, EmptyFits DEF ChatInv, QueueFits, Follows, Below, Precedes, Increasing

LEMMA StoppingKeepsOrder ==
  ASSUME ChatInv, WorkerStops
  PROVE  ChatInv'
<1>1. UNCHANGED <<toSend, sent, chatQueue>> /\ wItem' = <<>>
  BY DEF WorkerStops
<1>2. QueueFits(chatQueue, sent, <<>>, toSend)
  BY EmptyFits DEF ChatInv, QueueFits, Follows
<1>3. QED
  BY <1>1, <1>2, EmptyFits DEF ChatInv, QueueFits, Follows, Below, Precedes, Increasing

LEMMA ChatInvStep ==
  ASSUME ChatInv, [DispatchNext]_dispatchVars
  PROVE  ChatInv'
<1>1. CASE UNCHANGED <<toSend, chatQueue, wItem, sent>>
  BY <1>1 DEF ChatInv, QueueFits, Follows, Below, Precedes, Increasing
<1>2. CASE WorkerFindsNothing \/ PoolCloses \/ Throttle \/ PauseSending \/ ResumeSending \/ ShutDown
           \/ UNCHANGED dispatchVars
  BY <1>1, <1>2 DEF WorkerFindsNothing, PoolCloses, Throttle, PauseSending, ResumeSending, ShutDown,
                    dispatchVars
<1>3. CASE DeliverText(TRUE) \/ DeliverText(FALSE)
  BY <1>3, DeliveryKeepsOrder
<1>4. QED
  BY <1>2, <1>3, EnqueueKeepsOrder, TakingKeepsOrder, RequeueKeepsOrder, StoppingKeepsOrder
     DEF DispatchNext, WorkerStep

LEMMA ChatInvInit == DispatchInit => ChatInv
  BY EmptyFits DEF DispatchInit, ChatInv, QueueFits, Follows

\* A queue with text in it has a worker: one that ends looks at the queue and leaves its
\* entry in one step, and a text that finds no entry starts another (enqueue and _worker).
\* An item that was put back may have killed it.  And the chat reads its texts in the order
\* in which they were queued, each once: through the pooling of texts, the final text that
\* takes the items in front of it with it, the item that is put back, and the texts lost.
THEOREM ChatIsServedInOrder == DispatchSpec => []ChatIsServed
<1>1. DispatchInit => WorkerInv /\ ChatInv BY ChatInvInit DEF DispatchInit, WorkerInv
<1>2. WorkerInv /\ ChatInv /\ [DispatchNext]_dispatchVars => WorkerInv' /\ ChatInv'
  BY WorkerInvStep, ChatInvStep
<1>3. WorkerInv => QueueHasWorker BY DEF WorkerInv, QueueHasWorker
<1>4. ChatInv => ChatReadsInOrder BY DEF ChatInv, Increasing, ChatReadsInOrder
<1> QED BY <1>1, <1>2, <1>3, <1>4, PTL DEF DispatchSpec, ChatIsServed
=============================================================================
