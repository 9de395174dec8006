----------------------------- MODULE TunnelCalls -----------------------------
(* Tool calls through a tunnel workplace: callers of TunnelWorkplaceBackend,  *)
(* ConnectorRelay with a thread for each WebSocket, and the Evonet client     *)
(* that reconnects, restarts, and runs a request id once.  A link that has    *)
(* broken is noticed by each side in its own time.                            *)
EXTENDS Naturals, FiniteSets

CONSTANTS
    TunnelRequests,    \* calls, each with a request id of its own
    MaxLinks,    \* bound on connections
    MaxRestarts  \* bound on restarts of the device's Evonet

ASSUME TunnelAssumption == MaxLinks \in Nat /\ MaxRestarts \in Nat

NoLink == 0
Links == 1 .. MaxLinks

VARIABLES
    dedups,     \* this version of Evonet deduplicates request ids
    replay,     \* _replay_ok: what the last connection said of that
    link,       \* of each connection: what its server thread does
    alive,      \* connections that carry messages
    current,    \* ConnectorRelay._connections: the connection of the workplace
    ws,         \* TunnelWorkplaceBackend._ws
    pendingIds, \* _pending
    leftover,   \* ids whose result is in _results though nobody waits for it
    caller,     \* of each call: its place and the socket it read
    toDevice,   \* requests on their way, with their connection
    toServer,   \* answers on their way, with their connection
    clientLink, \* Evonet: its connection
    cached,     \* Evonet: "none", "running" or "done" for each id
    handlers,   \* Evonet: goroutines that answer an id on a connection
    restarts,   \* restarts of the device so far
    runs,       \* history: how often each request was executed
    forgotten   \* history: how often Evonet lost what it knew of a request

tunnelVars == <<dedups, replay, link, alive, current, ws, pendingIds, leftover, caller, toDevice,
                toServer, clientLink, cached, handlers, restarts, runs, forgotten>>

Sent == Links \X TunnelRequests
CallPlace == {"idle", "made", "send", "wait", "answered", "failed"}

TunnelTypeOK ==
    /\ link \in [Links -> {"none", "accepted", "resend", "loop", "closing", "gone"}]
    /\ alive \subseteq Links /\ {current, ws, clientLink} \subseteq Links \union {NoLink}
    /\ pendingIds \union leftover \subseteq TunnelRequests
    /\ caller \in [TunnelRequests -> [at : CallPlace, ws : Links \union {NoLink}]]
    /\ toDevice \union toServer \union handlers \subseteq Sent
    /\ cached \in [TunnelRequests -> {"none", "running", "done"}]
    /\ \A r \in pendingIds : caller[r].at \in {"send", "wait", "failed"}
    /\ dedups \in BOOLEAN /\ replay \in BOOLEAN
    /\ restarts \in 0 .. MaxRestarts /\ {runs, forgotten} \subseteq [TunnelRequests -> Nat]

TunnelInit ==
    /\ dedups \in BOOLEAN /\ replay = FALSE
    /\ link = [c \in Links |-> "none"] /\ alive = {} /\ current = NoLink /\ ws = NoLink
    /\ pendingIds = {} /\ leftover = {}
    /\ caller = [r \in TunnelRequests |-> [at |-> "idle", ws |-> NoLink]]
    /\ toDevice = {} /\ toServer = {} /\ clientLink = NoLink
    /\ cached = [r \in TunnelRequests |-> "none"] /\ handlers = {}
    /\ restarts = 0 /\ runs = [r \in TunnelRequests |-> 0] /\ forgotten = [r \in TunnelRequests |-> 0]

server == <<replay, link, current, ws, pendingIds, leftover, caller>>
device == <<dedups, clientLink, cached, handlers, restarts, runs, forgotten>>

-----------------------------------------------------------------------------
(* ConnectorRelay.handle_ws and the callbacks of the backend. *)

\* Evonet dials; the relay takes the connection for the current one.
Dial(c) ==
    /\ clientLink = NoLink /\ link[c] = "none" /\ \A d \in Links : d < c => link[d] # "none"
    /\ clientLink' = c /\ alive' = alive \union {c}
    /\ current' = c /\ link' = [link EXCEPT ![c] = "accepted"]
    /\ UNCHANGED <<dedups, replay, ws, pendingIds, leftover, caller, toDevice, toServer, cached,
                   handlers, restarts, runs, forgotten>>

\* on_ws_connected sets the socket, then sends again what is pending.
Connected(c) ==
    /\ link[c] = "accepted"
    /\ ws' = c /\ replay' = dedups
    /\ link' = [link EXCEPT ![c] = IF dedups THEN "resend" ELSE "loop"]
    /\ UNCHANGED <<alive, current, pendingIds, leftover, caller, toDevice, toServer>>
    /\ UNCHANGED device

Resend(c) ==
    /\ link[c] = "resend" /\ link' = [link EXCEPT ![c] = "loop"]
    /\ toDevice' = IF c \in alive THEN toDevice \union ({c} \X pendingIds) ELSE toDevice
    /\ UNCHANGED <<replay, alive, current, ws, pendingIds, leftover, caller, toServer>>
    /\ UNCHANGED device

\* The thread notices the end of its connection; a superseded one just ends.
LoopEnds(c) ==
    /\ link[c] = "loop" /\ c \notin alive
    /\ link' = [link EXCEPT ![c] = IF current = c THEN "closing" ELSE "gone"]
    /\ current' = IF current = c THEN NoLink ELSE current
    /\ UNCHANGED <<replay, alive, ws, pendingIds, leftover, caller, toDevice, toServer>>
    /\ UNCHANGED device

\* on_ws_disconnected: without replay every waiting call fails at once, but
\* nobody takes it out of _pending.
Disconnected(c) ==
    /\ link[c] = "closing" /\ link' = [link EXCEPT ![c] = "gone"] /\ ws' = NoLink
    /\ caller' = [r \in TunnelRequests |-> IF ~replay /\ r \in pendingIds
                     THEN [caller[r] EXCEPT !.at = "failed"] ELSE caller[r]]
    /\ UNCHANGED <<replay, alive, current, pendingIds, leftover, toDevice, toServer>>
    /\ UNCHANGED device

\* on_message: the answer of a call that has given up stays in _results.
OnMessage(c, r) ==
    /\ <<c, r>> \in toServer /\ link[c] = "loop" /\ toServer' = toServer \ {<<c, r>>}
    /\ pendingIds' = pendingIds \ {r}
    /\ IF r \in pendingIds /\ caller[r].at \in {"send", "wait"}
       THEN caller' = [caller EXCEPT ![r].at = "answered"] /\ UNCHANGED leftover
       ELSE leftover' = leftover \union {r} /\ UNCHANGED caller
    /\ UNCHANGED <<replay, link, alive, current, ws, toDevice>>
    /\ UNCHANGED device

-----------------------------------------------------------------------------
(* _call. *)

ReadSocket(r) ==
    /\ caller[r].at = "idle"
    /\ caller' = [caller EXCEPT ![r] =
            [at |-> IF ws = NoLink /\ ~replay THEN "failed" ELSE "made", ws |-> ws]]
    /\ UNCHANGED <<replay, link, alive, current, ws, pendingIds, leftover, toDevice, toServer>>
    /\ UNCHANGED device

AddPending(r) ==
    /\ caller[r].at = "made"
    /\ caller' = [caller EXCEPT ![r].at = "send"] /\ pendingIds' = pendingIds \union {r}
    /\ UNCHANGED <<replay, link, alive, current, ws, leftover, toDevice, toServer>>
    /\ UNCHANGED device

\* A socket that has broken takes the message without an error, or refuses it.
SendRequest(r) ==
    /\ caller[r].at = "send"
    /\ LET c == caller[r].ws
       IN \/ /\ c # NoLink /\ c \in alive
             /\ toDevice' = toDevice \union {<<c, r>>}
             /\ caller' = [caller EXCEPT ![r].at = "wait"] /\ UNCHANGED pendingIds
          \/ /\ c \notin alive
             /\ caller' = [caller EXCEPT ![r].at = "wait"] /\ UNCHANGED <<toDevice, pendingIds>>
          \/ /\ c # NoLink /\ c \notin alive /\ ~replay
             /\ caller' = [caller EXCEPT ![r].at = "failed"]
             /\ pendingIds' = pendingIds \ {r} /\ UNCHANGED toDevice
    /\ UNCHANGED <<replay, link, alive, current, ws, leftover, toServer>>
    /\ UNCHANGED device

GiveUp(r) ==
    /\ caller[r].at = "wait"
    /\ caller' = [caller EXCEPT ![r].at = "failed"] /\ pendingIds' = pendingIds \ {r}
    /\ leftover' = leftover \ {r}
    /\ UNCHANGED <<replay, link, alive, current, ws, toDevice, toServer>>
    /\ UNCHANGED device

-----------------------------------------------------------------------------
(* Evonet: Client.messageLoop and Executor.Handle. *)

\* An id that is known is attached to; another is executed.
MutHandle(c, r) ==
    /\ <<c, r>> \in toDevice /\ clientLink = c /\ toDevice' = toDevice \ {<<c, r>>}
    /\ handlers' = handlers \union {<<c, r>>}
    /\ cached' = [cached EXCEPT ![r] = IF @ = "done" THEN @ ELSE "running"]
    /\ runs' = IF cached[r] = "done" THEN runs ELSE [runs EXCEPT ![r] = @ + 1]
    /\ UNCHANGED <<dedups, alive, toServer, clientLink, restarts, forgotten>>
    /\ UNCHANGED server

\* A client without replay keeps no ids.
Handle(c, r) ==
    /\ <<c, r>> \in toDevice /\ clientLink = c /\ toDevice' = toDevice \ {<<c, r>>}
    /\ handlers' = handlers \union {<<c, r>>}
    /\ LET known == dedups /\ cached[r] # "none"
       IN /\ cached' = [cached EXCEPT ![r] = IF known THEN @ ELSE "running"]
          /\ runs' = IF known THEN runs ELSE [runs EXCEPT ![r] = @ + 1]
    /\ UNCHANGED <<dedups, alive, toServer, clientLink, restarts, forgotten>>
    /\ UNCHANGED server

Executed(r) ==
    /\ cached[r] = "running" /\ cached' = [cached EXCEPT ![r] = "done"]
    /\ UNCHANGED <<dedups, alive, toDevice, toServer, clientLink, handlers, restarts, runs, forgotten>>
    /\ UNCHANGED server

\* The answer goes out on the connection the request came by, if it still is
\* the client's; otherwise it waits in the cache for the request to come again.
Answer(c, r) ==
    /\ <<c, r>> \in handlers /\ cached[r] = "done" /\ handlers' = handlers \ {<<c, r>>}
    /\ toServer' = IF clientLink = c /\ c \in alive THEN toServer \union {<<c, r>>} ELSE toServer
    /\ UNCHANGED <<dedups, alive, toDevice, clientLink, cached, restarts, runs, forgotten>>
    /\ UNCHANGED server

\* Five minutes after its end a request is forgotten.
Evict(r) ==
    /\ cached[r] = "done" /\ \A c \in Links : <<c, r>> \notin handlers \union toDevice
    /\ cached' = [cached EXCEPT ![r] = "none"]
    /\ forgotten' = [forgotten EXCEPT ![r] = @ + 1]
    /\ UNCHANGED <<dedups, alive, toDevice, toServer, clientLink, handlers, restarts, runs>>
    /\ UNCHANGED server

\* What is on the wire is lost with the connection.
Break(c) ==
    /\ c \in alive /\ alive' = alive \ {c}
    /\ toDevice' = {m \in toDevice : m[1] # c} /\ toServer' = {m \in toServer : m[1] # c}
    /\ UNCHANGED server /\ UNCHANGED device

ClientNotices ==
    /\ clientLink \notin alive /\ clientLink # NoLink /\ clientLink' = NoLink
    /\ UNCHANGED <<dedups, alive, toDevice, toServer, cached, handlers, restarts, runs, forgotten>>
    /\ UNCHANGED server

\* A new process, of a newer version perhaps, knows no id; what ran is over.
DeviceRestarts ==
    /\ restarts < MaxRestarts /\ restarts' = restarts + 1
    /\ alive' = alive \ {clientLink} /\ clientLink' = NoLink
    /\ toDevice' = {m \in toDevice : m[1] # clientLink}
    /\ toServer' = {m \in toServer : m[1] # clientLink}
    /\ forgotten' = [r \in TunnelRequests |-> IF cached[r] = "none" THEN forgotten[r] ELSE forgotten[r] + 1]
    /\ cached' = [r \in TunnelRequests |-> "none"] /\ handlers' = {}
    /\ dedups' \in {dedups, TRUE}
    /\ UNCHANGED runs /\ UNCHANGED server

TunnelNext ==
    \/ \E c \in Links : Dial(c) \/ Connected(c) \/ Resend(c) \/ LoopEnds(c) \/ Disconnected(c) \/ Break(c)
    \/ \E c \in Links, r \in TunnelRequests : OnMessage(c, r) \/ Handle(c, r) \/ Answer(c, r)
    \/ \E r \in TunnelRequests : ReadSocket(r) \/ AddPending(r) \/ SendRequest(r) \/ GiveUp(r)
                           \/ Executed(r) \/ Evict(r)
    \/ ClientNotices \/ DeviceRestarts

TunnelSpec == TunnelInit /\ [][TunnelNext]_tunnelVars

-----------------------------------------------------------------------------
(* Properties. *)

\* However often it is sent, a request is executed once, and once more only
\* when Evonet has lost what it knew of it.
RunsOnce == \A r \in TunnelRequests : runs[r] <= 1 + forgotten[r]

\* "without this guard it would clobber the newer session" (handle_ws): the
\* backend uses the connection that the relay serves.
NewSessionIsKept == \A c \in Links : link[c] = "loop" /\ current = c => ws = c
=============================================================================
