------------------------------ MODULE MCServices ------------------------------
(* The services around the turns, one part at a time: gates and their limits, *)
(* requests between agents and people, the queue of a chat, schedules, calls  *)
(* through a connector, updates, plugins, the rows of state of an agent and   *)
(* its sessions, and its knowledge base.  The parts share no variables: a     *)
(* behaviour is one of the part it begins with, and the others rest in one of *)
(* their first states.                                                        *)
EXTENDS ConcurrencyGate, GateLimits, Delegation, OutboundDispatch, Schedules, TunnelCalls,
        Updates, Plugins, SessionState, KnowledgeBase

CONSTANT ServiceParts

\* All facts are about one title; a page of another comes from a rename.
MCTitleOf == LET t == CHOOSE t \in Title : TRUE IN [f \in Fact |-> t]

VARIABLE part

serviceVars == <<part, vars, limitVars, delegVars, dispatchVars, schedVars, tunnelVars,
                 updateVars, pluginVars, stateVars, kbVars>>

\* The other parts rest.
Rest ==
    /\ UNCHANGED part
    /\ IF part = "gate" THEN TRUE ELSE UNCHANGED vars
    /\ IF part = "limits" THEN TRUE ELSE UNCHANGED limitVars
    /\ IF part = "delegation" THEN TRUE ELSE UNCHANGED delegVars
    /\ IF part = "dispatch" THEN TRUE ELSE UNCHANGED dispatchVars
    /\ IF part = "schedule" THEN TRUE ELSE UNCHANGED schedVars
    /\ IF part = "tunnel" THEN TRUE ELSE UNCHANGED tunnelVars
    /\ IF part = "update" THEN TRUE ELSE UNCHANGED updateVars
    /\ IF part = "plugins" THEN TRUE ELSE UNCHANGED pluginVars
    /\ IF part = "state" THEN TRUE ELSE UNCHANGED stateVars
    /\ IF part = "knowledge" THEN TRUE ELSE UNCHANGED kbVars

ServiceInit ==
    /\ part \in ServiceParts
    /\ Init /\ LimitInit /\ DelegInit /\ DispatchInit /\ SchedInit /\ TunnelInit /\ UpdateInit
    /\ PluginInit /\ StateInit /\ KbInit
    /\ part # "knowledge" => kbMode = "agentic"
    /\ part # "gate" => max = 0
    /\ part # "limits" => {agentSetting, globalSetting} = {0} /\ modelSetting = [m \in Model |-> 0]
    /\ part # "schedule" => trigger = "date"
    /\ part # "tunnel" => dedups
    /\ files = [p \in Plugin |-> 1] /\ (part # "plugins" => inDb = [p \in Plugin |-> TRUE])

ServiceNext ==
    \/ part = "gate" /\ Next /\ Rest
    \/ part = "limits" /\ LimitNext /\ Rest
    \/ part = "delegation" /\ DelegNext /\ Rest
    \/ part = "dispatch" /\ DispatchNext /\ Rest
    \/ part = "schedule" /\ SchedNext /\ Rest
    \/ part = "tunnel" /\ TunnelNext /\ Rest
    \/ part = "update" /\ UpdateNext /\ Rest
    \/ part = "plugins" /\ PluginNext /\ Rest
    \/ part = "state" /\ StateNext /\ Rest
    \/ part = "knowledge" /\ KbNext /\ Rest

\* The fairness of DispatchSpec: the other parts are checked for safety only.
ServiceFairness ==
    /\ WF_dispatchVars(part = "dispatch" /\ WorkerStep)
    /\ WF_dispatchVars(part = "dispatch" /\ PoolCloses)
    /\ WF_dispatchVars(part = "dispatch" /\ ResumeSending)
    /\ SF_dispatchVars(part = "dispatch" /\ WorkerTakes)
    /\ SF_dispatchVars(part = "dispatch" /\ DeliverText(TRUE))

ServiceSpec == ServiceInit /\ [][ServiceNext]_serviceVars /\ ServiceFairness

ServiceTypeOK ==
    /\ TypeOK /\ PluginTypeOK /\ StateTypeOK /\ KbTypeOK
    /\ LimitTypeOK /\ DelegTypeOK /\ DispatchTypeOK /\ SchedTypeOK /\ TunnelTypeOK /\ UpdateTypeOK
=============================================================================
