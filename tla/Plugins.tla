------------------------------- MODULE Plugins -------------------------------
(* PluginManager (plugin_lifecycle.py): requests of the web server install,   *)
(* switch, configure and uninstall plugins, each on a thread of its own and   *)
(* without a lock; every one of them ends in the unloading and loading of a   *)
(* plugin.  Each load makes a new instance of the plugin, with a listener on  *)
(* the event stream and with hooks in the registries of plugin_hooks.py.  The *)
(* command line changes the database or the files and does not tell the       *)
(* server.  One event, one registry of hooks and one namespace stand for all; *)
(* blueprints, cards and the code of a plugin are left out.                   *)
EXTENDS Naturals

CONSTANTS
    Plugin,
    Version,       \* what a plugin's directory may hold
    SwitchedOn,    \* the versions whose plugin.json says "enabled": true
    Sound,         \* the versions whose handler.py can be imported
    PluginAdmins,  \* threads of requests
    MaxRequests    \* bound on requests, those of the command line included

ASSUME PluginAssumption ==
    /\ Version \subseteq Nat \ {0} /\ SwitchedOn \union Sound \subseteq Version
    /\ MaxRequests \in Nat

NoFiles == 0
Unread == {"unread"}
\* An instance: the plugin, a number, the version it was made from.
NoInstance == <<>>

VARIABLES
    inDb,       \* plugin_enabled of the database
    files,      \* the version in the plugin's directory
    module,     \* _modules
    bridge,     \* _event_bridges
    listeners,  \* of the event stream
    hooks,      \* a registry of hooks
    stateFn,    \* _state_handlers: who answers for the plugin's namespace
    commands,   \* the slash commands: plugin and version that declared them
    navCache,   \* _nav_cache
    page,       \* the nav items a page render has listed and not stored
    req,        \* the request of each thread
    made,       \* instances so far, by plugin
    requests,   \* requests so far
    known     \* history: the server looked at the files since they, or the switch, changed

pluginVars == <<inDb, files, module, bridge, listeners, hooks, stateFn, commands, navCache,
                page, req, made, requests, known>>
registries == <<listeners, hooks, stateFn, commands>>
stored == <<inDb, files>>

Instance == Plugin \X (1 .. MaxRequests + 1) \X Version
NoReq == [at |-> "idle", p |-> CHOOSE p \in Plugin : TRUE, op |-> "none", v |-> NoFiles,
         inst |-> NoInstance, kept |-> {}]

PluginTypeOK ==
    /\ inDb \in [Plugin -> BOOLEAN] /\ files \in [Plugin -> Version \union {NoFiles}]
    /\ {module, bridge, stateFn} \subseteq [Plugin -> Instance \union {NoInstance}]
    /\ listeners \union hooks \subseteq Instance /\ commands \subseteq Plugin \X Version
    /\ \A x \in PluginAdmins : req[x].p \in Plugin /\ req[x].kept \subseteq hooks \union Instance

\* _load_all: the database says which plugins are loaded at the start.
PluginInit ==
    /\ files \in [Plugin -> Version] /\ inDb \in [Plugin -> BOOLEAN]
    /\ LET first == [p \in Plugin |-> <<p, 1, files[p]>>]
           up == {p \in Plugin : inDb[p] /\ files[p] \in Sound}
           ifUp == [p \in Plugin |-> IF p \in up THEN first[p] ELSE NoInstance]
       IN  /\ module = ifUp /\ bridge = ifUp /\ stateFn = ifUp
           /\ listeners = {first[p] : p \in up} /\ hooks = listeners
    /\ commands = {<<i[1], i[3]>> : i \in listeners}
    /\ navCache = Unread /\ page = Unread
    /\ req = [x \in PluginAdmins |-> NoReq]
    /\ made = [p \in Plugin |-> 1] /\ requests = 0 /\ known = inDb

ReqGoes(x, place) == req' = [req EXCEPT ![x].at = place]
ReqDone(x) == req' = [req EXCEPT ![x] = NoReq]
ReqAt(x, place) == req[x].at = place
ReqOf(x) == req[x].p
OnDisk(p) == files[p] # NoFiles

-----------------------------------------------------------------------------
(* Requests. *)

BeginRequest(x, p, op, place) ==
    /\ ReqAt(x, "idle") /\ requests < MaxRequests /\ requests' = requests + 1
    /\ req' = [req EXCEPT ![x] = [NoReq EXCEPT !.at = place, !.p = p, !.op = op]]

SetPluginEnabled(x, p, on) ==
    /\ BeginRequest(x, p, "switch", "unload") /\ OnDisk(p)
    /\ inDb' = [inDb EXCEPT ![p] = on] /\ known' = [known EXCEPT ![p] = FALSE]
    /\ UNCHANGED <<files, module, bridge, registries, navCache, page, made>>

\* What is configured is data: what counts is the reload.
SetPluginConfig(x, p) ==
    /\ BeginRequest(x, p, "configure", "unload") /\ OnDisk(p)
    /\ UNCHANGED <<stored, module, bridge, registries, navCache, page, made, known>>

\* Over a plugin that is there, only with force: its directory is removed first.
InstallPlugin(x, p, v) ==
    /\ ReqAt(x, "idle") /\ requests < MaxRequests /\ requests' = requests + 1
    /\ req' = [req EXCEPT ![x] = [NoReq EXCEPT !.at = "copy", !.p = p, !.op = "install", !.v = v]]
    /\ files' = [files EXCEPT ![p] = NoFiles] /\ known' = [known EXCEPT ![p] = FALSE]
    /\ UNCHANGED <<inDb, module, bridge, registries, navCache, page, made>>

\* copytree wants a directory of its own.
CopyFiles(x) ==
    /\ ReqAt(x, "copy")
    /\ IF OnDisk(ReqOf(x)) THEN ReqDone(x) /\ UNCHANGED <<files, known>>
       ELSE /\ files' = [files EXCEPT ![ReqOf(x)] = req[x].v] /\ ReqGoes(x, "unload")
            /\ known' = [known EXCEPT ![ReqOf(x)] = FALSE]
    /\ UNCHANGED <<inDb, module, bridge, registries, navCache, page, made, requests>>

UninstallPlugin(x, p) ==
    /\ BeginRequest(x, p, "uninstall", "unload") /\ OnDisk(p)
    /\ UNCHANGED <<stored, module, bridge, registries, navCache, page, made, known>>

RemoveFiles(x) ==
    /\ ReqAt(x, "remove") /\ ReqDone(x) /\ files' = [files EXCEPT ![ReqOf(x)] = NoFiles]
    /\ known' = [known EXCEPT ![ReqOf(x)] = OnDisk(ReqOf(x)) \/ @]
    /\ UNCHANGED <<inDb, module, bridge, registries, navCache, page, made, requests>>

\* The command line loads the plugin in its own process only.
SwitchByCli(p, on) ==
    /\ requests < MaxRequests /\ requests' = requests + 1 /\ OnDisk(p)
    /\ inDb' = [inDb EXCEPT ![p] = on] /\ known' = [known EXCEPT ![p] = FALSE]
    /\ UNCHANGED <<files, module, bridge, registries, navCache, page, req, made>>

InstallByCli(p, v) ==
    /\ requests < MaxRequests /\ requests' = requests + 1
    /\ files' = [files EXCEPT ![p] = v] /\ known' = [known EXCEPT ![p] = FALSE]
    /\ UNCHANGED <<inDb, module, bridge, registries, navCache, page, req, made>>

-----------------------------------------------------------------------------
(* _unload_plugin *)

\* The caches are invalidated; on_disable is the plugin's own code.
DropModule(x) ==
    /\ ReqAt(x, "unload") /\ ReqGoes(x, "unsubscribe")
    /\ navCache' = Unread /\ module' = [module EXCEPT ![ReqOf(x)] = NoInstance]
    /\ UNCHANGED <<stored, bridge, registries, page, made, requests, known>>

Unsubscribe(x) ==
    /\ ReqAt(x, "unsubscribe") /\ ReqGoes(x, "filter")
    /\ listeners' = listeners \ {bridge[ReqOf(x)]}
    /\ bridge' = [bridge EXCEPT ![ReqOf(x)] = NoInstance]
    /\ UNCHANGED <<stored, module, hooks, stateFn, commands, navCache, page, made, requests, known>>

\* registry[:] = [...]: the list is built and then put in place.
FilterHooks(x) ==
    /\ ReqAt(x, "filter")
    /\ req' = [req EXCEPT ![x].at = "unhook", ![x].kept = {h \in hooks : h[1] # ReqOf(x)}]
    /\ UNCHANGED <<stored, module, bridge, registries, navCache, page, made, requests, known>>

\* The commands of the plugin.json on disk go, too.
Unhook(x) ==
    /\ ReqAt(x, "unhook") /\ hooks' = req[x].kept
    /\ commands' = commands \ {<<ReqOf(x), files[ReqOf(x)]>>}
    /\ req' = [req EXCEPT ![x].at = IF req[x].op = "uninstall" THEN "remove" ELSE "manifest",
                          ![x].kept = {}]
    /\ UNCHANGED <<stored, module, bridge, listeners, stateFn, navCache, page, made, requests, known>>

-----------------------------------------------------------------------------
(* The rest of reload_plugin, and _load_plugin. *)

\* A plugin that is in already is not loaded again.
MutReadManifest(x) ==
    /\ ReqAt(x, "manifest")
    /\ IF files[ReqOf(x)] \in SwitchedOn /\ module[ReqOf(x)] = NoInstance
         THEN ReqGoes(x, "import")
         ELSE ReqDone(x)
    /\ known' = [known EXCEPT ![ReqOf(x)] = TRUE]
    /\ UNCHANGED <<stored, module, bridge, registries, navCache, page, made, requests>>

ReadManifest(x) ==
    /\ ReqAt(x, "manifest")
    /\ IF files[ReqOf(x)] \in SwitchedOn THEN ReqGoes(x, "import") ELSE ReqDone(x)
    /\ known' = [known EXCEPT ![ReqOf(x)] = TRUE]
    /\ UNCHANGED <<stored, module, bridge, registries, navCache, page, made, requests>>

\* exec_module: the module registers its hooks and state handler.  A plugin whose
\* handler.py is gone, or fails, is loaded without it.
ImportModule(x) ==
    LET p == ReqOf(x)
        i == <<p, made[p] + 1, files[p]>>
    IN  /\ ReqAt(x, "import")
        /\ IF files[p] \in Sound
             THEN /\ made' = [made EXCEPT ![p] = @ + 1]
                  /\ hooks' = hooks \union {i} /\ stateFn' = [stateFn EXCEPT ![p] = i]
                  /\ req' = [req EXCEPT ![x].at = "enable", ![x].inst = i, ![x].v = files[p]]
             ELSE /\ req' = [req EXCEPT ![x].at = "commands", ![x].v = files[p]]
                  /\ UNCHANGED <<made, hooks, stateFn>>
        /\ UNCHANGED <<stored, module, bridge, listeners, commands, navCache, page, requests, known>>

Enable(x) ==
    /\ ReqAt(x, "enable") /\ ReqGoes(x, "subscribe")
    /\ module' = [module EXCEPT ![ReqOf(x)] = req[x].inst]
    /\ UNCHANGED <<stored, bridge, registries, navCache, page, made, requests, known>>

Subscribe(x) ==
    /\ ReqAt(x, "subscribe") /\ ReqGoes(x, "publish") /\ listeners' = listeners \union {req[x].inst}
    /\ UNCHANGED <<stored, module, bridge, hooks, stateFn, commands, navCache, page, made, requests,
                   known>>

PublishBridge(x) ==
    /\ ReqAt(x, "publish") /\ ReqGoes(x, "commands") /\ bridge' = [bridge EXCEPT ![ReqOf(x)] = req[x].inst]
    /\ UNCHANGED <<stored, module, registries, navCache, page, made, requests, known>>

RegisterCommands(x) ==
    /\ ReqAt(x, "commands") /\ ReqDone(x)
    /\ commands' = IF req[x].inst = NoInstance THEN commands
                   ELSE commands \union {<<ReqOf(x), req[x].v>>}
    /\ UNCHANGED <<stored, module, bridge, listeners, hooks, stateFn, navCache, page, made, requests,
                   known>>

-----------------------------------------------------------------------------
(* get_nav_items, for every page. *)

SwitchedOnHere == {p \in Plugin : OnDisk(p) /\ inDb[p]}

ListNavItems ==
    /\ navCache = Unread /\ page = Unread /\ page' = SwitchedOnHere
    /\ UNCHANGED <<stored, module, bridge, registries, navCache, req, made, requests, known>>

StoreNavItems ==
    /\ page # Unread /\ navCache' = page /\ page' = Unread
    /\ UNCHANGED <<stored, module, bridge, registries, req, made, requests, known>>

PluginNext ==
    \/ \E x \in PluginAdmins, p \in Plugin :
         \/ \E on \in BOOLEAN : SetPluginEnabled(x, p, on)
         \/ \E v \in Version : InstallPlugin(x, p, v)
         \/ SetPluginConfig(x, p) \/ UninstallPlugin(x, p)
    \/ \E p \in Plugin, on \in BOOLEAN : SwitchByCli(p, on)
    \/ \E p \in Plugin, v \in Version \union {NoFiles} : InstallByCli(p, v)
    \/ \E x \in PluginAdmins :
         \/ CopyFiles(x) \/ RemoveFiles(x)
         \/ DropModule(x) \/ Unsubscribe(x) \/ FilterHooks(x) \/ Unhook(x)
         \/ ReadManifest(x) \/ ImportModule(x) \/ Enable(x) \/ Subscribe(x) \/ PublishBridge(x)
         \/ RegisterCommands(x)
    \/ ListNavItems \/ StoreNavItems

PluginSpec == PluginInit /\ [][PluginNext]_pluginVars

-----------------------------------------------------------------------------
NoRequest == \A x \in PluginAdmins : ReqAt(x, "idle")
Instances(p, set) == {i \in set : i[1] = p}
Works(p) == known[p] /\ inDb[p] /\ files[p] \in SwitchedOn \intersect Sound

\* However requests for a plugin overlap, when they are over, a plugin that is
\* switched on in the database and in its plugin.json listens to its events, with
\* the code that is in its directory.
PluginIsHeard ==
    NoRequest => \A p \in Plugin : Works(p) => \E i \in Instances(p, listeners) : i[3] = files[p]

\* Not kept by the code (README):
\* A plugin that is switched off has no listener; one that is switched on, has one.
DisabledPluginIsUnloaded ==
    NoRequest => \A p \in Plugin : known[p] /\ ~inDb[p] => Instances(p, listeners) = {}
EnabledPluginIsLoaded ==
    NoRequest => \A p \in Plugin :
        known[p] /\ inDb[p] /\ files[p] \in Sound => Instances(p, listeners) # {}

\* A plugin has its hooks, whatever other plugins do.
PluginKeepsItsHooks == NoRequest => \A p \in Plugin : Works(p) => Instances(p, hooks) # {}

\* An event is handled once.
OneListener ==
    NoRequest => \A p \in Plugin : \A i, j \in Instances(p, listeners) : i = j

\* Nothing of a plugin stays when it is uninstalled.
UninstalledPluginIsGone ==
    NoRequest => \A p \in Plugin :
        known[p] /\ ~OnDisk(p) => Instances(p, listeners) = {} /\ stateFn[p] = NoInstance

\* The commands are those of the plugins as they are.
CommandsAreDeclared ==
    NoRequest => \A c \in commands : known[c[1]] => files[c[1]] = c[2]

\* The navigation shows the plugins that are switched on.
NavShowsEnabled ==
    NoRequest /\ (\A p \in Plugin : known[p]) => navCache \in {Unread, SwitchedOnHere}
=============================================================================
