-------------------------------- MODULE Monitors --------------------------------
(* Background processes of a session and the monitors its agent attaches to   *)
(* them.  The registry of jobs (background_jobs.py) is memory of the server   *)
(* and learns what became of a process from shell probes; a monitor           *)
(* (monitors.py) is a row of the scheduler, polled by its timer or by hand,   *)
(* which reports once and then cancels itself.  One session and its backend;  *)
(* a process is known by the name of its tmux session, or by its command.     *)
EXTENDS Naturals

CONSTANTS
    Name,         \* names of processes
    Watch,        \* monitors
    Refreshers,   \* threads that refresh the list: the panel's one, those of /jobs
    Interval,     \* polls until a monitor expires: expires_in // interval
    MaxSpawns,    \* bound on processes started
    MaxHands,     \* bound on polls by hand
    MaxBreaks     \* bound on crashes

ASSUME MonitorAssumption == {Interval, MaxSpawns, MaxHands, MaxBreaks} \subseteq Nat

Nameless == "nameless"
NoJob == [name |-> Nameless, process |-> 0, status |-> "none"]
Pollers == {"timer", "hand"}
NoPoll == [at |-> "idle", count |-> 0]
NoMonitor == [at |-> "none", job |-> 0, name |-> Nameless, on |-> "exit", age |-> 0, runs |-> 0]
NoRefresh == [at |-> "idle", jobs |-> {}]

VARIABLES
    proc,      \* by name: the number of its process, and whether it runs
    spawns,    \* processes started so far
    spawned,   \* name of the process that a tool call has started and not registered
    jobs,      \* _jobs: name, process that it was registered for, status
    jobCount,  \* _counter
    refresh,   \* threads that probe the jobs of the session
    stopper,   \* the thread that stops them
    monitor,   \* the row of each monitor; "age": intervals since it was attached
    poll,      \* by monitor and poller: where the execution of its action is
    serverOn,  \* the server runs
    breaks, hands,
    reports,   \* history: reports of each monitor
    excused    \* history: reasons to repeat one, polls at once and crashes before the
               \* row was cancelled

procVars == <<proc, spawns, spawned>>
jobVars == <<jobs, jobCount>>
threadVars == <<refresh, stopper>>
watchVars == <<monitor, poll, hands, reports, excused>>
serverVars == <<serverOn, breaks>>
monitorVars == <<procVars, jobVars, threadVars, watchVars, serverVars>>

Jobs == 1 .. MaxSpawns
Runs(k) == proc[k].runs
RunningJobs == {j \in Jobs : jobs[j].status = "running"}

MonitorTypeOK ==
    /\ proc \in [Name -> [number : 0 .. MaxSpawns, runs : BOOLEAN]]
    /\ jobs \in [Jobs -> [name : Name \union {Nameless}, process : 0 .. MaxSpawns,
                          status : {"none", "running", "done", "stopped"}]]
    /\ \A m \in Watch : /\ monitor[m].at \in {"none", "on", "off", "gone"}
                        /\ monitor[m].age <= Interval + 1 /\ monitor[m].runs <= Interval + 2
    /\ jobCount \in 0 .. MaxSpawns /\ spawned \in Name \union {Nameless}

MonitorInit ==
    /\ proc = [k \in Name |-> [number |-> 0, runs |-> FALSE]]
    /\ spawns = 0 /\ spawned = Nameless
    /\ jobs = [j \in Jobs |-> NoJob] /\ jobCount = 0
    /\ refresh = [r \in Refreshers |-> NoRefresh] /\ stopper = NoRefresh
    /\ monitor = [m \in Watch |-> NoMonitor]
    /\ poll = [m \in Watch |-> [e \in Pollers |-> NoPoll]]
    /\ serverOn = TRUE /\ breaks = 0 /\ hands = 0
    /\ reports = [m \in Watch |-> 0] /\ excused = [m \in Watch |-> 0]

-----------------------------------------------------------------------------
(* Processes and the registry of jobs. *)

SpawnProcess(k) ==
    /\ serverOn /\ spawned = Nameless /\ ~Runs(k) /\ spawns < MaxSpawns
    /\ proc' = [proc EXCEPT ![k] = [number |-> spawns + 1, runs |-> TRUE]]
    /\ spawns' = spawns + 1 /\ spawned' = k
    /\ UNCHANGED <<jobVars, threadVars, watchVars, serverVars>>

\* A job of this name that counts as running is the job of this spawn.
Register ==
    /\ spawned # Nameless /\ spawned' = Nameless
    /\ IF \E j \in RunningJobs : jobs[j].name = spawned THEN UNCHANGED jobVars
       ELSE /\ jobCount' = jobCount + 1
            /\ jobs' = [jobs EXCEPT ![jobCount'] = [name |-> spawned, status |-> "running",
                                                    process |-> proc[spawned].number]]
    /\ UNCHANGED <<proc, spawns, threadVars, watchVars, serverVars>>

ProcessEnds(k) ==
    /\ Runs(k) /\ proc' = [proc EXCEPT ![k].runs = FALSE]
    /\ UNCHANGED <<spawns, spawned, jobVars, threadVars, watchVars, serverVars>>

\* mark_finished
Finished(set, status) ==
    jobs' = [j \in Jobs |-> IF j \in set \intersect RunningJobs
                            THEN [jobs[j] EXCEPT !.status = status] ELSE jobs[j]]

\* refresh_statuses: list the running jobs, probe them all in one script, then
\* mark those whose process is gone.
ListForRefresh(r) ==
    /\ serverOn /\ refresh[r].at = "idle" /\ RunningJobs # {}
    /\ refresh' = [refresh EXCEPT ![r] = [at |-> "probe", jobs |-> RunningJobs]]
    /\ UNCHANGED <<procVars, jobVars, stopper, watchVars, serverVars>>

ProbeJobs(r, ok) ==
    /\ refresh[r].at = "probe"
    /\ refresh' = [refresh EXCEPT ![r] =
         IF ok THEN [at |-> "mark", jobs |-> {j \in refresh[r].jobs : ~Runs(jobs[j].name)}]
         ELSE NoRefresh]
    /\ UNCHANGED <<procVars, jobVars, stopper, watchVars, serverVars>>

MarkRefreshed(r) ==
    /\ refresh[r].at = "mark" /\ refresh' = [refresh EXCEPT ![r] = NoRefresh]
    /\ Finished(refresh[r].jobs, "done")
    /\ UNCHANGED <<procVars, jobCount, stopper, watchVars, serverVars>>

\* stop_for_session, of a stop or of the shutdown.
ListForStop ==
    /\ serverOn /\ stopper.at = "idle" /\ RunningJobs # {}
    /\ stopper' = [at |-> "kill", jobs |-> RunningJobs]
    /\ UNCHANGED <<procVars, jobVars, refresh, watchVars, serverVars>>

KillJobs(ok) ==
    LET killed == {jobs[j].name : j \in stopper.jobs}
    IN  /\ stopper.at = "kill"
        /\ IF ok THEN /\ proc' = [k \in Name |-> [proc[k] EXCEPT !.runs = @ /\ k \notin killed]]
                      /\ stopper' = [stopper EXCEPT !.at = "mark"]
           ELSE stopper' = NoRefresh /\ UNCHANGED proc
        /\ UNCHANGED <<spawns, spawned, jobVars, refresh, watchVars, serverVars>>

MarkStopped ==
    /\ stopper.at = "mark" /\ stopper' = NoRefresh /\ Finished(stopper.jobs, "stopped")
    /\ UNCHANGED <<procVars, jobCount, refresh, watchVars, serverVars>>

-----------------------------------------------------------------------------
(* Monitors. *)

Attach(m, j, on) ==
    /\ serverOn /\ monitor[m].at = "none" /\ jobs[j].status # "none"
    /\ monitor' = [monitor EXCEPT ![m] =
         [NoMonitor EXCEPT !.at = "on", !.job = j, !.name = jobs[j].name, !.on = on]]
    /\ UNCHANGED <<procVars, jobVars, threadVars, poll, hands, reports, excused, serverVars>>

\* By the agent, or on the page of the schedules.
Detach(m) ==
    /\ serverOn /\ monitor[m].at \in {"on", "off"} /\ monitor' = [monitor EXCEPT ![m].at = "gone"]
    /\ UNCHANGED <<procVars, jobVars, threadVars, poll, hands, reports, excused, serverVars>>

PollAt(m, e, place) == poll[m][e].at = place
PollGoes(m, e, place) == poll' = [poll EXCEPT ![m][e].at = place]
NextAge(m) == IF monitor[m].age > Interval THEN monitor[m].age ELSE monitor[m].age + 1

\* The count of the row is read; the deadline is checked before anything is probed.
Enter(m, e, age) ==
    /\ poll' = [poll EXCEPT ![m][e] = [at |-> IF age > Interval THEN "notify" ELSE "probe",
                                       count |-> monitor[m].runs]]
    /\ excused' = [excused EXCEPT ![m] =
         IF \A x \in Pollers : PollAt(m, x, "idle") THEN @ ELSE @ + 1]

\* A poll that still runs when the next is due lets that one drop out.
Tick(m) ==
    /\ serverOn /\ monitor[m].at = "on" /\ monitor' = [monitor EXCEPT ![m].age = NextAge(m)]
    /\ IF PollAt(m, "timer", "idle") THEN Enter(m, "timer", NextAge(m)) ELSE UNCHANGED <<poll, excused>>
    /\ UNCHANGED <<procVars, jobVars, threadVars, hands, reports, serverVars>>

PollNow(m) ==
    /\ serverOn /\ monitor[m].at = "on" /\ hands < MaxHands /\ hands' = hands + 1
    /\ PollAt(m, "hand", "idle") /\ Enter(m, "hand", monitor[m].age)
    /\ UNCHANGED <<procVars, jobVars, threadVars, monitor, reports, serverVars>>

\* An unclear answer is left to the next poll.
Probe(m, e, clear, hit) ==
    LET over == clear /\ ~Runs(monitor[m].name)
    IN  /\ PollAt(m, e, "probe") /\ (hit => clear /\ monitor[m].on = "log")
        /\ PollGoes(m, e, IF over THEN "mark" ELSE IF hit THEN "notify" ELSE "count")
        /\ UNCHANGED <<procVars, jobVars, threadVars, monitor, hands, reports, excused, serverVars>>

MarkWatched(m, e) ==
    /\ PollAt(m, e, "mark") /\ PollGoes(m, e, "notify") /\ Finished({monitor[m].job}, "done")
    /\ UNCHANGED <<procVars, jobCount, threadVars, monitor, hands, reports, excused, serverVars>>

\* A notification that fails counts as delivered.
Notify(m, e) ==
    /\ PollAt(m, e, "notify") /\ PollGoes(m, e, "last")
    /\ reports' = [reports EXCEPT ![m] = @ + 1]
    /\ UNCHANGED <<procVars, jobVars, threadVars, monitor, hands, excused, serverVars>>

\* max_runs, "backstop if self-cancel fails".
MutMaxRuns == Interval + 1
MaxRuns == Interval + 2

\* A poll that has reported does not cancel its monitor.
MutCountPoll(m, e) ==
    LET n == poll[m][e].count + 1
    IN  /\ PollAt(m, e, "count") \/ PollAt(m, e, "last")
        /\ PollGoes(m, e, "idle")
        /\ monitor' = [monitor EXCEPT ![m].runs = n,
                         ![m].at = IF @ = "on" /\ n >= MaxRuns THEN "off" ELSE @]
        /\ UNCHANGED <<procVars, jobVars, threadVars, hands, reports, excused, serverVars>>

\* The rest of _execute_action: the count that was read, plus one, and the limit.
CountPoll(m, e) ==
    LET n == poll[m][e].count + 1
    IN  /\ PollAt(m, e, "count") \/ PollAt(m, e, "last")
        /\ PollGoes(m, e, IF PollAt(m, e, "last") THEN "cancel" ELSE "idle")
        /\ monitor' = [monitor EXCEPT ![m].runs = n,
                         ![m].at = IF @ = "on" /\ n >= MaxRuns THEN "off" ELSE @]
        /\ UNCHANGED <<procVars, jobVars, threadVars, hands, reports, excused, serverVars>>

CancelMonitor(m, e) ==
    /\ PollAt(m, e, "cancel") /\ PollGoes(m, e, "idle")
    /\ monitor' = [monitor EXCEPT ![m].at = "gone"]
    /\ UNCHANGED <<procVars, jobVars, threadVars, hands, reports, excused, serverVars>>

-----------------------------------------------------------------------------
(* The server.  Processes are detached from it. *)

Break ==
    /\ serverOn /\ breaks < MaxBreaks /\ breaks' = breaks + 1 /\ serverOn' = FALSE
    /\ spawned' = Nameless /\ jobs' = [j \in Jobs |-> NoJob] /\ jobCount' = 0
    /\ refresh' = [r \in Refreshers |-> NoRefresh] /\ stopper' = NoRefresh
    /\ poll' = [m \in Watch |-> [e \in Pollers |-> NoPoll]]
    /\ excused' = [m \in Watch |-> IF \E e \in Pollers : poll[m][e].at \in {"last", "cancel"}
                                   THEN excused[m] + 1 ELSE excused[m]]
    /\ UNCHANGED <<proc, spawns, monitor, hands, reports>>

\* The deadline is a time of the clock.
TimePasses(m) ==
    /\ ~serverOn /\ monitor[m].at = "on" /\ monitor' = [monitor EXCEPT ![m].age = NextAge(m)]
    /\ UNCHANGED <<procVars, jobVars, threadVars, poll, hands, reports, excused, serverVars>>

StartAgain ==
    /\ ~serverOn /\ serverOn' = TRUE
    /\ UNCHANGED <<procVars, jobVars, threadVars, watchVars, breaks>>

PollStep(m, e) ==
    \/ \E clear, hit \in BOOLEAN : Probe(m, e, clear, hit)
    \/ MarkWatched(m, e) \/ Notify(m, e) \/ CountPoll(m, e) \/ CancelMonitor(m, e)

MonitorNext ==
    \/ \E k \in Name : SpawnProcess(k) \/ ProcessEnds(k)
    \/ Register
    \/ \E r \in Refreshers :
         ListForRefresh(r) \/ MarkRefreshed(r) \/ \E ok \in BOOLEAN : ProbeJobs(r, ok)
    \/ ListForStop \/ MarkStopped \/ \E ok \in BOOLEAN : KillJobs(ok)
    \/ \E m \in Watch :
         \/ \E j \in Jobs, on \in {"exit", "log"} : Attach(m, j, on)
         \/ Detach(m) \/ Tick(m) \/ PollNow(m) \/ TimePasses(m)
         \/ \E e \in Pollers : PollStep(m, e)
    \/ Break \/ StartAgain

\* The timer ticks, a poll that began ends, and a server is started again.
MonitorFairness ==
    /\ \A m \in Watch : WF_monitorVars(Tick(m))
                        /\ \A e \in Pollers : WF_monitorVars(PollStep(m, e))
    /\ WF_monitorVars(StartAgain)

MonitorSpec == MonitorInit /\ [][MonitorNext]_monitorVars /\ MonitorFairness

-----------------------------------------------------------------------------
Attached(m) == monitor[m].at \in {"on", "off"}

\* A monitor that is attached reports or is detached, whatever its probes say and
\* whenever the server breaks down, unless more than one poll by hand used up its runs.
MonitorReports ==
    \A m \in Watch : Attached(m) ~> reports[m] > 0 \/ monitor[m].at = "gone" \/ hands > 1

\* It reports once, but for a crash before it was cancelled and polls at the same time.
ReportsOnce == \A m \in Watch : reports[m] <= 1 + excused[m]

\* Not kept by the code (README):
\* A monitor that resolves notifies exactly once.
NotifiesOnce == \A m \in Watch : reports[m] <= 1

\* A job that counts as done has ended.
DoneJobHasEnded ==
    \A j \in Jobs : jobs[j].status = "done" => ~Runs(jobs[j].name)
                                               \/ proc[jobs[j].name].number # jobs[j].process

\* A restart only blanks the list: a job that shows as monitored is.
ShownMonitorIsReal ==
    \A m \in Watch : \A j \in Jobs :
        monitor[m].at = "on" /\ monitor[m].job = j /\ jobs[j].status = "running" =>
            monitor[m].name = jobs[j].name

\* A process that runs and was registered is in the list.
RunningProcessIsListed ==
    \A k \in Name : Runs(k) /\ spawned # k /\ breaks = 0 => \E j \in RunningJobs : jobs[j].name = k
=============================================================================
