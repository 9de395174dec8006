------------------------------- MODULE Updates -------------------------------
(* update_manager: the update and rollback threads of the server, the same    *)
(* pipelines run by the command line, the update check, the restart and the   *)
(* crash of the server, and the state file that all of them write.  The       *)
(* pipelines hold an advisory lock across processes.                          *)
EXTENDS Naturals

CONSTANTS
    Commits,    \* commits the tree can be on
    Bootable,   \* those that pass the smoke test
    First,      \* the commit at the start
    MaxJobs     \* bound on pipelines started

ASSUME UpdateAssumption ==
    Bootable \subseteq Commits /\ First \in Bootable /\ MaxJobs \in Nat

NoCommit == "no commit"
NoJob == "nobody"
WebJobs == {"web1", "web2"}
Jobs == WebJobs \union {"cli"}

VARIABLES
    head, reflog,  \* HEAD and HEAD@{1}
    inMemory,      \* _state of the server: status and previous_commit
    onDisk,        \* the state file
    serverUp,      \* the server runs
    checkOpen,     \* an update check is between its two critical sections
    job,           \* of each pipeline: what it is and where, its target and what it came from
    lockHolder,    \* of update.lock
    started,       \* pipelines so far
    before,        \* history: the commit before the last update was applied
    astray            \* history: a pipeline ended without verifying or resetting the tree

updateVars == <<head, reflog, inMemory, onDisk, serverUp, checkOpen, job, lockHolder,
                started, before, astray>>

UpdateStatus == {"idle", "checking", "available", "updating", "success", "failed"}
Record == [status : UpdateStatus, prev : Commits \union {NoCommit}]
NoPipeline == [kind |-> "none", at |-> "off", target |-> NoCommit, prev |-> NoCommit,
               seen |-> "idle"]
PipelinePlace == {"off", "lock", "begin", "reset", "verify", "undo"}
PipelineKind == {"none", "update", "rollback"}

UpdateTypeOK ==
    /\ head \in Commits /\ {reflog, before} \subseteq Commits \union {NoCommit}
    /\ inMemory \in Record /\ onDisk \in Record /\ lockHolder \in Jobs \union {NoJob}
    /\ job \in [Jobs -> [kind : PipelineKind, at : PipelinePlace,
                        target : Commits \union {NoCommit}, prev : Commits \union {NoCommit},
                        seen : UpdateStatus]]
    /\ \A j \in Jobs : job[j].at \in {"begin", "reset", "verify", "undo"} <=> lockHolder = j

UpdateInit ==
    /\ head = First /\ reflog = NoCommit
    /\ inMemory = [status |-> "idle", prev |-> NoCommit] /\ onDisk = inMemory
    /\ serverUp = TRUE /\ checkOpen = FALSE
    /\ job = [j \in Jobs |-> NoPipeline] /\ lockHolder = NoJob
    /\ started = 0 /\ before = NoCommit /\ astray = FALSE

tree == <<head, reflog>>
Status(s) == inMemory' = [inMemory EXCEPT !.status = s]
Persist == onDisk' = inMemory'
Goto(j, place) == job' = [job EXCEPT ![j].at = place]

-----------------------------------------------------------------------------
(* Starting a pipeline. *)

\* Reading a state file that says "updating", the command line takes that for a
\* crash and writes it anew, as any process does that imports the module.
Imported == IF onDisk.status = "updating" THEN [status |-> "failed", prev |-> NoCommit]
            ELSE IF onDisk.status = "success" THEN [status |-> "idle", prev |-> NoCommit]
            ELSE onDisk

Begin(j, kind, t) ==
    /\ job[j] = NoPipeline /\ started < MaxJobs /\ started' = started + 1
    /\ job' = [job EXCEPT ![j] = [kind |-> kind, at |-> "lock", target |-> t, prev |-> NoCommit,
                                      seen |-> IF j = "cli" THEN Imported.status ELSE "idle"]]

StartUpdate(j, t) ==
    /\ serverUp /\ j \in WebJobs /\ inMemory.status # "updating"
    /\ Begin(j, "update", t) /\ Status("updating") /\ Persist
    /\ UNCHANGED <<tree, serverUp, checkOpen, lockHolder, before, astray>>

TriggerRollback(j) ==
    /\ serverUp /\ j \in WebJobs /\ inMemory.status # "updating"
    /\ Begin(j, "rollback", NoCommit) /\ Status("updating") /\ Persist
    /\ UNCHANGED <<tree, serverUp, checkOpen, lockHolder, before, astray>>

RunCli(kind, t) ==
    /\ Begin("cli", kind, t) /\ onDisk' = Imported
    /\ UNCHANGED <<tree, inMemory, serverUp, checkOpen, lockHolder, before, astray>>

-----------------------------------------------------------------------------
(* apply_update and apply_rollback. *)

\* The end of a pipeline: the server's threads write the outcome.
Finish(j, outcome) ==
    /\ job' = [job EXCEPT ![j] = NoPipeline]
    /\ IF j \in WebJobs THEN Status(outcome) /\ Persist ELSE UNCHANGED inMemory

LockHeld(j) ==
    /\ job[j].at = "lock" /\ lockHolder # NoJob
    /\ Finish(j, "failed") /\ (j = "cli" => UNCHANGED onDisk)
    /\ UNCHANGED <<tree, serverUp, checkOpen, lockHolder, started, before, astray>>

TakeLock(j) ==
    /\ job[j].at = "lock" /\ lockHolder = NoJob /\ lockHolder' = j
    /\ Goto(j, "begin")
    /\ UNCHANGED <<tree, inMemory, onDisk, serverUp, checkOpen, started, before, astray>>

\* The commit to return to is persisted with the state of the process at hand.
RecordPrevious(j) ==
    /\ job[j].at = "begin" /\ job[j].kind = "update"
    /\ job' = [job EXCEPT ![j].at = "reset", ![j].prev = head]
    /\ IF j \in WebJobs THEN inMemory' = [inMemory EXCEPT !.prev = head] /\ Persist
       ELSE onDisk' = [status |-> job[j].seen, prev |-> head] /\ UNCHANGED inMemory
    /\ UNCHANGED <<tree, serverUp, checkOpen, lockHolder, started, before, astray>>

\* _resolve_rollback_target
RollbackTarget == IF onDisk.prev # NoCommit THEN onDisk.prev ELSE reflog

ResolveTarget(j) ==
    /\ job[j].at = "begin" /\ job[j].kind = "rollback" /\ RollbackTarget # NoCommit
    /\ job' = [job EXCEPT ![j].at = "reset", ![j].target = RollbackTarget]
    /\ UNCHANGED <<tree, inMemory, onDisk, serverUp, checkOpen, lockHolder, started, before, astray>>

\* No network, no target, or git refuses: nothing has been touched.
StepFails(j) ==
    /\ job[j].at \in {"begin", "reset"} /\ lockHolder' = NoJob
    /\ Finish(j, "failed") /\ (j = "cli" => UNCHANGED onDisk)
    /\ UNCHANGED <<tree, serverUp, checkOpen, started, before, astray>>

ResetTree(j) ==
    /\ job[j].at = "reset" /\ Goto(j, "verify")
    /\ head' = job[j].target /\ reflog' = head
    /\ before' = IF job[j].kind = "update" THEN head ELSE before
    /\ UNCHANGED <<inMemory, onDisk, serverUp, checkOpen, lockHolder, started, astray>>

\* Dependencies, then the smoke test, which imports the application and with it
\* the module that takes "updating" for a crash.
Verified(j) ==
    /\ job[j].at = "verify" /\ head \in Bootable /\ lockHolder' = NoJob
    /\ Finish(j, "success") /\ (j = "cli" => onDisk' = Imported) /\ astray' = FALSE
    /\ UNCHANGED <<tree, serverUp, checkOpen, started, before>>

MutRejected(j) ==
    /\ job[j].at = "verify" /\ lockHolder' = NoJob
    /\ astray' = (astray \/ job[j].kind = "rollback")
    /\ Finish(j, "failed") /\ (j = "cli" => onDisk' = Imported)
    /\ UNCHANGED <<tree, serverUp, checkOpen, started, before>>

\* A failed rollback leaves the tree where it is.
Rejected(j) ==
    /\ job[j].at = "verify"
    /\ IF job[j].kind = "update"
       THEN Goto(j, "undo") /\ onDisk' = Imported /\ UNCHANGED <<inMemory, lockHolder, astray>>
       ELSE /\ lockHolder' = NoJob /\ astray' = TRUE
            /\ Finish(j, "failed") /\ (j = "cli" => onDisk' = Imported)
    /\ UNCHANGED <<tree, serverUp, checkOpen, started, before>>

Undo(j) ==
    /\ job[j].at = "undo" /\ lockHolder' = NoJob
    /\ head' = job[j].prev /\ reflog' = head
    /\ Finish(j, "failed") /\ (j = "cli" => UNCHANGED onDisk)
    /\ UNCHANGED <<serverUp, checkOpen, started, before, astray>>

\* The result of the reset that undoes is not looked at: the tree stays where it is.
UndoRefused(j) ==
    /\ job[j].at = "undo" /\ lockHolder' = NoJob /\ astray' = TRUE
    /\ Finish(j, "failed") /\ (j = "cli" => UNCHANGED onDisk)
    /\ UNCHANGED <<tree, serverUp, checkOpen, started, before>>

\* After the reset a step raises (a command that cannot be started, the progress
\* call): the finally releases the lock, and nothing is undone.
StepRaises(j) ==
    /\ job[j].at \in {"verify", "undo"} /\ lockHolder' = NoJob /\ astray' = TRUE
    /\ Finish(j, "failed") /\ (j = "cli" => onDisk' \in {onDisk, Imported})
    /\ UNCHANGED <<tree, serverUp, checkOpen, started, before>>

-----------------------------------------------------------------------------
(* The update check, the restart and the crash of the server. *)

CheckBegins ==
    /\ serverUp /\ ~checkOpen /\ checkOpen' = TRUE /\ Status("checking") /\ Persist
    /\ UNCHANGED <<tree, serverUp, job, lockHolder, started, before, astray>>

\* An update that began meanwhile keeps its status, unless the check failed.
CheckEnds(result) ==
    /\ serverUp /\ checkOpen /\ checkOpen' = FALSE
    /\ IF inMemory.status = "updating" /\ result # "error" THEN UNCHANGED <<inMemory, onDisk>>
       ELSE Status(IF result = "newer" THEN "available" ELSE "idle") /\ Persist
    /\ UNCHANGED <<tree, serverUp, job, lockHolder, started, before, astray>>

\* The threads of the server end where they are, and the lock with them.
ServerGone(asked) ==
    /\ serverUp /\ serverUp' = FALSE /\ checkOpen' = FALSE
    /\ astray' = (astray \/ \E j \in WebJobs : job[j].at \in {"verify", "undo"})
    /\ job' = [j \in Jobs |-> IF j \in WebJobs THEN NoPipeline ELSE job[j]]
    /\ lockHolder' = IF lockHolder \in WebJobs THEN NoJob ELSE lockHolder
    /\ IF asked THEN Status("idle") /\ Persist ELSE UNCHANGED <<inMemory, onDisk>>
    /\ UNCHANGED <<tree, started, before>>

\* The module is loaded again; previous_commit is not among what it reads.
ServerBoots ==
    /\ ~serverUp /\ serverUp' = TRUE
    /\ inMemory' = [status |-> Imported.status, prev |-> NoCommit] /\ onDisk' = Imported
    /\ UNCHANGED <<tree, checkOpen, job, lockHolder, started, before, astray>>

CliKilled ==
    /\ job["cli"].at # "off"
    /\ astray' = (astray \/ job["cli"].at \in {"verify", "undo"})
    /\ job' = [job EXCEPT !["cli"] = NoPipeline]
    /\ lockHolder' = IF lockHolder = "cli" THEN NoJob ELSE lockHolder
    /\ UNCHANGED <<tree, inMemory, onDisk, serverUp, checkOpen, started, before>>

UpdateNext ==
    \/ \E j \in WebJobs, t \in Commits : t # head /\ StartUpdate(j, t)
    \/ \E j \in WebJobs : TriggerRollback(j)
    \/ \E t \in Commits : t # head /\ RunCli("update", t)
    \/ RunCli("rollback", NoCommit)
    \/ \E j \in Jobs : LockHeld(j) \/ TakeLock(j) \/ RecordPrevious(j) \/ ResolveTarget(j)
                       \/ StepFails(j) \/ ResetTree(j) \/ Verified(j) \/ Rejected(j) \/ Undo(j)
                       \/ UndoRefused(j) \/ StepRaises(j)
    \/ CheckBegins \/ \E result \in {"newer", "none", "error"} : CheckEnds(result)
    \/ \E asked \in BOOLEAN : ServerGone(asked)
    \/ ServerBoots \/ CliKilled

UpdateSpec == UpdateInit /\ [][UpdateNext]_updateVars

-----------------------------------------------------------------------------
(* Properties. *)

\* Whoever updates, from the server or the command line: when nobody is at it, the
\* tree is on a commit that boots, or it was left by a pipeline that ended without
\* its own undo (cut off with its process, a step raised, git refused the reset
\* that undoes, a rollback whose target was rejected) and no pipeline has passed
\* the smoke test since.
TreeStaysBootable == lockHolder = NoJob /\ ~astray => head \in Bootable

\* "If a gating step fails, the tree is reset back to the prior commit so the
\* running server stays bootable" (apply_update): an update that failed leaves the
\* commit it began with.  The reset may be refused, or a step raise before it.
FailedUpdateIsUndone ==
    [][\A j \in WebJobs : job[j].kind = "update" /\ job[j].at \in {"verify", "undo"}
                         /\ job'[j].at = "off" /\ serverUp' /\ inMemory'.status = "failed"
                         => head' = job[j].prev]_updateVars

\* "Persist the pre-update commit so rollback is deterministic"
\* (_record_previous_commit): a rollback returns to the commit before the update.
RollbackIsDeterministic ==
    \A j \in Jobs : job[j].kind = "rollback" /\ job[j].at = "reset" /\ before # NoCommit
                    => job[j].target = before
=============================================================================
