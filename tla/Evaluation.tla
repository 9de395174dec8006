------------------------------ MODULE Evaluation ------------------------------
(* EvaluationEngine (evaluator/engine.py): runs of tests against a model, each *)
(* on a thread of its own with a pool of one worker per domain.  The engine   *)
(* knows one run: the flags is_running and was_interrupted and the current    *)
(* run are shared by every thread that has not ended yet, and the rows of the *)
(* database are written by all of them.  Requests start, stop, resume, reset  *)
(* and delete runs and replay a test; the server may die.  Scores, models,    *)
(* legacy tests and disabled tests are left out.                              *)
EXTENDS Naturals, FiniteSets

CONSTANTS
    EvalTests,        \* tests: <<domain, level, number>>
    NumLevels,        \* five in the code
    MaxEvalRuns,      \* bound on runs
    MaxEvalThreads,   \* bound on starts and resumes
    MaxEvalRequests   \* bound on all other requests and on crashes

ASSUME EvaluationAssumption ==
    /\ NumLevels \in Nat /\ \A t \in EvalTests : t[2] \in 1 .. NumLevels /\ t[3] \in Nat
    /\ {MaxEvalRuns, MaxEvalThreads, MaxEvalRequests} \subseteq Nat /\ IsFiniteSet(EvalTests)

Domain == {t[1] : t \in EvalTests}
Level == 1 .. NumLevels
Cell == Domain \X Level
TestsIn(cell) == {t \in EvalTests : t[1] = cell[1] /\ t[2] = cell[2]}
Run == 1 .. MaxEvalRuns
Threads == 1 .. MaxEvalThreads

VARIABLES
    engine,     \* is_running, was_interrupted, current_run_id
    runRow,     \* evaluation_runs: status, and whether completed_at is set
    results,    \* individual_test_results: how many of each test
    cellRow,    \* test_results: status, and the tests its score was made from
    evalThread, \* the threads of runs
    domainWork,     \* by thread and domain: where the worker is, what it has to do and did
    replay,     \* the test that is replayed
    clearing,   \* a reset that has not deleted its runs yet
    evalRequests,
    mixed,      \* history: runs with a thread while another thread, or a replay, lived
    raised      \* history: tests that failed with an exception, by run

evalVars == <<engine, runRow, results, cellRow, evalThread, domainWork, replay, clearing,
              evalRequests, mixed, raised>>
rows == <<runRow, results, cellRow>>
evalHistory == <<mixed, raised>>

NoRun == 0
NoTest == <<>>
IdleEngine == [running |-> FALSE, interrupted |-> FALSE, current |-> NoRun]
NoRunRow == [status |-> "none", dated |-> FALSE]
NoCell == [status |-> "none", of |-> {}]
OffThread == [at |-> "off", run |-> NoRun, resumed |-> FALSE, skip |-> {}, level |-> 0, mark |-> NoRun]
OffWorker == [at |-> "off", todo |-> {}, did |-> {}]
NoResults == [t \in EvalTests |-> 0]
NoCells == [c \in Cell |-> NoCell]

EvalTypeOK ==
    /\ engine.current \in Run \union {NoRun}
    /\ runRow \in [Run -> [status : {"none", "running", "interrupted", "completed"}, dated : BOOLEAN]]
    /\ \A r \in Run, t \in EvalTests : results[r][t] \in Nat
    /\ \A r \in Run, c \in Cell : cellRow[r][c].of \subseteq EvalTests
    /\ \A k \in Threads, d \in Domain : domainWork[k][d].todo \union domainWork[k][d].did \subseteq EvalTests

EvalInit ==
    /\ engine = IdleEngine /\ runRow = [r \in Run |-> NoRunRow]
    /\ results = [r \in Run |-> NoResults] /\ cellRow = [r \in Run |-> NoCells]
    /\ evalThread = [k \in Threads |-> OffThread]
    /\ domainWork = [k \in Threads |-> [d \in Domain |-> OffWorker]]
    /\ replay = [run |-> NoRun, test |-> NoTest] /\ clearing = FALSE /\ evalRequests = 0
    /\ mixed = {} /\ raised = {}

ThreadAt(k, place) == evalThread[k].at = place
ThreadGoes(k, place) == evalThread' = [evalThread EXCEPT ![k].at = place]
RunOf(k) == evalThread[k].run
ThreadLives(k) == evalThread[k].at \notin {"off", "ended"}
RunsWithThread == {RunOf(k) : k \in {k \in Threads : ThreadLives(k)}}
Begun == Cardinality({k \in Threads : ~ThreadAt(k, "off")})
Replaying == replay.run # NoRun
Has(r, t) == results[r][t] > 0

-----------------------------------------------------------------------------
(* Requests. *)

\* start_evaluation and resume_evaluation, under the lock: a new thread of run r.
NewThread(r, resumed, skip) ==
    /\ ~engine.running /\ Begun < MaxEvalThreads
    /\ engine' = [running |-> TRUE, interrupted |-> FALSE, current |-> r]
    /\ runRow' = [runRow EXCEPT ![r].status = "running"]
    /\ evalThread' = [evalThread EXCEPT ![Begun + 1] =
         [at |-> "levels", run |-> r, resumed |-> resumed, skip |-> skip, level |-> 0, mark |-> NoRun]]
    /\ mixed' = mixed \union (IF RunsWithThread # {} \/ Replaying THEN RunsWithThread \union {r} ELSE {})
    /\ UNCHANGED <<results, cellRow, domainWork, replay, clearing, evalRequests, raised>>

StartEvaluation ==
    \E r \in Run : /\ r = 1 + Cardinality({s \in Run : \E k \in Threads : RunOf(k) = s})
                   /\ NewThread(r, FALSE, {})

\* The tests that are done are run again.
MutResumeEvaluation(r) ==
    runRow[r].status = "interrupted" /\ NewThread(r, TRUE, {})

\* A run that its row calls running, or completed, is not resumed.
ResumeEvaluation(r) ==
    runRow[r].status = "interrupted" /\ NewThread(r, TRUE, {t \in EvalTests : Has(r, t)})

EvalRequest == evalRequests < MaxEvalRequests /\ evalRequests' = evalRequests + 1

\* Whatever the engine does.
StopEvaluation ==
    /\ EvalRequest /\ engine' = [engine EXCEPT !.running = FALSE, !.interrupted = TRUE]
    /\ UNCHANGED <<rows, evalThread, domainWork, replay, clearing, evalHistory>>

\* The engine forgets its run; then every run without a date is deleted.
ResetState ==
    /\ EvalRequest /\ ~clearing /\ engine' = IdleEngine /\ clearing' = TRUE
    /\ UNCHANGED <<rows, evalThread, domainWork, replay, evalHistory>>

Deleted(gone) ==
    /\ runRow' = [r \in Run |-> IF r \in gone THEN NoRunRow ELSE runRow[r]]
    /\ results' = [r \in Run |-> IF r \in gone THEN NoResults ELSE results[r]]
    /\ cellRow' = [r \in Run |-> IF r \in gone THEN NoCells ELSE cellRow[r]]

ClearIncompleteRuns ==
    /\ clearing /\ clearing' = FALSE /\ Deleted({r \in Run : ~runRow[r].dated})
    /\ UNCHANGED <<engine, evalThread, domainWork, replay, evalRequests, evalHistory>>

DeleteRun(r) ==
    /\ EvalRequest /\ runRow[r].status # "none" /\ Deleted({r})
    /\ UNCHANGED <<engine, evalThread, domainWork, replay, clearing, evalHistory>>

\* The old result goes before the test is run again; a replay that fails leaves none.
ReplayTest(r, t) ==
    /\ EvalRequest /\ ~Replaying /\ ~engine.running /\ runRow[r].status # "none"
    /\ replay' = [run |-> r, test |-> t] /\ results' = [results EXCEPT ![r][t] = 0]
    /\ mixed' = IF r \in RunsWithThread THEN mixed \union {r} ELSE mixed
    /\ UNCHANGED <<engine, runRow, cellRow, evalThread, domainWork, clearing, raised>>

ReplayEnds(ok) ==
    /\ Replaying /\ replay' = [run |-> NoRun, test |-> NoTest]
    /\ IF ok THEN results' = [results EXCEPT ![replay.run][replay.test] = @ + 1] /\ UNCHANGED raised
       ELSE raised' = raised \union {<<replay.run, replay.test>>} /\ UNCHANGED results
    /\ UNCHANGED <<engine, runRow, cellRow, evalThread, domainWork, clearing, evalRequests, mixed>>

\* What was running leaves a row that says so.
ServerDies ==
    /\ EvalRequest /\ engine' = IdleEngine /\ clearing' = FALSE
    /\ evalThread' = [k \in Threads |-> IF ThreadLives(k) THEN [evalThread[k] EXCEPT !.at = "ended"]
                                        ELSE evalThread[k]]
    /\ domainWork' = [k \in Threads |-> [d \in Domain |-> OffWorker]]
    /\ replay' = [run |-> NoRun, test |-> NoTest]
    /\ raised' = IF Replaying THEN raised \union {<<replay.run, replay.test>>} ELSE raised
    /\ UNCHANGED <<rows, mixed>>

-----------------------------------------------------------------------------
(* The thread of a run: level by level, the domains of one in parallel. *)

EnterLevel(k) ==
    LET next == evalThread[k].level + 1
    IN  /\ ThreadAt(k, "levels")
        /\ IF engine.running /\ next \in Level
             THEN /\ evalThread' = [evalThread EXCEPT ![k].at = "level", ![k].level = next]
                  /\ domainWork' = [domainWork EXCEPT ![k] = [d \in Domain |-> [OffWorker EXCEPT !.at = "queued"]]]
             ELSE ThreadGoes(k, "recalc") /\ UNCHANGED domainWork
        /\ UNCHANGED <<engine, rows, replay, clearing, evalRequests, evalHistory>>

CellOf(k, d) == <<d, evalThread[k].level>>
WorkerAt(k, d, place) == domainWork[k][d].at = place
ComesFirst(t, set) == \A u \in set : t[3] <= u[3]

\* A domain that was not submitted before a stop is left out.
SkipDomain(k, d) ==
    /\ WorkerAt(k, d, "queued") /\ ~engine.running
    /\ domainWork' = [domainWork EXCEPT ![k][d] = OffWorker]
    /\ UNCHANGED <<engine, rows, evalThread, replay, clearing, evalRequests, evalHistory>>

\* _run_single_domain_level: what a resumed run has done already is not done again.
LoadTests(k, d) ==
    LET left == TestsIn(CellOf(k, d)) \ evalThread[k].skip
    IN  /\ WorkerAt(k, d, "queued")
        /\ IF left = {} THEN domainWork' = [domainWork EXCEPT ![k][d] = OffWorker] /\ UNCHANGED cellRow
           ELSE /\ domainWork' = [domainWork EXCEPT ![k][d] = [at |-> "next", todo |-> left, did |-> {}]]
                /\ cellRow' = [cellRow EXCEPT ![RunOf(k)][CellOf(k, d)].status = "running"]
        /\ UNCHANGED <<engine, runRow, results, evalThread, replay, clearing, evalRequests, evalHistory>>

BeginTest(k, d) ==
    /\ WorkerAt(k, d, "next")
    /\ domainWork' = [domainWork EXCEPT ![k][d].at =
         IF engine.running /\ domainWork[k][d].todo # {} THEN "testing" ELSE "score"]
    /\ UNCHANGED <<engine, rows, evalThread, replay, clearing, evalRequests, evalHistory>>

EndTest(k, d) ==
    \E t \in domainWork[k][d].todo :
        /\ WorkerAt(k, d, "testing") /\ ComesFirst(t, domainWork[k][d].todo)
        /\ results' = [results EXCEPT ![RunOf(k)][t] = @ + 1]
        /\ domainWork' = [domainWork EXCEPT ![k][d] = [at |-> "next", todo |-> @.todo \ {t},
                                               did |-> @.did \union {t}]]
        /\ UNCHANGED <<engine, runRow, cellRow, evalThread, replay, clearing, evalRequests, evalHistory>>

\* An exception ends the domain at this level and no more.
TestRaises(k, d) ==
    /\ WorkerAt(k, d, "testing") /\ domainWork' = [domainWork EXCEPT ![k][d] = OffWorker]
    /\ raised' = raised \union {<<RunOf(k), t>> : t \in TestsIn(CellOf(k, d))}
    /\ UNCHANGED <<engine, rows, evalThread, replay, clearing, evalRequests, mixed>>

\* A level that was interrupted is not scored.
ScoreLevel(k, d) ==
    /\ WorkerAt(k, d, "score") /\ domainWork' = [domainWork EXCEPT ![k][d] = OffWorker]
    /\ cellRow' = IF engine.running /\ domainWork[k][d].did # {}
                  THEN [cellRow EXCEPT ![RunOf(k)][CellOf(k, d)] =
                          [status |-> "scored", of |-> domainWork[k][d].did]]
                  ELSE cellRow
    /\ UNCHANGED <<engine, runRow, results, evalThread, replay, clearing, evalRequests, evalHistory>>

EndLevel(k) ==
    /\ ThreadAt(k, "level") /\ (\A d \in Domain : WorkerAt(k, d, "off")) /\ ThreadGoes(k, "levels")
    /\ UNCHANGED <<engine, rows, domainWork, replay, clearing, evalRequests, evalHistory>>

\* The scores stay as the levels left them.
MutRecalculateScores(k) ==
    /\ ThreadAt(k, "recalc") /\ ThreadGoes(k, "summary")
    /\ UNCHANGED <<engine, rows, domainWork, replay, clearing, evalRequests, evalHistory>>

\* A resumed run is scored anew from all of its results.
RecalculateScores(k) ==
    LET r == RunOf(k)
        found(c) == {t \in TestsIn(c) : Has(r, t)}
    IN  /\ ThreadAt(k, "recalc") /\ ThreadGoes(k, "summary")
        /\ cellRow' = IF evalThread[k].resumed /\ engine.running
                      THEN [cellRow EXCEPT ![r] = [c \in Cell |->
                              IF found(c) # {} THEN [status |-> "scored", of |-> found(c)] ELSE @[c]]]
                      ELSE cellRow
        /\ UNCHANGED <<engine, runRow, results, domainWork, replay, clearing, evalRequests, evalHistory>>

\* The summary asks a model, and may fail.
BeginSummary(k) ==
    /\ ThreadAt(k, "summary") /\ ThreadGoes(k, IF engine.running THEN "complete" ELSE "finally")
    /\ UNCHANGED <<engine, rows, domainWork, replay, clearing, evalRequests, evalHistory>>

CompleteRun(k, ok) ==
    /\ ThreadAt(k, "complete") /\ ThreadGoes(k, "finally")
    /\ runRow' = IF ok /\ runRow[RunOf(k)].status # "none"
                 THEN [runRow EXCEPT ![RunOf(k)] = [status |-> "completed", dated |-> TRUE]]
                 ELSE runRow
    /\ UNCHANGED <<engine, results, cellRow, domainWork, replay, clearing, evalRequests, evalHistory>>

\* Under the lock: the engine is free, and the run it knows is the one to be marked.
FinallyFree(k) ==
    /\ ThreadAt(k, "finally") /\ engine' = [engine EXCEPT !.running = FALSE]
    /\ evalThread' = [evalThread EXCEPT ![k].at = IF engine.interrupted THEN "mark" ELSE "ended",
                                        ![k].mark = engine.current]
    /\ UNCHANGED <<rows, domainWork, replay, clearing, evalRequests, evalHistory>>

MarkIncomplete(k) ==
    LET r == evalThread[k].mark
    IN  /\ ThreadAt(k, "mark") /\ ThreadGoes(k, "ended")
        /\ runRow' = IF r # NoRun /\ runRow[r].status # "none"
                     THEN [runRow EXCEPT ![r].status = "interrupted"] ELSE runRow
        /\ UNCHANGED <<engine, results, cellRow, domainWork, replay, clearing, evalRequests, evalHistory>>

EvalNext ==
    \/ StartEvaluation \/ StopEvaluation \/ ResetState \/ ClearIncompleteRuns \/ ServerDies
    \/ \E r \in Run : \/ ResumeEvaluation(r) \/ DeleteRun(r)
                      \/ \E t \in EvalTests : ReplayTest(r, t)
    \/ \E ok \in BOOLEAN : ReplayEnds(ok)
    \/ \E k \in Threads :
         \/ EnterLevel(k) \/ EndLevel(k) \/ RecalculateScores(k) \/ BeginSummary(k)
         \/ \E ok \in BOOLEAN : CompleteRun(k, ok)
         \/ FinallyFree(k) \/ MarkIncomplete(k)
         \/ \E d \in Domain : \/ SkipDomain(k, d) \/ LoadTests(k, d) \/ BeginTest(k, d)
                              \/ EndTest(k, d) \/ TestRaises(k, d) \/ ScoreLevel(k, d)

EvalSpec == EvalInit /\ [][EvalNext]_evalVars

-----------------------------------------------------------------------------
\* Unless threads overlapped, a run has one result of a test at most, and one that is
\* completed has a result of each, counted in the score of its level, however often it
\* was stopped, resumed and replayed.
Counted(r, t) == results[r][t] = 1 /\ cellRow[r][<<t[1], t[2]>>].status = "scored"
                                   /\ t \in cellRow[r][<<t[1], t[2]>>].of
RunAddsUp ==
    \A r \in Run \ mixed, t \in EvalTests :
        /\ results[r][t] <= 1
        /\ runRow[r].status = "completed" /\ <<r, t>> \notin raised /\ replay # [run |-> r, test |-> t]
             => Counted(r, t)

\* Not kept by the code (README):
\* A run that is completed has all of its results.
CompletedRunIsWhole ==
    \A r \in Run : runRow[r].status = "completed" =>
        \A t \in EvalTests : <<r, t>> \in raised \/ Has(r, t) \/ replay.test = t

\* "Evaluation already running": two threads never work at a time.
OneRunAtATime == Cardinality({k \in Threads : ThreadLives(k)}) <= 1

\* A run that says it is running has a thread.
RunningRunHasThread == \A r \in Run : runRow[r].status = "running" => r \in RunsWithThread

\* A test is counted once in a run.
TestCountsOnce == \A r \in Run, t \in EvalTests : results[r][t] <= 1
=============================================================================
