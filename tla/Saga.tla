-------------------------------- MODULE Saga --------------------------------
(***************************************************************************)
(* The saga coordinator: one run over the manifests of a causal graph, in  *)
(* topological order, one grant and one engine call per step.              *)
(*                                                                         *)
(* A run is an immutable record that the functions of saga/machine.py      *)
(* replace.  An engine wrapper (authorize_saga_step, commit_saga_step ...) *)
(* reads the run and checks it (Start), makes an engine call (one of the   *)
(* Engine actions) and stores the new run computed from the one it read    *)
(* (Finish): three steps, between which other callers take theirs.  What   *)
(* an engine call may do is abstracted from CommitEngine.                  *)
(***************************************************************************)
EXTENDS Lifecycle, Integers, FiniteSets, FiniteSetsExt

CONSTANTS
    Length,         \* number of steps of the plan
    Callers,        \* threads that may drive the run
    MaxRestarts     \* bound on process restarts

ASSUME SagaAssumption ==
    /\ Length \in Nat \ {0}
    /\ IsFiniteSet(Callers)
    /\ MaxRestarts \in Nat

Steps == 1..Length

None == 0       \* no compensation cursor

SagaRunStatus == {"running", "awaiting_recovery", "compensating", "completed",
                  "failed_partial", "aborted"}

SagaStepStatus == {"pending", "ready", "authorized", "committed", "verified", "failed",
                   "ambiguous", "compensated", "compensation_refused", "compensation_failed"}

Op == {"idle", "authorize", "commit", "verify", "recover"}

\* How an engine call ended: it raised a KarmaSakshiError (denied) or another
\* exception (error), or it returned a negative (false) or a positive answer.
Result == {"none", "denied", "error", "false", "true"}

VARIABLES
    run,        \* the SagaRun in the engine's memory
    life,       \* step -> lifecycle state of its manifest
    world,      \* steps whose effect the provider has settled
    op,         \* caller -> the wrapper it is in
    idx,        \* caller -> the step it is about
    snap,       \* caller -> the run it read
    res,        \* caller -> how its engine call ended
    team,       \* the callers that do drive the run
    restarts

vars == <<run, life, world, op, idx, snap, res, team, restarts>>
calls == <<op, idx, snap, res, team>>

Run(status, steps, cursor, undo) ==
    [status |-> status, steps |-> steps, cursor |-> cursor, undo |-> undo]

Runs == [status : SagaRunStatus, steps : [Steps -> SagaStepStatus],
         cursor : 1..(Length + 1), undo : 0..Length]

TypeOK ==
    /\ run \in Runs
    /\ life \in [Steps -> LifecycleState]
    /\ world \subseteq Steps
    /\ op \in [Callers -> Op]
    /\ idx \in [Callers -> Steps]
    /\ snap \in [Callers -> Runs]
    /\ res \in [Callers -> Result]
    /\ team \subseteq Callers
    /\ restarts \in Nat

\* build_saga_run and begin_saga
NewRun ==
    Run("running", [i \in Steps |-> IF i = 1 THEN "ready" ELSE "pending"], 1, None)

Init ==
    /\ run = NewRun
    /\ life = [i \in Steps |-> "sealed"]
    /\ world = {}
    /\ op = [c \in Callers |-> "idle"]
    /\ idx = [c \in Callers |-> 1]
    /\ snap = [c \in Callers |-> NewRun]
    /\ res = [c \in Callers |-> "none"]
    /\ team \in SUBSET Callers \ {{}}
    /\ restarts = 0

-----------------------------------------------------------------------------
(* saga/machine.py: functions from runs to runs.                           *)

Done == {"committed", "verified"}

\* Entering compensation: back over what was committed, or nothing to undo.
StartCompensation(r) ==
    LET done == {i \in Steps : r.steps[i] \in Done} IN
    IF done = {} THEN Run("aborted", r.steps, r.cursor, r.undo)
    ELSE Run("compensating", r.steps, r.cursor, Max(done))

CanAuthorize(r, i) ==
    r.cursor = i /\ r.steps[i] \in {"ready", "pending"}

MarkAuthorized(r, i) ==
    Run("running", [r.steps EXCEPT ![i] = "authorized"], r.cursor, r.undo)

Closed == {"awaiting_recovery", "compensating", "completed", "failed_partial", "aborted"}

CanCommitAnyStep(r, i) == r.status \notin Closed /\ r.steps[i] # "ambiguous"     \* mutant
CanCommit(r, i) ==
    r.cursor = i /\ r.status \notin Closed /\ r.steps[i] = "authorized"

MarkCommitted(r, i) ==
    Run("running", [r.steps EXCEPT ![i] = "committed"], r.cursor, r.undo)

MarkAmbiguous(r, i) ==
    Run("awaiting_recovery", [r.steps EXCEPT ![i] = "ambiguous"], r.cursor, r.undo)

MarkFailed(r, i) ==
    StartCompensation(Run(r.status, [r.steps EXCEPT ![i] = "failed"], r.cursor, r.undo))

CanVerify(r, i) == r.steps[i] = "committed"

MarkVerified(r, i) ==
    IF i = Length
    THEN Run("completed", [r.steps EXCEPT ![i] = "verified"], i + 1, r.undo)
    ELSE Run("running", [r.steps EXCEPT ![i] = "verified", ![i + 1] = "ready"], i + 1, r.undo)

CanRecover(r, i) ==
    r.status = "awaiting_recovery" /\ r.steps[i] = "ambiguous"

Outcomes == {"compensated", "compensation_refused", "compensation_failed"}

\* The compensation cursor goes down to the next step that is still done.
MarkCompensationForgetting(r, i, s) ==     \* mutant: ends after the first compensation
    Run("failed_partial", [r.steps EXCEPT ![i] = s], r.cursor, None)
MarkCompensation(r, i, s) ==
    LET steps == [r.steps EXCEPT ![i] = s]
        left == {j \in Steps : j < i /\ steps[j] \in Done}
    IN  IF left = {} THEN Run("failed_partial", steps, r.cursor, None)
        ELSE Run("compensating", steps, r.cursor, Max(left))

-----------------------------------------------------------------------------
(* The wrappers: read the run, check it.                                   *)

Start(c, o, i) ==
    /\ op[c] = "idle"
    /\ op' = [op EXCEPT ![c] = o]
    /\ idx' = [idx EXCEPT ![c] = i]
    /\ snap' = [snap EXCEPT ![c] = run]
    /\ UNCHANGED <<run, life, world, res, team, restarts>>

AuthorizeSagaStep(c, i) == Start(c, "authorize", i)
CommitSagaStep(c, i) == CanCommit(run, i) /\ Start(c, "commit", i)
VerifySagaStep(c, i) == Start(c, "verify", i)
RecoverSagaStep(c, i) == CanRecover(run, i) /\ Start(c, "recover", i)

\* commit_saga_step(ambiguous=True): no engine call, the run is replaced.
ReportAmbiguous(c, i) ==
    /\ op[c] = "idle"
    /\ CanCommit(run, i)
    /\ run' = MarkAmbiguous(run, i)
    /\ UNCHANGED <<life, world, calls, restarts>>

\* record_saga_compensation: the caller reports how the compensation went.
RecordCompensation(c, i, s) ==
    /\ op[c] = "idle"
    /\ run.status = "compensating"
    /\ run.undo = i
    /\ run' = MarkCompensation(run, i, s)
    /\ UNCHANGED <<life, world, calls, restarts>>

-----------------------------------------------------------------------------
(* The engine calls, abstracted from CommitEngine.                         *)

Engine(c, o) ==
    /\ op[c] = o
    /\ res[c] = "none"
    /\ UNCHANGED <<run, op, idx, snap, team, restarts>>

Answers(c, r) == res' = [res EXCEPT ![c] = r]
Moves(c, state) == life' = [life EXCEPT ![idx[c]] = state]

\* The call raises before it has changed anything: a check refused it, or the
\* store or the adapter it asked did not answer.
Refuses(c) == Answers(c, "denied") /\ UNCHANGED <<life, world>>

\* authorize_plan.  The journal may fail after the lifecycle has moved.
EngineAuthorize(c) ==
    /\ Engine(c, "authorize")
    /\ \/ Refuses(c)
       \/ /\ IsLegalTransition(life[idx[c]], "authorized")
          /\ Moves(c, "authorized")
          /\ \E r \in {"true", "denied"} : Answers(c, r)
          /\ UNCHANGED world

\* commit: <<result, lifecycle state, whether the provider settled the effect>>.
\* A store or journal that fails after the effect denies a call that settled; a
\* read of the grant store that fails, or a stale precondition, is an error.
CommitOutcomes ==
    {<<"denied", "committing", "none">>, <<"denied", "committing", "effect">>,
     <<"denied", "committed", "effect">>,
     <<"denied", "failed", "none">>, <<"denied", "failed", "effect">>,
     <<"error", "authorized", "none">>, <<"error", "committing", "none">>,
     <<"error", "failed", "none">>, <<"error", "failed", "effect">>,
     <<"false", "failed", "none">>, <<"false", "failed", "effect">>,
     <<"true", "committed", "effect">>}

EngineCommit(c) ==
    /\ Engine(c, "commit")
    /\ \/ Refuses(c)
       \/ /\ IsLegalTransition(life[idx[c]], "committing")
          /\ \E o \in CommitOutcomes :
                /\ Answers(c, o[1])
                /\ Moves(c, o[2])
                /\ world' = IF o[3] = "effect" THEN world \cup {idx[c]} ELSE world

\* verify: the lifecycle moves whatever the adapter observed.
EngineVerify(c) ==
    /\ Engine(c, "verify")
    /\ \/ Refuses(c)
       \/ /\ IsLegalTransition(life[idx[c]], "verified")
          /\ Moves(c, "verified")
          /\ \E r \in {"true", "false", "denied"} :
                (r = "true" => idx[c] \in world) /\ Answers(c, r)
          /\ UNCHANGED world

\* recover_ambiguous_commit: evidence of the effect, and FAILED reconciled.
EngineRecover(c) ==
    /\ Engine(c, "recover")
    /\ \/ Refuses(c)
       \/ /\ idx[c] \notin world
          /\ Answers(c, "false")
          /\ UNCHANGED <<life, world>>
       \/ /\ idx[c] \in world
          /\ \E r \in {"true", "denied"} : Answers(c, r)
          /\ IF IsLegalTransition(life[idx[c]], "recovered_committed")
             THEN Moves(c, "recovered_committed") ELSE UNCHANGED life
          /\ UNCHANGED world

-----------------------------------------------------------------------------
(* The wrappers: store the run computed from the one they read.            *)

\* What the wrapper makes of the run it read, given the engine's answer; a
\* function of saga/machine.py that raises leaves the stored run as it is.
NextRun(o, r, i, answer, current) ==
    IF o = "authorize" /\ answer = "true" /\ CanAuthorize(r, i) THEN MarkAuthorized(r, i)
    ELSE IF o \in {"commit", "recover"} /\ answer = "true" THEN MarkCommitted(r, i)
    ELSE IF o = "commit" /\ answer \in {"false", "error"} THEN MarkFailed(r, i)
    ELSE IF o = "recover" /\ answer = "false" THEN MarkFailed(r, i)
    ELSE IF o = "verify" /\ answer = "true" /\ CanVerify(r, i) THEN MarkVerified(r, i)
    ELSE current

Finish(c) ==
    /\ res[c] # "none"
    /\ run' = NextRun(op[c], snap[c], idx[c], res[c], run)
    /\ op' = [op EXCEPT ![c] = "idle"]
    /\ idx' = [idx EXCEPT ![c] = 1]
    /\ snap' = [snap EXCEPT ![c] = NewRun]
    /\ res' = [res EXCEPT ![c] = "none"]
    /\ UNCHANGED <<life, world, team, restarts>>

\* The run is in memory only: after a restart the client begins a new run over
\* the same graph, whose manifests keep their durable lifecycle states.
Restart ==
    /\ restarts < MaxRestarts
    /\ restarts' = restarts + 1
    /\ run' = NewRun
    /\ op' = [c \in Callers |-> "idle"]
    /\ idx' = [c \in Callers |-> 1]
    /\ snap' = [c \in Callers |-> NewRun]
    /\ res' = [c \in Callers |-> "none"]
    /\ UNCHANGED <<life, world, team>>

-----------------------------------------------------------------------------
EngineStep(c) ==
    EngineAuthorize(c) \/ EngineCommit(c) \/ EngineVerify(c) \/ EngineRecover(c)

Starts(c) ==
    \E i \in Steps :
        \/ AuthorizeSagaStep(c, i) \/ CommitSagaStep(c, i)
        \/ VerifySagaStep(c, i) \/ RecoverSagaStep(c, i)
        \/ ReportAmbiguous(c, i)
        \/ \E s \in Outcomes : RecordCompensation(c, i, s)

Next ==
    \/ \E c \in team : Starts(c) \/ EngineStep(c) \/ Finish(c)
    \/ Restart

Spec == Init /\ [][Next]_vars

-----------------------------------------------------------------------------
(* Properties of a run, whoever drives it.                                 *)

\* The effect of a step is only ever performed after every earlier step was
\* performed and verified: the order of the plan is the order of the effects.
EffectsInPlanOrder ==
    \A i \in world : \A j \in 1..(i - 1) : j \in world /\ life[j] = "verified"

\* Compensation goes backwards and forgets nothing: above its cursor no step is
\* still committed or verified, at the cursor one is, and a run that ended as
\* failed_partial has none left.
CompensationInReverse ==
    /\ run.status = "compensating" =>
          /\ run.undo \in Steps /\ run.steps[run.undo] \in Done
          /\ \A j \in Steps : j > run.undo => run.steps[j] \notin Done
    /\ run.status = "failed_partial" => \A j \in Steps : run.steps[j] \notin Done

-----------------------------------------------------------------------------
(* Properties of a run that one caller drives: a second one may store a    *)
(* stale copy over what the first has reached.                             *)

Alone == Cardinality(team) = 1

\* When a run has ended without completing, the compensation of every effect the
\* provider performed was attempted, except of the one step whose commit failed.
EffectsAccountedFor ==
    Alone /\ run.status \in {"failed_partial", "aborted"} =>
        \A i \in world : \/ run.steps[i] \in Outcomes
                         \/ run.steps[i] = "failed" /\ i = run.cursor

-----------------------------------------------------------------------------
(* What a document and a test say, and the code does not keep.             *)

\* test_recover_with_evidence_continues: a step recovered with evidence can go on,
\* which takes its verification.
RecoveryContinues ==
    [][\A c \in Callers :
          op[c] = "recover" /\ res[c] = "true" /\ op'[c] = "idle" /\ restarts' = restarts
             => IsLegalTransition(life[idx[c]], "verified")]_vars
=============================================================================
