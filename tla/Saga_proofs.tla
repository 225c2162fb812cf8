---------------------------- MODULE Saga_proofs ----------------------------
(***************************************************************************)
(* Proofs about Saga, for a plan of any length, any number of callers and  *)
(* any number of restarts, and about the planner whose plan it carries out *)
(* (CausalOrder), for causal graphs within any limits.                     *)
(***************************************************************************)
EXTENDS Saga, CausalOrder, Sums_proofs

(***************************************************************************)
(* The shape of a run, of the stored one and of every copy a caller holds. *)
(***************************************************************************)
Backward == {"compensating", "failed_partial", "aborted"}

RunShape(r) ==
    /\ r \in Runs
    /\ \A i \in Steps : r.steps[i] \in {"ready", "authorized", "committed", "ambiguous", "failed"}
                           => i = r.cursor
    /\ \A i \in Steps : i > r.cursor => r.steps[i] = "pending"
    /\ r.status \in Backward => r.cursor \in Steps /\ r.steps[r.cursor] = "failed"

\* Going backwards, as CompensationInReverse has it for the stored run.
InReverse(r) ==
    /\ r.status = "compensating" =>
          /\ r.undo \in Steps /\ r.steps[r.undo] \in Done
          /\ \A j \in Steps : j > r.undo => r.steps[j] \notin Done
    /\ r.status \in {"failed_partial", "aborted"} => \A j \in Steps : r.steps[j] \notin Done

\* Every step before the cursor of a run was performed and verified.
Progress(r) == \A j \in Steps : j < r.cursor => j \in world /\ life[j] = "verified"

\* What a caller in a wrapper has read, and what the engine has answered it.
CallOK(c) ==
    /\ op[c] = "idle" => res[c] = "none"
    /\ op[c] = "commit" => CanCommit(snap[c], idx[c])
    /\ op[c] = "recover" => CanRecover(snap[c], idx[c])
    /\ op[c] = "verify" /\ res[c] = "true" => idx[c] \in world /\ life[idx[c]] = "verified"

OrderInv ==
    /\ TypeOK
    /\ RunShape(run) /\ InReverse(run) /\ Progress(run)
    /\ \A c \in Callers : RunShape(snap[c]) /\ Progress(snap[c]) /\ CallOK(c)
    /\ EffectsInPlanOrder

(***************************************************************************)
(* A run that one caller drives: its copy is the stored run, and every     *)
(* effect of the provider is one the run knows of, or the run has begun    *)
(* over a graph whose first step was performed before a restart.           *)
(***************************************************************************)
Known(r) == \A i \in world : r.steps[i] \in Done \cup Outcomes
                                              \cup {"failed", "authorized", "ambiguous"}

Begun(r) == r = NewRun /\ 1 \in world

AloneInv ==
    /\ \A i \in Steps : life[i] \in {"sealed", "authorized"} => i \notin world
    /\ Alone =>
          /\ Known(run) \/ Begun(run)
          /\ \A c \in team : op[c] # "idle" => snap[c] = run
          /\ \A c \in team : op[c] = "authorize" /\ res[c] = "true"
                                => life[idx[c]] = "authorized"

SagaInv == OrderInv /\ AloneInv

(***************************************************************************)
(* The functions of saga/machine.py keep the shape of a run.               *)
(***************************************************************************)

\* A set of steps that is not empty has a last one: among the sets of the
\* steps from some member on, one is included in no other.
LEMMA LastStep ==
    ASSUME NEW S \in SUBSET Steps, S # {}
    PROVE  Max(S) \in S /\ \A y \in S : y <= Max(S)
<1> DEFINE From(a) == {x \in S : x >= a}
           Tails == {From(a) : a \in S}
<1>1. IsFiniteSet(Steps)
  BY SagaAssumption, FS_Interval DEF Steps
<1>2. IsWellFoundedOn(StrictSubsetOrdering(Steps), FiniteSubsetsOf(Steps))
  BY FS_StrictSubsetOrderingWellFounded
<1>3. Tails \subseteq FiniteSubsetsOf(Steps) /\ Tails # {}
  <2>1. FiniteSubsetsOf(Steps) = SUBSET Steps
    BY <1>1, FS_FiniteSubsetsOfFinite
  <2>2. \A a \in S : From(a) \in SUBSET Steps
    OBVIOUS
  <2>3. PICK a \in S : TRUE
    OBVIOUS
  <2>4. From(a) \in Tails
    OBVIOUS
  <2> HIDE DEF From
  <2>5. Tails \subseteq SUBSET Steps
    BY <2>2
  <2> QED BY <2>1, <2>4, <2>5
<1>4. PICK T \in Tails : \A U \in Tails : ~ (<<U, T>> \in StrictSubsetOrdering(Steps))
  BY <1>2, <1>3, WFMin, Zenon
<1>5. PICK a \in S : T = From(a)
  OBVIOUS
<1>6. ASSUME NEW y \in S, y > a
      PROVE  FALSE
  <2>1. a \in Int /\ y \in Int
    BY SagaAssumption DEF Steps
  <2>2. From(y) \subseteq From(a)
    <3>1. S \subseteq Int
      BY SagaAssumption DEF Steps
    <3>2. ASSUME NEW x \in S, x >= y
          PROVE  x >= a
      BY <2>1, <1>6, <3>1, <3>2
    <3> QED BY <3>2
  <2>3. a \in From(a) /\ a \notin From(y)
    BY <2>1, <1>6
  <2>4. From(y) \in SUBSET Steps /\ From(a) \in SUBSET Steps /\ From(y) \in Tails
    OBVIOUS
  <2>5. <<From(y), From(a)>> \in StrictSubsetOrdering(Steps)
    BY <2>2, <2>3, <2>4 DEF StrictSubsetOrdering
  <2> QED BY <2>5, <2>4, <1>4, <1>5
<1>7. \A y \in S : a >= y
  BY <1>6, SagaAssumption DEF Steps
<1>8. Max(S) \in S /\ \A y \in S : Max(S) >= y
  BY <1>7 DEF Max
<1> QED BY <1>8, SagaAssumption DEF Steps

LEMMA NewRunShape == RunShape(NewRun) /\ InReverse(NewRun)
  BY SagaAssumption DEF RunShape, InReverse, NewRun, Run, Runs, Steps, SagaRunStatus,
       SagaStepStatus, None, Backward

\* Entering compensation keeps the steps and starts at the last one done.
LEMMA StartsBackward ==
    ASSUME NEW r \in Runs,
           \A i \in Steps : r.steps[i] \in {"ready", "authorized", "committed", "ambiguous", "failed"}
                               => i = r.cursor,
           \A i \in Steps : i > r.cursor => r.steps[i] = "pending",
           r.cursor \in Steps, r.steps[r.cursor] = "failed"
    PROVE  RunShape(StartCompensation(r)) /\ InReverse(StartCompensation(r))
<1> DEFINE done == {i \in Steps : r.steps[i] \in Done}
<1>1. CASE done = {}
  <2>1. StartCompensation(r) = Run("aborted", r.steps, r.cursor, r.undo)
    BY <1>1 DEF StartCompensation
  <2> QED BY <2>1, <1>1 DEF RunShape, InReverse, Run, Runs, SagaRunStatus, Backward
<1>2. CASE done # {}
  <2>1. StartCompensation(r) = Run("compensating", r.steps, r.cursor, Max(done))
    BY <1>2 DEF StartCompensation
  <2>2. Max(done) \in done /\ \A y \in done : y <= Max(done)
    BY <1>2, LastStep
  <2>3. Max(done) \in Steps /\ Max(done) \in 0..Length /\ r.steps[Max(done)] \in Done
        /\ \A j \in Steps : j > Max(done) => r.steps[j] \notin Done
    BY <2>2, SagaAssumption DEF Steps
  <2> HIDE DEF done
  <2> QED BY <2>1, <2>3 DEF RunShape, InReverse, Run, Runs, SagaRunStatus, Backward
<1> QED BY <1>1, <1>2

LEMMA AuthorizedShape ==
    ASSUME NEW r, RunShape(r), NEW i \in Steps, CanAuthorize(r, i)
    PROVE  RunShape(MarkAuthorized(r, i)) /\ InReverse(MarkAuthorized(r, i))
  BY SagaAssumption DEF RunShape, InReverse, MarkAuthorized, CanAuthorize, Run, Runs,
       SagaRunStatus, SagaStepStatus, Backward, Steps

LEMMA CommittedShape ==
    ASSUME NEW r, RunShape(r), NEW i \in Steps, i = r.cursor
    PROVE  RunShape(MarkCommitted(r, i)) /\ InReverse(MarkCommitted(r, i))
  BY SagaAssumption DEF RunShape, InReverse, MarkCommitted, Run, Runs,
       SagaRunStatus, SagaStepStatus, Backward, Steps

LEMMA AmbiguousShape ==
    ASSUME NEW r, RunShape(r), NEW i \in Steps, i = r.cursor
    PROVE  RunShape(MarkAmbiguous(r, i)) /\ InReverse(MarkAmbiguous(r, i))
  BY SagaAssumption DEF RunShape, InReverse, MarkAmbiguous, Run, Runs,
       SagaRunStatus, SagaStepStatus, Backward, Steps

LEMMA FailedShape ==
    ASSUME NEW r, RunShape(r), NEW i \in Steps, i = r.cursor
    PROVE  RunShape(MarkFailed(r, i)) /\ InReverse(MarkFailed(r, i))
<1> DEFINE q == Run(r.status, [r.steps EXCEPT ![i] = "failed"], r.cursor, r.undo)
<1>1. /\ q \in Runs
      /\ \A j \in Steps : q.steps[j] \in {"ready", "authorized", "committed", "ambiguous", "failed"}
                             => j = q.cursor
      /\ \A j \in Steps : j > q.cursor => q.steps[j] = "pending"
      /\ q.cursor \in Steps /\ q.steps[q.cursor] = "failed"
  BY SagaAssumption DEF RunShape, Run, Runs, SagaStepStatus, Steps
<1> HIDE DEF q
<1>2. RunShape(StartCompensation(q)) /\ InReverse(StartCompensation(q))
  BY <1>1, StartsBackward
<1> QED BY <1>2 DEF MarkFailed, q

LEMMA VerifiedShape ==
    ASSUME NEW r, RunShape(r), NEW i \in Steps, CanVerify(r, i)
    PROVE  /\ RunShape(MarkVerified(r, i)) /\ InReverse(MarkVerified(r, i))
           /\ i = r.cursor /\ MarkVerified(r, i).cursor = i + 1
<1>1. i = r.cursor
  BY DEF RunShape, CanVerify
<1>2. CASE i = Length
  BY <1>1, <1>2, SagaAssumption DEF RunShape, InReverse, MarkVerified, Run, Runs,
       SagaRunStatus, SagaStepStatus, Backward, Steps
<1>3. CASE i # Length
  <2>1. i + 1 \in Steps /\ i + 1 \in 1..(Length + 1) /\ i \in Nat
    BY <1>3, SagaAssumption DEF Steps
  <2> DEFINE steps == [r.steps EXCEPT ![i] = "verified", ![i + 1] = "ready"]
  <2>2. MarkVerified(r, i) = Run("running", steps, i + 1, r.undo)
    BY <1>3 DEF MarkVerified
  <2>3. /\ steps \in [Steps -> SagaStepStatus]
        /\ steps[i] = "verified" /\ steps[i + 1] = "ready"
        /\ \A j \in Steps : j # i /\ j # i + 1 => steps[j] = r.steps[j]
    BY <2>1 DEF RunShape, Runs, SagaStepStatus
  <2>4. /\ \A j \in Steps : steps[j] \in {"ready", "authorized", "committed", "ambiguous", "failed"}
                               => j = i + 1
        /\ \A j \in Steps : j > i + 1 => steps[j] = "pending"
    <3> HIDE DEF steps
    <3>1. ASSUME NEW j \in Steps, j # i, j # i + 1
          PROVE  /\ steps[j] \notin {"ready", "authorized", "committed", "ambiguous", "failed"}
                 /\ j > i + 1 => steps[j] = "pending"
      <4>1. j > i + 1 => j > r.cursor
        BY <1>1, <2>1, SagaAssumption DEF Steps
      <4> QED BY <1>1, <2>3, <3>1, <4>1 DEF RunShape
    <3>2. ~ (i > i + 1) /\ ~ (i + 1 > i + 1)
      BY <2>1
    <3> QED BY <2>3, <3>1, <3>2
  <2> HIDE DEF steps
  <2> QED BY <1>1, <2>1, <2>2, <2>3, <2>4 DEF RunShape, InReverse, Run, Runs,
         SagaRunStatus, Backward
<1> QED BY <1>1, <1>2, <1>3

LEMMA CompensationShape ==
    ASSUME NEW r, RunShape(r), InReverse(r), NEW i \in Steps, NEW s \in Outcomes,
           r.status = "compensating", r.undo = i
    PROVE  RunShape(MarkCompensation(r, i, s)) /\ InReverse(MarkCompensation(r, i, s))
<1> DEFINE steps == [r.steps EXCEPT ![i] = s]
           left == {j \in Steps : j < i /\ steps[j] \in Done}
<1>1. /\ steps \in [Steps -> SagaStepStatus] /\ steps[i] \notin Done
      /\ \A j \in Steps : j # i => steps[j] = r.steps[j]
      /\ \A j \in Steps : j > i => steps[j] \notin Done
      /\ steps[i] \notin {"ready", "authorized", "committed", "ambiguous", "failed"}
  BY SagaAssumption DEF RunShape, InReverse, Runs, Outcomes, SagaStepStatus, Done, Steps
<1>2. i < r.cursor /\ i \in Int /\ r.cursor \in Int
  BY SagaAssumption DEF RunShape, InReverse, Runs, Backward, Done, Steps
<1>3. /\ \A j \in Steps : steps[j] \in {"ready", "authorized", "committed", "ambiguous", "failed"}
                             => j = r.cursor
      /\ \A j \in Steps : j > r.cursor => steps[j] = "pending"
      /\ r.cursor \in Steps /\ steps[r.cursor] = "failed"
  BY <1>1, <1>2, SagaAssumption DEF RunShape, Backward, Steps
<1>4. CASE left = {}
  <2>1. MarkCompensation(r, i, s) = Run("failed_partial", steps, r.cursor, None)
    BY <1>4 DEF MarkCompensation
  <2>2. \A j \in Steps : steps[j] \notin Done
    BY <1>1, <1>4, SagaAssumption DEF Steps
  <2> HIDE DEF steps
  <2> QED BY <1>1, <1>3, <2>1, <2>2, SagaAssumption
          DEF RunShape, InReverse, Run, Runs, SagaRunStatus, None, Backward, Steps
<1>5. CASE left # {}
  <2>1. MarkCompensation(r, i, s) = Run("compensating", steps, r.cursor, Max(left))
    BY <1>5 DEF MarkCompensation
  <2>2. Max(left) \in left /\ \A y \in left : y <= Max(left)
    BY <1>5, LastStep
  <2>3. Max(left) \in Steps /\ Max(left) \in 0..Length /\ steps[Max(left)] \in Done
        /\ \A j \in Steps : j > Max(left) => steps[j] \notin Done
    <3>1. Max(left) \in Steps /\ Max(left) < i /\ steps[Max(left)] \in Done
      BY <2>2
    <3>2. ASSUME NEW j \in Steps, j > Max(left)
          PROVE  steps[j] \notin Done
      <4>1. j \notin left
        BY <2>2, <3>1, <3>2, SagaAssumption DEF Steps
      <4>2. j < i \/ j = i \/ j > i
        BY SagaAssumption DEF Steps
      <4> QED BY <4>1, <4>2, <1>1
    <3> QED BY <3>1, <3>2, SagaAssumption DEF Steps
  <2> HIDE DEF steps, left
  <2> QED BY <1>1, <1>3, <2>1, <2>3, SagaAssumption
          DEF RunShape, InReverse, Run, Runs, SagaRunStatus, Backward, Steps
<1> QED BY <1>4, <1>5

(***************************************************************************)
(* What a wrapper stores when it finishes.                                 *)
(***************************************************************************)
LEMMA NextRunOK ==
    ASSUME OrderInv, NEW c \in Callers, res[c] # "none"
    PROVE  LET r == NextRun(op[c], snap[c], idx[c], res[c], run)
           IN  RunShape(r) /\ InReverse(r) /\ Progress(r)
<1> DEFINE r == NextRun(op[c], snap[c], idx[c], res[c], run)
           s == snap[c]
           i == idx[c]
<1> SUFFICES RunShape(r) /\ InReverse(r) /\ Progress(r)
  OBVIOUS
<1>1. /\ RunShape(s) /\ Progress(s) /\ CallOK(c) /\ i \in Steps
      /\ RunShape(run) /\ InReverse(run) /\ Progress(run)
  BY DEF OrderInv, TypeOK
<1>2. op[c] \in Op /\ res[c] \in Result
  BY DEF OrderInv, TypeOK
<1>3. CASE op[c] = "authorize" /\ res[c] = "true" /\ CanAuthorize(s, i)
  <2>1. r = MarkAuthorized(s, i)
    BY <1>3 DEF NextRun
  <2>2. r.cursor = s.cursor
    BY <2>1 DEF MarkAuthorized, Run
  <2> QED BY <2>1, <2>2, <1>1, <1>3, AuthorizedShape DEF Progress
<1>4. CASE op[c] \in {"commit", "recover"} /\ res[c] = "true"
  <2>1. r = MarkCommitted(s, i)
    BY <1>4 DEF NextRun
  <2>2. i = s.cursor
    BY <1>1, <1>4 DEF CallOK, CanCommit, CanRecover, RunShape
  <2>3. r.cursor = s.cursor
    BY <2>1 DEF MarkCommitted, Run
  <2> QED BY <2>1, <2>2, <2>3, <1>1, CommittedShape DEF Progress
<1>5. CASE \/ op[c] = "commit" /\ res[c] \in {"false", "error"}
           \/ op[c] = "recover" /\ res[c] = "false"
  <2>1. r = MarkFailed(s, i)
    BY <1>5 DEF NextRun
  <2>2. i = s.cursor
    BY <1>1, <1>5 DEF CallOK, CanCommit, CanRecover, RunShape
  <2>3. r.cursor = s.cursor
    BY <2>1 DEF MarkFailed, StartCompensation, Run
  <2> QED BY <2>1, <2>2, <2>3, <1>1, FailedShape DEF Progress
<1>6. CASE op[c] = "verify" /\ res[c] = "true" /\ CanVerify(s, i)
  <2>1. r = MarkVerified(s, i)
    BY <1>6 DEF NextRun
  <2>2. RunShape(r) /\ InReverse(r) /\ i = s.cursor /\ r.cursor = i + 1
    BY <2>1, <1>1, <1>6, VerifiedShape
  <2>3. i \in world /\ life[i] = "verified"
    BY <1>1, <1>6 DEF CallOK
  <2>4. ASSUME NEW j \in Steps, j < r.cursor
        PROVE  j < s.cursor \/ j = i
    <3> HIDE DEF r, s, i
    <3> QED BY <2>2, <2>4, <1>1, SagaAssumption DEF Steps
  <2> HIDE DEF r, s, i
  <2> QED BY <2>2, <2>3, <2>4, <1>1 DEF Progress
<1>7. CASE /\ ~ (op[c] = "authorize" /\ res[c] = "true" /\ CanAuthorize(s, i))
           /\ ~ (op[c] \in {"commit", "recover"} /\ res[c] = "true")
           /\ ~ (op[c] = "commit" /\ res[c] \in {"false", "error"})
           /\ ~ (op[c] = "recover" /\ res[c] = "false")
           /\ ~ (op[c] = "verify" /\ res[c] = "true" /\ CanVerify(s, i))
  <2>1. r = run
    BY <1>7 DEF NextRun, CanAuthorize, CanVerify
  <2> QED BY <2>1, <1>1
<1> QED BY <1>3, <1>4, <1>5, <1>6, <1>7

(***************************************************************************)
(* An engine call moves no lifecycle out of verified and takes no effect   *)
(* back, so that what a run knows of its earlier steps stays true.         *)
(***************************************************************************)
LEMMA VerifiedIsLeftByNoCall ==
    ASSUME NEW t \in {"authorized", "committing", "verified", "recovered_committed"}
    PROVE  ~ IsLegalTransition("verified", t)
  BY DEF IsLegalTransition, TRANSITIONS

Lasting == \A j \in Steps : j \in world /\ life[j] = "verified"
                               => j \in world' /\ life'[j] = "verified"

LEMMA ProgressLasts ==
    ASSUME NEW r, Progress(r), Lasting, world' \subseteq Steps
    PROVE  Progress(r)'
  BY DEF Progress, Lasting

\* Of the calls, only a commit performs an effect, and only of its own step.
LEMMA EngineLasts ==
    ASSUME OrderInv, NEW c \in Callers, EngineStep(c)
    PROVE  /\ Lasting
           /\ world' \subseteq Steps /\ world \subseteq world'
           /\ life' \in [Steps -> LifecycleState] /\ res' \in [Callers -> Result]
           /\ \E a \in Result \ {"none"} : res' = [res EXCEPT ![c] = a]
           /\ res[c] = "none"
           /\ UNCHANGED <<run, op, idx, snap, team, restarts>>
           /\ op[c] \in {"authorize", "commit", "verify", "recover"}
           /\ \A j \in Steps : j # idx[c] => life'[j] = life[j] /\ (j \in world' <=> j \in world)
           /\ world' # world => op[c] = "commit"
           /\ op[c] = "verify" /\ res'[c] = "true" => idx[c] \in world /\ life'[idx[c]] = "verified"
<1>1. idx[c] \in Steps /\ life \in [Steps -> LifecycleState] /\ world \subseteq Steps
      /\ res \in [Callers -> Result] /\ res[c] \in Result
  BY DEF OrderInv, TypeOK
<1>2. CASE EngineAuthorize(c)
  BY <1>1, <1>2, VerifiedIsLeftByNoCall
     DEF EngineAuthorize, Engine, Refuses, Answers, Moves, Lasting, Result, LifecycleState
<1>3. CASE EngineCommit(c)
  <2>1. CASE Refuses(c)
    BY <1>1, <1>3, <2>1 DEF EngineCommit, Engine, Refuses, Answers, Lasting, Result
  <2>2. CASE /\ IsLegalTransition(life[idx[c]], "committing")
             /\ \E o \in CommitOutcomes :
                   /\ Answers(c, o[1])
                   /\ Moves(c, o[2])
                   /\ world' = IF o[3] = "effect" THEN world \cup {idx[c]} ELSE world
    <3>1. PICK o \in CommitOutcomes : /\ Answers(c, o[1])
                                      /\ Moves(c, o[2])
                                      /\ world' = IF o[3] = "effect" THEN world \cup {idx[c]} ELSE world
      BY <2>2
    <3>2. o[1] \in Result \ {"none"} /\ o[2] \in LifecycleState
      <4>1. \A p \in CommitOutcomes :
               /\ p[1] \in {"denied", "error", "false", "true"}
               /\ p[2] \in {"authorized", "committing", "committed", "failed"}
        BY DEF CommitOutcomes
      <4> QED BY <3>1, <4>1 DEF Result, LifecycleState
    <3>3. life[idx[c]] # "verified"
      BY <2>2, VerifiedIsLeftByNoCall
    <3> QED BY <1>1, <1>3, <3>1, <3>2, <3>3 DEF EngineCommit, Engine, Answers, Moves, Lasting
  <2> QED BY <1>3, <2>1, <2>2 DEF EngineCommit
<1>4. CASE EngineVerify(c)
  BY <1>1, <1>4, VerifiedIsLeftByNoCall
     DEF EngineVerify, Engine, Refuses, Answers, Moves, Lasting, Result, LifecycleState
<1>5. CASE EngineRecover(c)
  BY <1>1, <1>5, VerifiedIsLeftByNoCall
     DEF EngineRecover, Engine, Refuses, Answers, Moves, Lasting, Result, LifecycleState
<1> QED BY <1>2, <1>3, <1>4, <1>5 DEF EngineStep

(***************************************************************************)
(* The order invariant is inductive.                                       *)
(***************************************************************************)
LEMMA OrderInit == Init => OrderInv
<1> SUFFICES ASSUME Init PROVE OrderInv
  OBVIOUS
<1>1. 1 \in Steps
  BY SagaAssumption DEF Steps
<1>2. RunShape(NewRun) /\ InReverse(NewRun) /\ NewRun \in Runs /\ NewRun.cursor = 1
  BY NewRunShape DEF RunShape, NewRun, Run
<1>3. TypeOK
  BY <1>1, <1>2 DEF Init, TypeOK, LifecycleState, Op, Result
<1>4. Progress(NewRun)
  BY <1>2, SagaAssumption DEF Progress, Steps
<1>5. \A c \in Callers : CallOK(c) /\ snap[c] = NewRun
  BY DEF Init, CallOK
<1>6. EffectsInPlanOrder
  BY DEF Init, EffectsInPlanOrder
<1> QED BY <1>2, <1>3, <1>4, <1>5, <1>6 DEF OrderInv, Init

LEMMA EngineOrder ==
    ASSUME OrderInv, NEW c \in Callers, EngineStep(c)
    PROVE  OrderInv'
<1>1. /\ Lasting
      /\ world' \subseteq Steps /\ world \subseteq world'
      /\ life' \in [Steps -> LifecycleState] /\ res' \in [Callers -> Result]
      /\ UNCHANGED <<run, op, idx, snap, team, restarts>>
      /\ op[c] \in {"authorize", "commit", "verify", "recover"}
      /\ \A j \in Steps : j # idx[c] => life'[j] = life[j] /\ (j \in world' <=> j \in world)
      /\ world' # world => op[c] = "commit"
      /\ op[c] = "verify" /\ res'[c] = "true" => idx[c] \in world /\ life'[idx[c]] = "verified"
  BY EngineLasts
<1>2. PICK a \in Result \ {"none"} : res' = [res EXCEPT ![c] = a]
  BY EngineLasts
<1>3. TypeOK'
  BY <1>1 DEF OrderInv, TypeOK
<1>4. RunShape(run)' /\ InReverse(run)' /\ Progress(run)'
  <2>1. Progress(run)'
    BY <1>1, ProgressLasts DEF OrderInv, Progress, Lasting
  <2> QED BY <1>1, <2>1 DEF OrderInv, RunShape, InReverse
<1>5. ASSUME NEW d \in Callers
      PROVE  (RunShape(snap[d]) /\ Progress(snap[d]) /\ CallOK(d))'
  <2>1. RunShape(snap[d])' /\ Progress(snap[d])'
    BY <1>1 DEF OrderInv, Progress, Lasting, RunShape
  <2>2. idx[d] \in Steps /\ CallOK(d) /\ res \in [Callers -> Result]
    BY DEF OrderInv, TypeOK
  <2>3. CASE d = c
    <3>1. res'[c] # "none" /\ op'[c] = op[c] /\ snap'[c] = snap[c] /\ idx'[c] = idx[c]
      BY <1>1, <1>2, <2>2, <2>3
    <3>2. op[c] # "idle" /\ (op[c] = "verify" /\ res'[c] = "true"
                                => idx[c] \in world' /\ life'[idx[c]] = "verified")
      BY <1>1
    <3> QED BY <2>1, <2>2, <2>3, <3>1, <3>2, Zenon DEF CallOK, CanCommit, CanRecover
  <2>4. CASE d # c
    <3>1. res'[d] = res[d]
      BY <1>2, <2>2, <2>4
    <3>2. op'[d] = op[d] /\ snap'[d] = snap[d] /\ idx'[d] = idx[d]
      BY <1>1
    <3>3. idx[d] \in world /\ life[idx[d]] = "verified"
             => idx[d] \in world' /\ life'[idx[d]] = "verified"
      BY <1>1, <2>2 DEF Lasting
    <3> QED BY <2>1, <2>2, <3>1, <3>2, <3>3, Zenon DEF CallOK, CanCommit, CanRecover
  <2> QED BY <2>1, <2>3, <2>4
<1>6. EffectsInPlanOrder'
  <2> SUFFICES ASSUME NEW i \in world', NEW j \in 1..(i - 1)
               PROVE  j \in world' /\ life'[j] = "verified"
    BY DEF EffectsInPlanOrder
  <2>1. i \in Steps /\ j \in Steps /\ j < i
    BY <1>1, SagaAssumption DEF Steps
  <2>2. CASE i \in world
    BY <1>1, <2>1, <2>2 DEF OrderInv, EffectsInPlanOrder, Lasting
  <2>3. CASE i \notin world
    <3>1. op[c] = "commit" /\ i = idx[c]
      BY <1>1, <2>1, <2>3
    <3>2. i = snap[c].cursor /\ Progress(snap[c])
      BY <3>1 DEF OrderInv, CallOK, CanCommit
    <3> QED BY <1>1, <2>1, <3>2 DEF Progress, Lasting
  <2> QED BY <2>2, <2>3
<1> QED BY <1>3, <1>4, <1>5, <1>6 DEF OrderInv

LEMMA StartKeepsOrder ==
    ASSUME OrderInv, NEW c \in Callers, NEW i \in Steps, NEW o \in Op, Start(c, o, i),
           o # "idle", o = "commit" => CanCommit(run, i), o = "recover" => CanRecover(run, i)
    PROVE  OrderInv'
<1>1. TypeOK'
  BY DEF OrderInv, TypeOK, Start
<1>2. /\ UNCHANGED <<run, life, world, res, team, restarts>>
      /\ op' = [op EXCEPT ![c] = o] /\ idx' = [idx EXCEPT ![c] = i]
      /\ snap' = [snap EXCEPT ![c] = run]
      /\ op \in [Callers -> Op] /\ idx \in [Callers -> Steps] /\ snap \in [Callers -> Runs]
  BY DEF OrderInv, TypeOK, Start
<1>3. RunShape(run)' /\ InReverse(run)' /\ Progress(run)' /\ EffectsInPlanOrder'
  BY <1>2 DEF OrderInv, RunShape, InReverse, Progress, EffectsInPlanOrder
<1>4. ASSUME NEW d \in Callers
      PROVE  (RunShape(snap[d]) /\ Progress(snap[d]) /\ CallOK(d))'
  <2>1. CASE d = c
    <3>1. op'[c] = o /\ idx'[c] = i /\ snap'[c] = run
      BY <1>2
    <3>2. res'[c] = "none"
      BY <1>2 DEF OrderInv, CallOK, Start
    <3>3. RunShape(run) /\ Progress(run)
      BY DEF OrderInv
    <3>4. CallOK(c)'
      BY <3>1, <3>2 DEF CallOK, CanCommit, CanRecover
    <3> QED BY <1>2, <2>1, <3>1, <3>3, <3>4 DEF RunShape, Progress
  <2>2. CASE d # c
    <3>1. op'[d] = op[d] /\ idx'[d] = idx[d] /\ snap'[d] = snap[d]
      BY <1>2, <2>2
    <3>2. RunShape(snap[d]) /\ Progress(snap[d]) /\ CallOK(d)
      BY DEF OrderInv
    <3> QED BY <1>2, <3>1, <3>2 DEF RunShape, Progress, CallOK, CanCommit, CanRecover
  <2> QED BY <2>1, <2>2
<1> QED BY <1>1, <1>3, <1>4 DEF OrderInv

\* A step that only replaces the stored run.
LEMMA ReplaceOrder ==
    ASSUME OrderInv, UNCHANGED <<life, world, calls, restarts>>,
           RunShape(run'), InReverse(run'), run'.cursor = run.cursor
    PROVE  OrderInv'
<1>1. TypeOK'
  BY DEF OrderInv, TypeOK, calls, RunShape
<1>2. Progress(run)'
  BY DEF OrderInv, Progress
<1>3. \A d \in Callers : (RunShape(snap[d]) /\ Progress(snap[d]) /\ CallOK(d))'
  BY DEF OrderInv, RunShape, Progress, CallOK, CanCommit, CanRecover, calls
<1>4. EffectsInPlanOrder'
  BY DEF OrderInv, EffectsInPlanOrder
<1> QED BY <1>1, <1>2, <1>3, <1>4 DEF OrderInv, RunShape, InReverse

LEMMA StartsOrder ==
    ASSUME OrderInv, NEW c \in Callers, Starts(c)
    PROVE  OrderInv'
<1>1. PICK i \in Steps :
        \/ AuthorizeSagaStep(c, i) \/ CommitSagaStep(c, i)
        \/ VerifySagaStep(c, i) \/ RecoverSagaStep(c, i)
        \/ ReportAmbiguous(c, i)
        \/ \E s \in Outcomes : RecordCompensation(c, i, s)
  BY DEF Starts
<1>2. CASE AuthorizeSagaStep(c, i)
  BY <1>2, StartKeepsOrder DEF AuthorizeSagaStep, Op
<1>3. CASE CommitSagaStep(c, i)
  BY <1>3, StartKeepsOrder DEF CommitSagaStep, Op
<1>4. CASE VerifySagaStep(c, i)
  BY <1>4, StartKeepsOrder DEF VerifySagaStep, Op
<1>5. CASE RecoverSagaStep(c, i)
  BY <1>5, StartKeepsOrder DEF RecoverSagaStep, Op
<1>6. CASE ReportAmbiguous(c, i)
  <2>1. i = run.cursor /\ run' = MarkAmbiguous(run, i) /\ RunShape(run)
    BY <1>6 DEF ReportAmbiguous, CanCommit, OrderInv
  <2>2. RunShape(run') /\ InReverse(run')
    BY <2>1, AmbiguousShape
  <2>3. run'.cursor = run.cursor
    BY <2>1 DEF MarkAmbiguous, Run
  <2> QED BY <1>6, <2>2, <2>3, ReplaceOrder DEF ReportAmbiguous
<1>7. CASE \E s \in Outcomes : RecordCompensation(c, i, s)
  <2>1. PICK s \in Outcomes : RecordCompensation(c, i, s)
    BY <1>7
  <2>2. /\ run' = MarkCompensation(run, i, s) /\ RunShape(run) /\ InReverse(run)
        /\ run.status = "compensating" /\ run.undo = i
    BY <2>1 DEF RecordCompensation, OrderInv
  <2>3. RunShape(run') /\ InReverse(run')
    BY <2>2, CompensationShape
  <2>4. run'.cursor = run.cursor
    BY <2>2 DEF MarkCompensation, Run
  <2> QED BY <2>1, <2>3, <2>4, ReplaceOrder DEF RecordCompensation
<1> QED BY <1>1, <1>2, <1>3, <1>4, <1>5, <1>6, <1>7

LEMMA FinishOrder ==
    ASSUME OrderInv, NEW c \in Callers, Finish(c)
    PROVE  OrderInv'
<1>1. /\ RunShape(run') /\ InReverse(run')
      /\ \A j \in Steps : j < run'.cursor => j \in world /\ life[j] = "verified"
  BY NextRunOK DEF Finish, Progress
<1>2. /\ UNCHANGED <<life, world, team, restarts>>
      /\ op' = [op EXCEPT ![c] = "idle"] /\ idx' = [idx EXCEPT ![c] = 1]
      /\ snap' = [snap EXCEPT ![c] = NewRun] /\ res' = [res EXCEPT ![c] = "none"]
      /\ op \in [Callers -> Op] /\ idx \in [Callers -> Steps] /\ snap \in [Callers -> Runs]
      /\ res \in [Callers -> Result]
  BY DEF Finish, OrderInv, TypeOK
<1>3. 1 \in Steps /\ NewRun \in Runs /\ RunShape(NewRun) /\ NewRun.cursor = 1
      /\ \A j \in Steps : ~ (j < 1)
  BY NewRunShape, SagaAssumption DEF RunShape, NewRun, Run, Steps
<1>4. TypeOK'
  BY <1>1, <1>2, <1>3 DEF OrderInv, TypeOK, Op, Result, RunShape
<1>5. Progress(run)' /\ EffectsInPlanOrder'
  BY <1>1, <1>2 DEF OrderInv, Progress, EffectsInPlanOrder
<1>6. ASSUME NEW d \in Callers
      PROVE  (RunShape(snap[d]) /\ Progress(snap[d]) /\ CallOK(d))'
  <2>1. CASE d = c
    <3>1. op'[c] = "idle" /\ res'[c] = "none" /\ snap'[c] = NewRun
      BY <1>2
    <3> QED BY <1>3, <2>1, <3>1 DEF RunShape, Progress, CallOK
  <2>2. CASE d # c
    <3>1. op'[d] = op[d] /\ idx'[d] = idx[d] /\ snap'[d] = snap[d] /\ res'[d] = res[d]
      BY <1>2, <2>2
    <3>2. RunShape(snap[d]) /\ Progress(snap[d]) /\ CallOK(d)
      BY DEF OrderInv
    <3> QED BY <1>2, <3>1, <3>2 DEF RunShape, Progress, CallOK, CanCommit, CanRecover
  <2> QED BY <2>1, <2>2
<1> QED BY <1>1, <1>4, <1>5, <1>6 DEF OrderInv, RunShape, InReverse

LEMMA RestartOrder ==
    ASSUME OrderInv, Restart
    PROVE  OrderInv'
<1>1. 1 \in Steps /\ NewRun \in Runs /\ RunShape(NewRun) /\ InReverse(NewRun) /\ NewRun.cursor = 1
      /\ \A j \in Steps : ~ (j < 1)
  BY NewRunShape, SagaAssumption DEF RunShape, NewRun, Run, Steps
<1>2. TypeOK'
  BY <1>1, SagaAssumption DEF OrderInv, TypeOK, Restart, Op, Result
<1>3. RunShape(run)' /\ InReverse(run)' /\ Progress(run)' /\ EffectsInPlanOrder'
  BY <1>1 DEF OrderInv, Restart, RunShape, InReverse, Progress, EffectsInPlanOrder
<1>4. \A d \in Callers : (RunShape(snap[d]) /\ Progress(snap[d]) /\ CallOK(d))'
  BY <1>1 DEF Restart, RunShape, Progress, CallOK
<1> QED BY <1>2, <1>3, <1>4 DEF OrderInv

LEMMA OrderStep == OrderInv /\ [Next]_vars => OrderInv'
<1> SUFFICES ASSUME OrderInv, [Next]_vars PROVE OrderInv'
  OBVIOUS
<1>1. team \subseteq Callers
  BY DEF OrderInv, TypeOK
<1>2. ASSUME NEW c \in team, Starts(c) \/ EngineStep(c) \/ Finish(c) PROVE OrderInv'
  BY <1>1, <1>2, StartsOrder, EngineOrder, FinishOrder
<1>3. CASE Restart
  BY <1>3, RestartOrder
<1>4. CASE UNCHANGED vars
  BY <1>4 DEF vars, OrderInv, TypeOK, RunShape, InReverse, Progress, CallOK, CanCommit, CanRecover,
       EffectsInPlanOrder
<1> QED BY <1>2, <1>3, <1>4 DEF Next

LEMMA OrderInvariant == Spec => []OrderInv
  BY OrderInit, OrderStep, PTL DEF Spec

\* TypeOK holds of every behaviour of the coordinator.
THEOREM SagaTypeCorrect == Spec => []TypeOK
<1>1. OrderInv => TypeOK
  BY DEF OrderInv
<1> QED BY <1>1, OrderInvariant, PTL

\* The effects of a plan happen in the order of the plan, each after the
\* verification of the ones before it: with any number of callers that hold
\* copies of the run in their hands, and over any number of restarts.
THEOREM PlanOrder == Spec => []EffectsInPlanOrder
<1>1. OrderInv => EffectsInPlanOrder
  BY DEF OrderInv
<1> QED BY <1>1, OrderInvariant, PTL

\* Compensation goes back over every step that is done, from the last one on,
\* whichever copy of the run the caller that stored last had read.
THEOREM ReverseOrder == Spec => []CompensationInReverse
<1>1. OrderInv => CompensationInReverse
  BY DEF OrderInv, InReverse, CompensationInReverse
<1> QED BY <1>1, OrderInvariant, PTL

(***************************************************************************)
(* A run that one caller drives accounts for every effect.                 *)
(***************************************************************************)
LEMMA OnlyCaller ==
    ASSUME OrderInv, Alone, NEW c \in team, NEW d \in team
    PROVE  c = d
<1>1. IsFiniteSet(team)
  BY SagaAssumption, FS_Subset DEF OrderInv, TypeOK
<1>2. PICK x : team = {x}
  BY <1>1, FS_Singleton DEF Alone
<1> QED BY <1>2

LEMMA AloneInit == Init => AloneInv
  BY DEF Init, AloneInv, Known

\* What an engine call does to the lifecycle and the world of its step.
LEMMA EngineAlone ==
    ASSUME SagaInv, NEW c \in team, EngineStep(c)
    PROVE  AloneInv'
<1> DEFINE i == idx[c]
<1>1. /\ c \in Callers /\ i \in Steps /\ life \in [Steps -> LifecycleState] /\ world \subseteq Steps
      /\ res \in [Callers -> Result] /\ OrderInv
  BY DEF SagaInv, OrderInv, TypeOK
<1>2. /\ world' \subseteq Steps /\ world \subseteq world'
      /\ UNCHANGED <<run, op, idx, snap, team, restarts>>
      /\ op[c] \in {"authorize", "commit", "verify", "recover"}
      /\ \A j \in Steps : j # i => life'[j] = life[j] /\ (j \in world' <=> j \in world)
      /\ world' # world => op[c] = "commit"
  BY <1>1, EngineLasts
<1>3. life'[i] \in {"sealed", "authorized"} => i \notin world'
  <2>1. CASE EngineAuthorize(c)
    BY <1>1, <2>1 DEF EngineAuthorize, Refuses, Moves, SagaInv, AloneInv, IsLegalTransition, TRANSITIONS
  <2>2. CASE EngineCommit(c)
    <3>1. CASE Refuses(c)
      BY <1>1, <3>1 DEF Refuses, SagaInv, AloneInv
    <3>2. CASE /\ IsLegalTransition(life[idx[c]], "committing")
               /\ \E o \in CommitOutcomes :
                     /\ Answers(c, o[1])
                     /\ Moves(c, o[2])
                     /\ world' = IF o[3] = "effect" THEN world \cup {idx[c]} ELSE world
      <4>1. i \notin world
        BY <1>1, <3>2 DEF SagaInv, AloneInv, IsLegalTransition, TRANSITIONS
      <4>2. PICK o \in CommitOutcomes :
               /\ Moves(c, o[2])
               /\ world' = IF o[3] = "effect" THEN world \cup {idx[c]} ELSE world
        BY <3>2
      <4>3. o[3] = "effect" => o[2] \notin {"sealed", "authorized"}
        BY <4>2 DEF CommitOutcomes
      <4> QED BY <1>1, <4>1, <4>2, <4>3 DEF Moves
    <3> QED BY <2>2, <3>1, <3>2 DEF EngineCommit
  <2>3. CASE EngineVerify(c)
    BY <1>1, <2>3 DEF EngineVerify, Refuses, Moves, SagaInv, AloneInv
  <2>4. CASE EngineRecover(c)
    BY <1>1, <2>4 DEF EngineRecover, Refuses, Moves, SagaInv, AloneInv
  <2> QED BY <2>1, <2>2, <2>3, <2>4 DEF EngineStep
<1>4. \A j \in Steps : life'[j] \in {"sealed", "authorized"} => j \notin world'
  BY <1>2, <1>3 DEF SagaInv, AloneInv
<1>5. ASSUME Alone'
      PROVE  (Known(run) \/ Begun(run))'
  <2>1. Alone
    BY <1>2, <1>5 DEF Alone
  <2>2. CASE Begun(run)
    BY <1>2, <2>2 DEF Begun
  <2>3. CASE Known(run)
    <3>1. op[c] = "commit" => run.steps[i] = "authorized"
      BY <1>1, <2>1 DEF SagaInv, AloneInv, OrderInv, CallOK, CanCommit
    <3> QED BY <1>2, <2>3, <3>1 DEF Known
  <2> QED BY <2>1, <2>2, <2>3 DEF SagaInv, AloneInv
<1>6. ASSUME Alone', NEW d \in team
      PROVE  /\ op[d] # "idle" => snap[d] = run
             /\ op[d] = "authorize" /\ res'[d] = "true" => life'[idx[d]] = "authorized"
  <2>1. Alone
    BY <1>2, <1>6 DEF Alone
  <2>2. d = c
    BY <2>1, <1>1, OnlyCaller
  <2>3. op[d] # "idle" => snap[d] = run
    BY <2>1 DEF SagaInv, AloneInv
  <2>4. op[c] = "authorize" /\ res'[c] = "true" => life'[i] = "authorized"
    <3> SUFFICES ASSUME op[c] = "authorize", res'[c] = "true" PROVE life'[i] = "authorized"
      OBVIOUS
    <3>1. EngineAuthorize(c)
      BY DEF EngineStep, EngineCommit, EngineVerify, EngineRecover, Engine
    <3>2. ~ Refuses(c)
      BY <1>1 DEF Refuses, Answers
    <3> QED BY <1>1, <3>1, <3>2 DEF EngineAuthorize, Moves
  <2> QED BY <2>2, <2>3, <2>4
<1> QED BY <1>2, <1>4, <1>5, <1>6 DEF AloneInv

LEMMA StartAlone ==
    ASSUME SagaInv, NEW c \in team, NEW i \in Steps, NEW o \in Op, Start(c, o, i)
    PROVE  AloneInv'
<1>1. /\ UNCHANGED <<run, life, world, res, team, restarts>>
      /\ op' = [op EXCEPT ![c] = o] /\ idx' = [idx EXCEPT ![c] = i]
      /\ snap' = [snap EXCEPT ![c] = run]
      /\ op \in [Callers -> Op] /\ idx \in [Callers -> Steps] /\ snap \in [Callers -> Runs]
      /\ OrderInv /\ team \subseteq Callers /\ res[c] = "none"
  BY DEF SagaInv, OrderInv, TypeOK, Start, CallOK
<1>2. ASSUME Alone, NEW d \in team
      PROVE  /\ op'[d] # "idle" => snap'[d] = run
             /\ op'[d] = "authorize" /\ res[d] = "true" => life[idx'[d]] = "authorized"
  <2>1. d = c
    BY <1>1, <1>2, OnlyCaller
  <2> QED BY <1>1, <2>1
<1> QED BY <1>1, <1>2 DEF SagaInv, AloneInv, Alone, Known, Begun

\* A step of an idle caller that replaces the stored run by one that knows as much.
LEMMA ReplaceAlone ==
    ASSUME SagaInv, NEW c \in team, op[c] = "idle", UNCHANGED <<life, world, calls, restarts>>,
           ~ Begun(run),
           Alone /\ Known(run) => Known(run)'
    PROVE  AloneInv'
<1>1. OrderInv
  BY DEF SagaInv
<1>2. ASSUME Alone, NEW d \in team
      PROVE  op[d] = "idle"
  BY <1>1, <1>2, OnlyCaller
<1>3. UNCHANGED <<op, idx, snap, res, team>>
  BY DEF calls
<1>4. Alone' <=> Alone
  BY <1>3 DEF Alone
<1> QED BY <1>2, <1>3, <1>4 DEF SagaInv, AloneInv

LEMMA StartsAlone ==
    ASSUME SagaInv, NEW c \in team, Starts(c)
    PROVE  AloneInv'
<1>0. 1 \in Steps /\ run \in Runs /\ world \subseteq Steps
  BY SagaAssumption DEF SagaInv, OrderInv, TypeOK, Steps
<1>1. PICK i \in Steps :
        \/ AuthorizeSagaStep(c, i) \/ CommitSagaStep(c, i)
        \/ VerifySagaStep(c, i) \/ RecoverSagaStep(c, i)
        \/ ReportAmbiguous(c, i)
        \/ \E s \in Outcomes : RecordCompensation(c, i, s)
  BY DEF Starts
<1>2. CASE AuthorizeSagaStep(c, i) \/ CommitSagaStep(c, i) \/ VerifySagaStep(c, i)
           \/ RecoverSagaStep(c, i)
  BY <1>2, StartAlone DEF AuthorizeSagaStep, CommitSagaStep, VerifySagaStep, RecoverSagaStep, Op
<1>3. CASE ReportAmbiguous(c, i)
  <2>1. op[c] = "idle" /\ CanCommit(run, i) /\ run' = MarkAmbiguous(run, i)
        /\ UNCHANGED <<life, world, calls, restarts>>
    BY <1>3 DEF ReportAmbiguous
  <2>2. ~ Begun(run)
    BY <1>0, <2>1 DEF Begun, NewRun, Run, CanCommit
  <2>3. Known(run) => Known(run)'
    BY <1>0, <2>1 DEF Known, MarkAmbiguous, Run, Runs
  <2> QED BY <2>1, <2>2, <2>3, ReplaceAlone
<1>4. CASE \E s \in Outcomes : RecordCompensation(c, i, s)
  <2>1. PICK s \in Outcomes : RecordCompensation(c, i, s)
    BY <1>4
  <2>2. op[c] = "idle" /\ run.status = "compensating" /\ run' = MarkCompensation(run, i, s)
        /\ UNCHANGED <<life, world, calls, restarts>>
    BY <2>1 DEF RecordCompensation
  <2>3. ~ Begun(run)
    BY <2>2 DEF Begun, NewRun, Run
  <2>4. run'.steps = [run.steps EXCEPT ![i] = s]
    BY <2>2 DEF MarkCompensation, Run
  <2>5. Known(run) => Known(run)'
    BY <1>0, <2>2, <2>4 DEF Known, Runs
  <2> QED BY <2>2, <2>3, <2>5, ReplaceAlone
<1> QED BY <1>1, <1>2, <1>3, <1>4

LEMMA FinishAlone ==
    ASSUME SagaInv, NEW c \in team, Finish(c)
    PROVE  AloneInv'
<1> DEFINE i == idx[c]
<1>1. /\ OrderInv /\ c \in Callers /\ i \in Steps /\ run \in Runs /\ world \subseteq Steps
      /\ op \in [Callers -> Op] /\ CallOK(c) /\ RunShape(run)
  BY DEF SagaInv, OrderInv, TypeOK
<1>2. /\ UNCHANGED <<life, world, team>> /\ op' = [op EXCEPT ![c] = "idle"]
      /\ run' = NextRun(op[c], snap[c], i, res[c], run) /\ res[c] # "none"
  BY DEF Finish
<1>3. ASSUME Alone, NEW d \in team
      PROVE  op'[d] = "idle"
  BY <1>1, <1>2, <1>3, OnlyCaller
<1>4. ASSUME Alone
      PROVE  (Known(run) \/ Begun(run))'
  <2>1. op[c] # "idle" /\ snap[c] = run /\ (Known(run) \/ Begun(run))
    BY <1>1, <1>2, <1>4 DEF CallOK, SagaInv, AloneInv
  <2>2. CASE run' = run
    BY <1>2, <2>1, <2>2 DEF Known, Begun
  <2>3. CASE op[c] = "authorize" /\ res[c] = "true" /\ CanAuthorize(run, i)
    <3>1. run' = MarkAuthorized(run, i) /\ run.cursor = i
      BY <1>2, <2>1, <2>3 DEF NextRun, CanAuthorize
    <3>2. life[i] = "authorized" /\ i \notin world
      BY <1>1, <1>4, <2>3 DEF SagaInv, AloneInv
    <3>3. Known(run)
      BY <2>1, <3>1, <3>2 DEF Begun, NewRun, Run
    <3> QED BY <1>1, <1>2, <3>1, <3>2, <3>3 DEF Known, MarkAuthorized, Run, Runs
  <2>4. CASE op[c] \in {"commit", "recover"} /\ res[c] = "true"
    <3>1. run' = MarkCommitted(run, i)
      BY <1>2, <2>1, <2>4 DEF NextRun
    <3>2. run.steps[i] \in {"authorized", "ambiguous"}
      BY <1>1, <2>1, <2>4 DEF CallOK, CanCommit, CanRecover
    <3>3. Known(run)
      BY <1>1, <2>1, <3>2 DEF Begun, NewRun, Run
    <3> QED BY <1>1, <1>2, <3>1, <3>3 DEF Known, MarkCommitted, Run, Runs, Done
  <2>5. CASE \/ op[c] = "commit" /\ res[c] \in {"false", "error"}
             \/ op[c] = "recover" /\ res[c] = "false"
    <3>1. run' = MarkFailed(run, i)
      BY <1>2, <2>1, <2>5 DEF NextRun
    <3>2. run.steps[i] \in {"authorized", "ambiguous"}
      BY <1>1, <2>1, <2>5 DEF CallOK, CanCommit, CanRecover
    <3>3. Known(run)
      BY <1>1, <2>1, <3>2 DEF Begun, NewRun, Run
    <3>4. run'.steps = [run.steps EXCEPT ![i] = "failed"]
      BY <3>1 DEF MarkFailed, StartCompensation, Run
    <3> QED BY <1>1, <1>2, <3>3, <3>4 DEF Known, Runs
  <2>6. CASE op[c] = "verify" /\ res[c] = "true" /\ CanVerify(run, i)
    <3>1. run' = MarkVerified(run, i)
      BY <1>2, <2>1, <2>6 DEF NextRun
    <3>2. run.steps[i] = "committed" /\ i = run.cursor
      BY <1>1, <2>6 DEF CanVerify, RunShape
    <3>3. Known(run)
      BY <1>1, <2>1, <3>2 DEF Begun, NewRun, Run
    <3>4. ASSUME NEW j \in world
          PROVE  run'.steps[j] \in Done \cup Outcomes \cup {"failed", "authorized", "ambiguous"}
      <4>1. j \in Steps /\ run.steps[j] \in Done \cup Outcomes \cup {"failed", "authorized", "ambiguous"}
        BY <1>1, <3>3, <3>4 DEF Known
      <4>2. j # i + 1
        <5>1. i + 1 > run.cursor
          BY <1>1, <3>2, SagaAssumption DEF Steps
        <5>2. run.steps[j] # "pending"
          BY <4>1 DEF Done, Outcomes
        <5> QED BY <1>1, <4>1, <5>1, <5>2 DEF RunShape
      <4>3. CASE j = i
        <5>1. run'.steps[i] = "verified"
          <6>1. i # i + 1
            BY <1>1, SagaAssumption DEF Steps
          <6> QED BY <1>1, <3>1, <6>1 DEF MarkVerified, Run, Runs
        <5> QED BY <4>3, <5>1 DEF Done
      <4>4. CASE j # i
        <5>1. run'.steps[j] = run.steps[j]
          BY <1>1, <3>1, <4>1, <4>2, <4>4 DEF MarkVerified, Run, Runs
        <5> QED BY <4>1, <5>1
      <4> QED BY <4>3, <4>4
    <3> QED BY <1>2, <3>4 DEF Known
  <2> QED BY <1>2, <2>1, <2>2, <2>3, <2>4, <2>5, <2>6 DEF NextRun
<1> QED BY <1>2, <1>3, <1>4 DEF SagaInv, AloneInv, Alone

LEMMA RestartAlone ==
    ASSUME SagaInv, Restart
    PROVE  AloneInv'
<1>1. UNCHANGED <<life, world, team>> /\ run' = NewRun /\ op' = [c \in Callers |-> "idle"]
      /\ team \subseteq Callers
  BY DEF Restart, SagaInv, OrderInv, TypeOK
<1>2. world = {} \/ 1 \in world
  <2>1. ASSUME NEW i \in world PROVE 1 \in world
    <3>1. i = 1 \/ 1 \in 1..(i - 1)
      BY SagaAssumption DEF SagaInv, OrderInv, TypeOK, Steps
    <3> QED BY <3>1 DEF SagaInv, OrderInv, EffectsInPlanOrder
  <2> QED BY <2>1
<1>3. (Known(run) \/ Begun(run))'
  BY <1>1, <1>2 DEF Known, Begun
<1> QED BY <1>1, <1>3 DEF SagaInv, AloneInv, Alone

LEMMA SagaStep == SagaInv /\ [Next]_vars => SagaInv'
<1> SUFFICES ASSUME SagaInv, [Next]_vars PROVE SagaInv'
  OBVIOUS
<1>1. OrderInv'
  BY OrderStep DEF SagaInv
<1>2. AloneInv'
  <2>1. ASSUME NEW c \in team, Starts(c) \/ EngineStep(c) \/ Finish(c) PROVE AloneInv'
    BY <2>1, StartsAlone, EngineAlone, FinishAlone
  <2>2. CASE Restart
    BY <2>2, RestartAlone
  <2>3. CASE UNCHANGED vars
    BY <2>3 DEF vars, SagaInv, AloneInv, Alone, Known, Begun
  <2> QED BY <2>1, <2>2, <2>3 DEF Next
<1> QED BY <1>1, <1>2 DEF SagaInv

\* A run that one caller drove, and that ended without completing, leaves no
\* effect of the provider whose compensation was not attempted, except of the one
\* step whose commit failed: after crashed, denied and ambiguous calls too, and
\* over any number of restarts.
THEOREM EffectsAccounted == Spec => []EffectsAccountedFor
<1>1. Init => SagaInv
  BY OrderInit, AloneInit DEF SagaInv
<1>2. SagaInv => EffectsAccountedFor
  <2> SUFFICES ASSUME SagaInv, Alone, run.status \in {"failed_partial", "aborted"}, NEW i \in world
               PROVE  \/ run.steps[i] \in Outcomes
                      \/ run.steps[i] = "failed" /\ i = run.cursor
    BY DEF EffectsAccountedFor
  <2>1. i \in Steps /\ RunShape(run) /\ InReverse(run)
    BY DEF SagaInv, OrderInv, TypeOK
  <2>2. Known(run)
    BY DEF SagaInv, AloneInv, Begun, NewRun, Run
  <2>3. run.steps[i] \in Outcomes \cup {"failed", "authorized", "ambiguous"}
    BY <2>1, <2>2 DEF Known, InReverse
  <2>4. run.steps[run.cursor] = "failed"
    BY <2>1 DEF RunShape, Backward
  <2> QED BY <2>1, <2>3, <2>4 DEF RunShape
<1> QED BY <1>1, <1>2, SagaStep, PTL DEF Spec

(***************************************************************************)
(* The planner.  Both peelings keep the same books: a node counts the      *)
(* links from parents that are still there, and waits once it counts none. *)
(***************************************************************************)
Left(n, S) == SumFunctionOnSet([p \in Nodes |-> links[<<p, n>>]], Nodes \ S)

ClosedUp(S) == \A n \in S : Parents(n) \subseteq S

PeelInv ==
    /\ seen \subseteq Nodes /\ ClosedUp(seen)
    /\ indegree = [n \in Nodes |-> Left(n, seen)]
    /\ work = {n \in Nodes \ seen : Parents(n) \subseteq seen}

\* A list of the nodes of S, each once and its parents before it.
Sorts(q, S) ==
    /\ q \in Seq(S)
    /\ \A i, j \in 1..Len(q) : q[i] = q[j] => i = j
    /\ \A n \in S : \E i \in 1..Len(q) : q[i] = n
    /\ \A i, j \in 1..Len(q) : links[<<q[i], q[j]>>] > 0 => i < j

\* A depth is the length of some path that ends at the node, and no path
\* through nodes that were visited is longer.
DepthInv ==
    /\ depths \in [Nodes -> Nat \ {0}]
    /\ \A n \in Nodes : \E p \in Paths(depths[n]) : p[depths[n]] = n
    /\ \A p \in seen, c \in Nodes : links[<<p, c>>] > 0 => depths[p] < depths[c]

\* No order of the nodes has begun better than the plan so far.
LeastSoFar ==
    \A o \in Orders :
        \/ \A i \in 1..Len(ordered) : o[i] = ordered[i]
        \/ \E i \in 1..Len(ordered) : ordered[i] < o[i] /\ \A j \in 1..(i - 1) : ordered[j] = o[j]

Leads(n, m) == \E k \in Nat \ {0, 1} : \E p \in Paths(k) : p[1] = n /\ p[k] = m

WalkInv ==
    /\ about \in Nodes /\ seen \subseteq Nodes /\ work \subseteq Nodes
    /\ Parents(about) \subseteq seen \cup work
    /\ \A n \in seen : Parents(n) \subseteq seen \cup work
    /\ \A n \in seen \cup work : Leads(n, about)

PlannerInv ==
    /\ links \in [Nodes \X Nodes -> Nat]
    /\ phase # "unordered"
    /\ phase \in {"new", "validating", "valid"} => ordered = <<>>
    /\ phase = "new" => depths = [n \in Nodes |-> 1]
    /\ phase = "validating" => N <= MaxNodes
    /\ phase = "validating" => PeelInv /\ DepthInv /\ \E q : Sorts(q, seen)
    /\ phase \in {"valid", "ordering", "planned", "walking", "done"} => Orders # {}
    /\ phase = "ordering" => PeelInv /\ Sorts(ordered, seen) /\ LeastSoFar
    /\ phase \in {"walking", "done"} => WalkInv
    /\ phase = "done" => work = {}
    /\ AcceptsExactlyDags /\ PlanIsLeastOrder

LinksOK == links \in [Nodes \X Nodes -> Nat]

LEMMA NodesFinite == IsFiniteSet(Nodes) /\ Cardinality(Nodes) = N /\ Nodes \subseteq Nat
  <1>1. N \in Int /\ 1 \in Int /\ ~ (1 > N)
    BY OrderAssumption
  <1>2. IsFiniteSet(1..N) /\ Cardinality(1..N) = N - 1 + 1
    BY <1>1, FS_Interval
  <1> QED BY <1>1, <1>2 DEF Nodes

LEMMA LeftCounts ==
    ASSUME LinksOK, NEW n \in Nodes, NEW S
    PROVE  /\ Left(n, S) \in Nat
           /\ Left(n, S) = 0 <=> Parents(n) \subseteq S
           /\ \A p \in Nodes \ S : Left(n, S \cup {p}) = Left(n, S) - links[<<p, n>>]
  <1> DEFINE f == [p \in Nodes |-> links[<<p, n>>]]
             R == Nodes \ S
  <1>1. \A p \in Nodes : f[p] = links[<<p, n>>] /\ f[p] \in Nat /\ f[p] \in Int
    BY DEF LinksOK
  <1>2. IsFiniteSet(R)
    BY NodesFinite, FS_Subset
  <1>3. Left(n, S) = SumFunctionOnSet(f, R)
    BY DEF Left
  <1>4. \A T : Left(n, T) = SumFunctionOnSet(f, Nodes \ T)
    BY DEF Left
  <1> HIDE DEF f
  <1>5. \A x \in R : f[x] \in Int
    <2> TAKE x \in R
    <2>1. x \in Nodes
      OBVIOUS
    <2> QED BY <1>1, <2>1
  <1>6. /\ SumFunctionOnSet(f, R) \in Int
        /\ \A x \in R : SumFunctionOnSet(f, R) = f[x] + SumFunctionOnSet(f, R \ {x})
    BY <1>2, <1>5, SumTakes
  <1>7. \A T \in SUBSET R : 0 <= SumFunctionOnSet(f, T) /\ SumFunctionOnSet(f, T) <= SumFunctionOnSet(f, R)
    <2> TAKE T \in SUBSET R
    <2>1. \A x \in R : f[x] \in Nat
      BY <1>1
    <2>2. IsFiniteSet(T) /\ {} \in SUBSET T /\ \A x \in T : f[x] \in Nat
      BY <1>2, <2>1, FS_Subset
    <2>3. SumFunctionOnSet(f, {}) <= SumFunctionOnSet(f, T)
      BY <2>2, SumSubset
    <2>4. SumFunctionOnSet(f, T) <= SumFunctionOnSet(f, R)
      BY <1>2, <2>1, SumSubset
    <2> QED BY <2>3, <2>4, SumOfNone
  <1>8. Left(n, S) \in Nat
    BY <1>3, <1>6, <1>7
  <1>9. ASSUME Parents(n) \subseteq S PROVE Left(n, S) = 0
    <2>1. ASSUME NEW x \in R PROVE f[x] = 0
      <3>1. x \in Nodes /\ x \notin Parents(n)
        BY <1>9
      <3>2. ~ (links[<<x, n>>] > 0) /\ links[<<x, n>>] = f[x] /\ f[x] \in Nat
        BY <1>1, <3>1 DEF Parents
      <3> QED BY <3>2
    <2> QED BY <1>2, <1>3, <2>1, SumOfZeros
  <1>10. ASSUME Left(n, S) = 0, NEW p \in Parents(n) PROVE p \in S
    <2> SUFFICES ASSUME p \notin S PROVE FALSE
      OBVIOUS
    <2>1. p \in R /\ f[p] > 0 /\ f[p] \in Nat
      BY <1>1 DEF Parents
    <2>2. R \ {p} \in SUBSET R
      OBVIOUS
    <2>3. 0 = f[p] + SumFunctionOnSet(f, R \ {p})
      BY <1>3, <1>6, <1>10, <2>1
    <2>4. IsFiniteSet(R \ {p}) /\ \A x \in R \ {p} : f[x] \in Int
      BY <1>2, <1>5, FS_Subset
    <2>5. SumFunctionOnSet(f, R \ {p}) \in Int
      BY <2>4, SumTakes
    <2> QED BY <1>7, <2>1, <2>2, <2>3, <2>5
  <1>11. ASSUME NEW p \in Nodes \ S PROVE Left(n, S \cup {p}) = Left(n, S) - links[<<p, n>>]
    <2>1. Nodes \ (S \cup {p}) = R \ {p} /\ p \in R
      OBVIOUS
    <2>2. IsFiniteSet(R \ {p}) /\ \A x \in R \ {p} : f[x] \in Int
      BY <1>2, <1>5, FS_Subset
    <2>3. SumFunctionOnSet(f, R \ {p}) \in Int
      BY <2>2, SumTakes
    <2>4. SumFunctionOnSet(f, R) = f[p] + SumFunctionOnSet(f, R \ {p})
      BY <1>6, <2>1
    <2>5. Left(n, S \cup {p}) = SumFunctionOnSet(f, R \ {p})
      BY <1>4, <2>1
    <2>6. f[p] = links[<<p, n>>] /\ f[p] \in Nat
      BY <1>1
    <2> HIDE DEF R
    <2> QED BY <1>3, <1>6, <2>3, <2>4, <2>5, <2>6
  <1> QED BY <1>8, <1>9, <1>10, <1>11

\* An order of the nodes leaves none out.
LEMMA OrdersAreOnto ==
    ASSUME NEW o \in Orders
    PROVE  o \in [Nodes -> Nodes] /\ \A n \in Nodes : \E i \in Nodes : o[i] = n
  <1>1. o \in Injection(Nodes, Nodes)
    BY DEF Orders
  <1>2. Cardinality(Nodes) = Cardinality(Nodes) <=> o \in Surjection(Nodes, Nodes)
    BY <1>1, NodesFinite, FS_Injection
  <1> QED BY <1>1, <1>2 DEF Injection, Surjection, IsInjective

\* Nodes of which each has a parent that is left over too have no order.
LEMMA Stuck ==
    ASSUME LinksOK, NEW S, NEW m \in Nodes \ S,
           \A n \in Nodes \ S : ~ (Parents(n) \subseteq S)
    PROVE  Orders = {}
  <1> SUFFICES ASSUME NEW o \in Orders PROVE FALSE
    OBVIOUS
  <1> DEFINE F == {i \in Nodes : o[i] \notin S}
  <1>1. F \subseteq Nat /\ F # {}
    BY OrdersAreOnto, NodesFinite
  <1>2. PICK i \in F : \A j \in F : i <= j
    <2> HIDE DEF F
    <2> QED BY <1>1, LeastNumber
  <1>3. o[i] \in Nodes \ S /\ i \in Nodes
    BY <1>2, OrdersAreOnto
  <1>4. PICK p \in Parents(o[i]) : p \notin S
    BY <1>3
  <1>5. PICK j \in Nodes : o[j] = p
    BY <1>4, OrdersAreOnto DEF Parents
  <1>6. links[<<o[j], o[i]>>] > 0
    BY <1>4, <1>5 DEF Parents
  <1>7. j < i
    BY <1>3, <1>5, <1>6 DEF Orders
  <1>8. j \in F
    BY <1>4, <1>5
  <1> QED BY <1>2, <1>3, <1>5, <1>7, <1>8, NodesFinite

\* A list of all the nodes is an order of the nodes.
LEMMA SortedOrders ==
    ASSUME NEW q, Sorts(q, Nodes)
    PROVE  Len(q) = N /\ q \in Orders
  <1>1. q \in Seq(Nodes) /\ Len(q) \in Nat /\ q \in [1..Len(q) -> Nodes]
    BY DEF Sorts
  <1>2. q \in Bijection(1..Len(q), Nodes)
    BY <1>1 DEF Sorts, Bijection, Injection, Surjection, IsInjective
  <1>3. IsFiniteSet(1..Len(q)) /\ Cardinality(1..Len(q)) = Len(q)
    <2>1. IsFiniteSet(1..Len(q)) /\ Cardinality(1..Len(q)) = IF 1 > Len(q) THEN 0 ELSE Len(q) - 1 + 1
      BY <1>1, FS_Interval
    <2> QED BY <1>1, <2>1
  <1>4. Cardinality(Nodes) = Cardinality(1..Len(q))
    BY <1>2, <1>3, FS_Bijection DEF ExistsBijection
  <1>5. Len(q) = N
    BY <1>3, <1>4, NodesFinite
  <1>6. 1..Len(q) = Nodes
    BY <1>5 DEF Nodes
  <1> QED BY <1>1, <1>2, <1>5, <1>6 DEF Sorts, Orders, Bijection

\* A set of numbers with a bound has a greatest one.
LEMMA MaxIs ==
    ASSUME NEW S, S \subseteq Nat, S # {}, NEW b \in Nat, \A y \in S : y <= b
    PROVE  Max(S) \in S /\ \A y \in S : y <= Max(S)
  <1> DEFINE B == {u \in Nat : \A y \in S : y <= u}
  <1>1. B \subseteq Nat /\ B # {}
    OBVIOUS
  <1>2. PICK u \in B : \A v \in B : u <= v
    <2> HIDE DEF B
    <2> QED BY <1>1, LeastNumber
  <1>3. u \in S
    <2> SUFFICES ASSUME u \notin S PROVE FALSE
      OBVIOUS
    <2>1. \A y \in S : y < u
      BY <1>2
    <2>a. PICK y \in S : y \in Nat
      OBVIOUS
    <2>2. u > 0
      BY <1>2, <2>1, <2>a
    <2>3. u - 1 \in B
      BY <1>2, <2>1, <2>2
    <2> QED BY <1>2, <2>3
  <1>4. u \in S /\ \A y \in S : u >= y
    BY <1>2, <1>3
  <1>5. \A y \in S : Max(S) >= y /\ Max(S) \in S
    BY <1>4 DEF Max
  <1> QED BY <1>5

LEMMA MinIs ==
    ASSUME NEW S, S \subseteq Nat, S # {}
    PROVE  Min(S) \in S /\ \A y \in S : Min(S) <= y
  <1>1. PICK u \in S : \A y \in S : u <= y
    BY LeastNumber
  <1> QED BY <1>1 DEF Min

\* Along a path numbers that grow with every link reach the length of the path.
LEMMA PathClimbs ==
    ASSUME NEW k \in Nat, NEW p \in Paths(k), NEW h \in [Nodes -> Nat],
           \A n \in Nodes : h[n] >= 1,
           \A m, n \in Nodes : links[<<m, n>>] > 0 => h[m] < h[n]
    PROVE  \A i \in 1..k : p[i] \in Nodes /\ h[p[i]] >= i
  <1> DEFINE F == {i \in 1..k : h[p[i]] < i}
  <1>1. p \in [1..k -> Nodes] /\ \A i \in 1..(k - 1) : links[<<p[i], p[i + 1]>>] > 0
    BY DEF Paths
  <1>2. F = {}
    <2> SUFFICES ASSUME F # {} PROVE FALSE
      OBVIOUS
    <2>1. F \subseteq Nat
      OBVIOUS
    <2>2. PICK i \in F : \A j \in F : i <= j
      <3> HIDE DEF F
      <3> QED BY <2>1, LeastNumber
    <2>3. i \in 1..k /\ h[p[i]] < i /\ p[i] \in Nodes /\ h[p[i]] \in Nat
      BY <1>1, <2>2
    <2>4. i > 1
      BY <2>3
    <2>5. i - 1 \in 1..(k - 1) /\ i - 1 \in 1..k /\ (i - 1) + 1 = i
      BY <2>3, <2>4
    <2>6. links[<<p[i - 1], p[i]>>] > 0 /\ p[i - 1] \in Nodes
      BY <1>1, <2>5
    <2>7. h[p[i - 1]] < h[p[i]] /\ h[p[i - 1]] \in Nat
      BY <2>3, <2>6
    <2>8. i - 1 \in F
      BY <2>3, <2>5, <2>7
    <2> QED BY <2>2, <2>3, <2>8
  <1> QED
    <2> TAKE i \in 1..k
    <2>1. p[i] \in Nodes /\ h[p[i]] \in Nat
      BY <1>1
    <2> QED BY <1>2, <2>1

\* Where the nodes have an order, a path has no more nodes than there are.
LEMMA PathsAreShort ==
    ASSUME Orders # {}, NEW k \in Nat, NEW p \in Paths(k)
    PROVE  k <= N
  <1>1. PICK o \in Orders : TRUE
    OBVIOUS
  <1> DEFINE h == [n \in Nodes |-> CHOOSE i \in Nodes : o[i] = n]
  <1>2. \A n \in Nodes : h[n] \in Nodes /\ o[h[n]] = n
    BY OrdersAreOnto
  <1>3. \A m, n \in Nodes : links[<<m, n>>] > 0 => h[m] < h[n]
    <2> TAKE m \in Nodes, n \in Nodes
    <2> HIDE DEF h
    <2> QED BY <1>2 DEF Orders
  <1>4. h \in [Nodes -> Nat] /\ \A n \in Nodes : h[n] >= 1 /\ h[n] <= N
    <2>1. h \in [Nodes -> Nodes]
      BY <1>2
    <2> HIDE DEF h
    <2> QED BY <2>1, OrderAssumption DEF Nodes
  <1>5. CASE k = 0
    BY <1>5, OrderAssumption
  <1>6. CASE k # 0
    <2> HIDE DEF h
    <2>1. k \in 1..k
      BY <1>6
    <2>2. p[k] \in Nodes /\ h[p[k]] >= k
      BY <1>3, <1>4, <2>1, PathClimbs
    <2>3. h[p[k]] <= N /\ h[p[k]] \in Nat
      BY <1>4, <2>2
    <2> QED BY <2>2, <2>3, OrderAssumption
  <1> QED BY <1>5, <1>6

\* A link makes a path longer, at its end or at its beginning.
LEMMA PathGoesOn ==
    ASSUME NEW k \in Nat \ {0}, NEW p \in Paths(k), NEW c \in Nodes, links[<<p[k], c>>] > 0
    PROVE  \E q \in Paths(k + 1) : q[k + 1] = c
  <1> DEFINE q == [i \in 1..(k + 1) |-> IF i = k + 1 THEN c ELSE p[i]]
  <1>1. p \in [1..k -> Nodes] /\ \A i \in 1..(k - 1) : links[<<p[i], p[i + 1]>>] > 0
    BY DEF Paths
  <1>2. q \in [1..(k + 1) -> Nodes] /\ q[k + 1] = c /\ \A i \in 1..k : q[i] = p[i]
    BY <1>1
  <1>3. ASSUME NEW i \in 1..((k + 1) - 1) PROVE links[<<q[i], q[i + 1]>>] > 0
    <2> HIDE DEF q
    <2>1. CASE i = k
      BY <1>2, <2>1
    <2>2. CASE i # k
      <3>1. i \in 1..(k - 1) /\ i \in 1..k /\ i + 1 \in 1..k
        BY <2>2
      <3> QED BY <1>1, <1>2, <3>1
    <2> QED BY <2>1, <2>2
  <1>4. q \in Paths(k + 1)
    <2> HIDE DEF q
    <2> QED BY <1>2, <1>3 DEF Paths
  <1> QED BY <1>2, <1>4

LEMMA PathBegins ==
    ASSUME NEW k \in Nat \ {0}, NEW p \in Paths(k), NEW n \in Nodes, links[<<n, p[1]>>] > 0
    PROVE  \E q \in Paths(k + 1) : q[1] = n /\ q[k + 1] = p[k]
  <1> DEFINE q == [i \in 1..(k + 1) |-> IF i = 1 THEN n ELSE p[i - 1]]
  <1>1. p \in [1..k -> Nodes] /\ \A i \in 1..(k - 1) : links[<<p[i], p[i + 1]>>] > 0
    BY DEF Paths
  <1>2. q \in [1..(k + 1) -> Nodes] /\ q[1] = n /\ \A i \in 1..k : q[i + 1] = p[i]
    BY <1>1
  <1>3. ASSUME NEW i \in 1..((k + 1) - 1) PROVE links[<<q[i], q[i + 1]>>] > 0
    <2> HIDE DEF q
    <2>1. CASE i = 1
      <3>1. q[2] = p[1]
        BY <1>2
      <3> QED BY <1>2, <2>1, <3>1
    <2>2. CASE i # 1
      <3>1. i - 1 \in 1..(k - 1) /\ i - 1 \in 1..k /\ i \in 1..k /\ (i - 1) + 1 = i
        BY <2>2
      <3>2. q[i] = p[i - 1] /\ q[i + 1] = p[i]
        BY <1>2, <3>1
      <3>3. links[<<p[i - 1], p[(i - 1) + 1]>>] > 0
        BY <1>1, <3>1
      <3> QED BY <3>1, <3>2, <3>3
    <2> QED BY <2>1, <2>2
  <1>4. q \in Paths(k + 1)
    <2> HIDE DEF q
    <2> QED BY <1>2, <1>3 DEF Paths
  <1>5. q[k + 1] = p[k]
    BY <1>2
  <1> QED BY <1>2, <1>4, <1>5

\* The first round of a peeling.
LEMMA PeelingStarts ==
    ASSUME LinksOK, StartPeeling, links' = links
    PROVE  PeelInv' /\ seen' = {}
  <1>1. \A n \in Nodes : InDegree(n) = Left(n, {})
    <2> TAKE n \in Nodes
    <2>1. Nodes \ {} = Nodes
      OBVIOUS
    <2> QED BY <2>1, Zenon DEF InDegree, Left
  <1>2. indegree' = [n \in Nodes |-> Left(n, {})]
    BY <1>1 DEF StartPeeling
  <1>3. \A n \in Nodes : InDegree(n) = 0 <=> Parents(n) \subseteq {}
    BY <1>1, LeftCounts
  <1>4. work' = {n \in Nodes \ {} : Parents(n) \subseteq {}}
    BY <1>3 DEF StartPeeling, Roots
  <1>5. seen' = {}
    BY DEF StartPeeling
  <1>6. \A n \in Nodes : Left(n, seen)' = Left(n, {}) /\ Parents(n)' = Parents(n)
    BY <1>5 DEF Left, Parents
  <1>7. indegree' = [n \in Nodes |-> Left(n, seen)'] /\ work' = {n \in Nodes \ {} : Parents(n)' \subseteq {}}
    BY <1>2, <1>4, <1>6
  <1> QED BY <1>5, <1>7 DEF PeelInv, ClosedUp

\* Taking a waiting node off keeps the books.
LEMMA PeelingGoesOn ==
    ASSUME LinksOK, PeelInv, NEW n \in work, Peel(n), links' = links
    PROVE  /\ PeelInv'
           /\ n \in Nodes \ seen /\ Parents(n) \subseteq seen /\ seen' = seen \cup {n}
  <1> DEFINE left == [c \in Nodes |-> indegree[c] - links[<<n, c>>]]
             S == seen \cup {n}
  <1>1. n \in Nodes \ seen /\ Parents(n) \subseteq seen /\ seen' = S
    BY DEF PeelInv, Peel
  <1>2. \A c \in Nodes : left[c] = Left(c, S)
    <2> TAKE c \in Nodes
    <2>1. indegree[c] = Left(c, seen)
      BY DEF PeelInv
    <2>2. left[c] = indegree[c] - links[<<n, c>>]
      OBVIOUS
    <2> HIDE DEF left
    <2> QED BY <1>1, <2>1, <2>2, LeftCounts
  <1>3. indegree' = left /\ work' = (work \ {n}) \cup {c \in Children(n) : left[c] = 0}
    BY DEF Peel
  <1>4. indegree' = [c \in Nodes |-> Left(c, S)]
    BY <1>2, <1>3
  <1> HIDE DEF left
  <1>5. \A c \in Nodes : left[c] = 0 <=> Parents(c) \subseteq S
    BY <1>2, LeftCounts
  <1>6. \A c \in Nodes : c \in Children(n) <=> n \in Parents(c)
    BY <1>1 DEF Children, Parents
  <1>7. Children(n) \subseteq Nodes
    BY DEF Children
  <1>8. \A c \in Children(n) : c \notin S
    BY <1>1, <1>6, <1>7 DEF PeelInv, ClosedUp
  <1>9. work' = {c \in Nodes \ S : Parents(c) \subseteq S}
    BY <1>1, <1>3, <1>5, <1>6, <1>7, <1>8 DEF PeelInv
  <1>10. ClosedUp(S)
    BY <1>1 DEF PeelInv, ClosedUp
  <1>11. \A c : Left(c, seen)' = Left(c, S) /\ Parents(c)' = Parents(c)
    BY <1>1 DEF Left, Parents
  <1>12. indegree' = [c \in Nodes |-> Left(c, seen)'] /\ work' = {c \in Nodes \ S : Parents(c)' \subseteq S}
    BY <1>4, <1>9, <1>11
  <1>13. S \subseteq Nodes /\ \A c \in S : Parents(c)' \subseteq S
    BY <1>1, <1>10, <1>11 DEF PeelInv, ClosedUp
  <1>14. (seen \subseteq Nodes)' /\ ClosedUp(seen)'
    BY <1>1, <1>13 DEF ClosedUp
  <1>15. work' = {c \in Nodes \ seen' : Parents(c)' \subseteq seen'}
    BY <1>1, <1>12
  <1> HIDE DEF S
  <1>16. PeelInv'
    BY <1>12, <1>14, <1>15 DEF PeelInv
  <1> QED BY <1>1, <1>16 DEF S

\* A sorted list grows by a node whose parents are in it.
LEMMA SortGrows ==
    ASSUME NEW S, NEW q, Sorts(q, S), ClosedUp(S), S \subseteq Nodes,
           NEW n \in Nodes \ S, Parents(n) \subseteq S
    PROVE  Sorts(Append(q, n), S \cup {n})
  <1> DEFINE r == Append(q, n)
             m == Len(q)
  <1>1. q \in Seq(S) /\ m \in Nat /\ \A i \in 1..m : q[i] \in S
    BY DEF Sorts
  <1>2. r \in Seq(S \cup {n}) /\ Len(r) = m + 1 /\ r[m + 1] = n /\ \A i \in 1..m : r[i] = q[i]
    <2>1. q \in Seq(S \cup {n})
      BY <1>1
    <2> QED BY <2>1
  <1>3. \A i \in 1..(m + 1) : i = m + 1 \/ (i \in 1..m /\ r[i] \in S /\ r[i] = q[i])
    BY <1>1, <1>2
  <1> HIDE DEF r, m
  <1>4. \A i, j \in 1..(m + 1) : r[i] = r[j] => i = j
    BY <1>2, <1>3 DEF Sorts, m
  <1>5. \A x \in S \cup {n} : \E i \in 1..(m + 1) : r[i] = x
    <2> TAKE x \in S \cup {n}
    <2>1. CASE x = n
      <3>1. m + 1 \in 1..(m + 1)
        BY <1>1
      <3> QED BY <1>2, <2>1, <3>1
    <2>2. CASE x \in S
      <3>1. PICK i \in 1..m : q[i] = x
        BY <2>2 DEF Sorts, m
      <3>2. i \in 1..(m + 1) /\ r[i] = x
        BY <1>1, <1>2, <3>1
      <3> QED BY <3>2
    <2> QED BY <2>1, <2>2
  <1>6. ASSUME NEW i \in 1..(m + 1), NEW j \in 1..(m + 1), links[<<r[i], r[j]>>] > 0
        PROVE  i < j
    <2>1. CASE i \in 1..m /\ j \in 1..m
      BY <1>2, <1>6, <2>1 DEF Sorts, m
    <2>2. CASE i \in 1..m /\ j = m + 1
      BY <1>1, <2>2
    <2>3. CASE i = m + 1 /\ j \in 1..m
      <3>1. r[i] = n /\ r[j] \in S /\ r[j] \in Nodes
        BY <1>1, <1>2, <2>3
      <3>2. n \in Parents(r[j])
        BY <1>6, <3>1 DEF Parents
      <3> QED BY <3>1, <3>2 DEF ClosedUp
    <2>4. CASE i = m + 1 /\ j = m + 1
      <3>1. n \in Parents(n)
        BY <1>2, <1>6, <2>4 DEF Parents
      <3> QED BY <3>1
    <2> QED BY <1>1, <2>1, <2>2, <2>3, <2>4
  <1> QED BY <1>2, <1>4, <1>5, <1>6 DEF Sorts, r, m

\* A visit keeps the depths of the nodes visited, and they stay the lengths of
\* their longest paths.
LEMMA DepthsGrow ==
    ASSUME LinksOK, PeelInv, DepthInv, NEW n \in work, Peel(n), depths' = Deepen(n), links' = links
    PROVE  DepthInv'
  <1>1. n \in Nodes \ seen /\ Parents(n) \subseteq seen /\ seen' = seen \cup {n} /\ seen \subseteq Nodes
    BY PeelingGoesOn DEF PeelInv
  <1>2. \A c \in Nodes : c \in Children(n) <=> links[<<n, c>>] > 0
    BY DEF Children
  <1>3. \A c \in seen \cup {n} : c \notin Children(n)
    BY <1>1, <1>2 DEF PeelInv, ClosedUp, Parents
  <1>4. \A c \in Nodes : depths[c] \in Nat \ {0}
    BY DEF DepthInv
  <1>5. \A c \in Nodes : depths'[c] = IF c \in Children(n) THEN Max({depths[c], depths[n] + 1}) ELSE depths[c]
    BY DEF Deepen
  <1>6. \A c \in Nodes : c \notin Children(n) => depths'[c] = depths[c]
    BY <1>5
  <1>7. ASSUME NEW c \in Nodes, c \in Children(n)
        PROVE  /\ depths'[c] = depths[c] \/ depths'[c] = depths[n] + 1
               /\ depths'[c] >= depths[c] /\ depths'[c] >= depths[n] + 1
    <2> DEFINE T == {depths[c], depths[n] + 1}
               b == depths[c] + depths[n] + 1
    <2>1. T \subseteq Nat /\ T # {} /\ b \in Nat /\ \A y \in T : y <= b
      BY <1>1, <1>4
    <2>2. depths'[c] = Max(T)
      BY <1>5, <1>7
    <2>3. depths[c] \in T /\ depths[n] + 1 \in T
      OBVIOUS
    <2>4. \A y \in T : y = depths[c] \/ y = depths[n] + 1
      OBVIOUS
    <2> HIDE DEF T, b
    <2>5. Max(T) \in T /\ \A y \in T : y <= Max(T)
      BY <2>1, MaxIs
    <2>6. Max(T) \in Nat
      BY <2>1, <2>5
    <2> QED BY <1>1, <1>4, <2>2, <2>3, <2>4, <2>5, <2>6
  <1>8. \A c \in Nodes : depths'[c] \in Nat \ {0} /\ depths'[c] >= depths[c]
    BY <1>1, <1>4, <1>6, <1>7
  <1>9. depths' \in [Nodes -> Nat \ {0}]
    <2>1. depths' = [c \in Nodes |-> depths'[c]]
      BY DEF Deepen
    <2> QED BY <1>8, <2>1
  <1>11. ASSUME NEW c \in Nodes PROVE \E p \in Paths(depths'[c]) : p[depths'[c]] = c
    <2>1. CASE depths'[c] = depths[c]
      BY <2>1 DEF DepthInv
    <2>2. CASE c \in Children(n) /\ depths'[c] = depths[n] + 1
      <3>1. PICK p \in Paths(depths[n]) : p[depths[n]] = n
        BY <1>1 DEF DepthInv
      <3>2. depths[n] \in Nat \ {0} /\ links[<<p[depths[n]], c>>] > 0
        BY <1>1, <1>2, <1>4, <2>2, <3>1
      <3>3. \E q \in Paths(depths[n] + 1) : q[depths[n] + 1] = c
        BY <3>2, PathGoesOn
      <3> QED BY <2>2, <3>3
    <2> QED BY <1>6, <1>7, <2>1, <2>2
  <1>12. ASSUME NEW p \in seen \cup {n}, NEW c \in Nodes, links[<<p, c>>] > 0
         PROVE  depths'[p] < depths'[c]
    <2>1. p \in Nodes /\ depths'[p] = depths[p]
      BY <1>1, <1>3, <1>6
    <2>2. CASE p \in seen
      <3>1. depths[p] < depths[c]
        BY <1>12, <2>2 DEF DepthInv
      <3> QED BY <1>4, <1>8, <2>1, <3>1
    <2>3. CASE p = n
      <3>1. c \in Children(n)
        BY <1>2, <1>12, <2>3
      <3>2. depths'[c] >= depths[n] + 1 /\ depths'[c] \in Nat /\ depths[n] \in Nat
        BY <1>1, <1>4, <1>7, <1>8, <3>1
      <3> QED BY <2>1, <2>3, <3>2
    <2> QED BY <2>2, <2>3
  <1>14. \A p \in seen', c \in Nodes : links'[<<p, c>>] > 0 => depths'[p] < depths'[c]
    BY <1>1, <1>12
  <1>15. \A c \in Nodes : (\E p \in Paths(depths[c]) : p[depths[c]] = c)'
    <2> TAKE c \in Nodes
    <2>1. PICK p \in Paths(depths'[c]) : p[depths'[c]] = c
      BY <1>11
    <2>2. Paths(depths[c])' = Paths(depths'[c])
      BY DEF Paths
    <2> QED BY <2>1, <2>2
  <1> QED BY <1>9, <1>14, <1>15 DEF DepthInv

\* Once every node was visited, the greatest depth is the length of the longest path.
LEMMA DepthIsDepth ==
    ASSUME LinksOK, DepthInv, seen = Nodes, Orders # {}
    PROVE  Max({depths[n] : n \in seen}) = Depth /\ Depth \in Nat
  <1> DEFINE D == {depths[n] : n \in Nodes}
             K == {k \in Nodes : Paths(k) # {}}
  <1>1. \A n \in Nodes : depths[n] \in Nat \ {0} /\ \E p \in Paths(depths[n]) : p[depths[n]] = n
    BY DEF DepthInv
  <1>2. \A n \in Nodes : depths[n] <= N /\ depths[n] \in Nodes /\ Paths(depths[n]) # {}
    <2> TAKE n \in Nodes
    <2>1. PICK p \in Paths(depths[n]) : TRUE
      BY <1>1
    <2>2. depths[n] \in Nat \ {0}
      BY <1>1
    <2>3. depths[n] <= N
      BY <2>1, <2>2, PathsAreShort
    <2> QED BY <2>1, <2>2, <2>3, OrderAssumption DEF Nodes
  <1>3. N \in Nat /\ 1 \in Nodes /\ Nodes \subseteq Nat /\ \A k \in Nodes : k <= N
    BY OrderAssumption DEF Nodes
  <1>4. D \subseteq K /\ D # {}
    BY <1>2, <1>3
  <1>5. K \subseteq Nat /\ K # {} /\ \A k \in K : k <= N
    BY <1>3, <1>4
  <1>6. \A k \in K : \E d \in D : k <= d
    <2> TAKE k \in K
    <2>1. PICK p \in Paths(k) : TRUE
      OBVIOUS
    <2>2. k \in Nat /\ k \in 1..k /\ depths \in [Nodes -> Nat] /\ \A n \in Nodes : depths[n] >= 1
      BY <1>1, <1>3 DEF DepthInv, Nodes
    <2>3. \A m, n \in Nodes : links[<<m, n>>] > 0 => depths[m] < depths[n]
      BY DEF DepthInv
    <2>4. p[k] \in Nodes /\ depths[p[k]] >= k
      BY <2>2, <2>3, PathClimbs
    <2>5. depths[p[k]] \in D /\ depths[p[k]] \in Nat
      BY <2>2, <2>4
    <2> QED BY <2>2, <2>4, <2>5
  <1> HIDE DEF D, K
  <1>7. D \subseteq Nat /\ \A d \in D : d <= N
    BY <1>4, <1>5
  <1>8. Max(D) \in D /\ \A d \in D : d <= Max(D)
    BY <1>3, <1>4, <1>7, MaxIs
  <1>9. Max(K) \in K /\ \A k \in K : k <= Max(K)
    BY <1>3, <1>5, MaxIs
  <1>10. PICK d \in D : Max(K) <= d
    BY <1>6, <1>9
  <1>11. Max(D) \in K /\ Max(D) \in Nat /\ Max(K) \in Nat /\ d \in Nat
    BY <1>4, <1>5, <1>8, <1>9, <1>10
  <1>12. Max(D) = Max(K)
    BY <1>8, <1>9, <1>10, <1>11
  <1> QED BY <1>11, <1>12 DEF Depth, D, K

\* Whatever leads to the node is in a set of nodes that holds its parents and
\* the parents of its members.
LEMMA ClosedHolds ==
    ASSUME NEW S, NEW m \in Nodes, Parents(m) \subseteq S, ClosedUp(S),
           NEW k \in Nat, k >= 2, NEW p \in Paths(k), p[k] = m
    PROVE  p[1] \in S
  <1>1. p \in [1..k -> Nodes] /\ \A i \in 1..(k - 1) : links[<<p[i], p[i + 1]>>] > 0
    BY DEF Paths
  <1> DEFINE F == {j \in Nat : j <= k - 2 /\ p[k - 1 - j] \notin S}
  <1>2. F = {}
    <2> SUFFICES ASSUME F # {} PROVE FALSE
      OBVIOUS
    <2>1. F \subseteq Nat
      OBVIOUS
    <2>2. PICK j \in F : \A i \in F : j <= i
      <3> HIDE DEF F
      <3> QED BY <2>1, LeastNumber
    <2>3. PICK i : i = k - 1 - j
      OBVIOUS
    <2>4. i \in 1..(k - 1) /\ i \in 1..k /\ i + 1 \in 1..k /\ j \in Nat /\ j <= k - 2 /\ p[i] \notin S
      BY <2>2, <2>3
    <2>5. p[i] \in Nodes /\ p[i] \in Parents(p[i + 1])
      BY <1>1, <2>4 DEF Parents
    <2>6. CASE j = 0
      <3>1. i + 1 = k
        BY <2>3, <2>6
      <3> QED BY <2>4, <2>5, <3>1
    <2>7. CASE j # 0
      <3>1. j - 1 \in Nat /\ j - 1 <= k - 2 /\ ~ (j <= j - 1) /\ k - 1 - (j - 1) = i + 1
        BY <2>3, <2>4, <2>7
      <3>2. j - 1 \notin F
        BY <2>2, <3>1
      <3>3. p[i + 1] \in S
        BY <3>1, <3>2
      <3> QED BY <2>4, <2>5, <3>3 DEF ClosedUp
    <2> QED BY <2>6, <2>7
  <1>3. k - 2 \in Nat /\ k - 2 <= k - 2 /\ k - 1 - (k - 2) = 1
    OBVIOUS
  <1>4. k - 2 \notin F
    BY <1>2
  <1> QED BY <1>3, <1>4

LEMMA ParentLeads ==
    ASSUME NEW n \in Nodes, NEW p \in Parents(n)
    PROVE  /\ p \in Nodes /\ Leads(p, n)
           /\ \A m : Leads(n, m) => Leads(p, m)
  <1>1. p \in Nodes /\ links[<<p, n>>] > 0
    BY DEF Parents
  <1>2. Leads(p, n)
    <2> DEFINE q == [i \in 1..2 |-> IF i = 1 THEN p ELSE n]
    <2>1. q \in [1..2 -> Nodes] /\ q[1] = p /\ q[2] = n
      BY <1>1
    <2> HIDE DEF q
    <2>2. \A i \in 1..(2 - 1) : i = 1
      OBVIOUS
    <2>3. q \in Paths(2)
      BY <1>1, <2>1, <2>2 DEF Paths
    <2>4. 2 \in Nat \ {0, 1}
      OBVIOUS
    <2> QED BY <2>1, <2>3, <2>4 DEF Leads
  <1>3. ASSUME NEW m, Leads(n, m) PROVE Leads(p, m)
    <2>1. PICK k \in Nat \ {0, 1} : \E q \in Paths(k) : q[1] = n /\ q[k] = m
      BY <1>3 DEF Leads
    <2>2. PICK q \in Paths(k) : q[1] = n /\ q[k] = m
      BY <2>1
    <2>3. k \in Nat \ {0} /\ links[<<p, q[1]>>] > 0
      BY <1>1, <2>2
    <2>4. PICK r \in Paths(k + 1) : r[1] = p /\ r[k + 1] = q[k]
      BY <1>1, <2>3, PathBegins
    <2>5. k + 1 \in Nat \ {0, 1}
      BY <2>1
    <2> QED BY <2>2, <2>4, <2>5 DEF Leads
  <1> QED BY <1>1, <1>2, <1>3

\* The walk ends with exactly the ancestors.
LEMMA WalkFindsAncestors ==
    ASSUME LinksOK, WalkInv, work = {}, Orders # {}
    PROVE  seen = {n \in Nodes : \E k \in 2..N : \E p \in Paths(k) : p[1] = n /\ p[k] = about}
  <1>1. ASSUME NEW n \in seen
        PROVE  n \in Nodes /\ \E k \in 2..N : \E p \in Paths(k) : p[1] = n /\ p[k] = about
    <2>1. PICK k \in Nat \ {0, 1} : \E p \in Paths(k) : p[1] = n /\ p[k] = about
      BY DEF WalkInv, Leads
    <2>2. PICK p \in Paths(k) : p[1] = n /\ p[k] = about
      BY <2>1
    <2>3. k <= N
      BY <2>1, PathsAreShort
    <2>4. k \in 2..N
      BY <2>1, <2>3, OrderAssumption
    <2> QED BY <2>2, <2>4 DEF WalkInv
  <1>2. ASSUME NEW k \in 2..N, NEW p \in Paths(k), p[k] = about PROVE p[1] \in seen
    <2>1. ClosedUp(seen) /\ Parents(about) \subseteq seen /\ about \in Nodes
      BY DEF WalkInv, ClosedUp
    <2>2. k \in Nat /\ k >= 2
      OBVIOUS
    <2> QED BY <1>2, <2>1, <2>2, ClosedHolds
  <1> QED BY <1>1, <1>2

\* The least node that waits is where no other order can do better.
LEMMA LeastGrows ==
    ASSUME LinksOK, PeelInv, Sorts(ordered, seen), LeastSoFar, work # {},
           Peel(First), ordered' = Append(ordered, First), links' = links
    PROVE  LeastSoFar' /\ First \in work
  <1> DEFINE m == Len(ordered)
  <1>1. work \subseteq Nodes /\ Nodes \subseteq Nat /\ seen \subseteq Nodes
    BY NodesFinite DEF PeelInv
  <1>2. First \in work /\ \A n \in work : First <= n
    BY <1>1, MinIs DEF First
  <1>3. First \in Nodes \ seen /\ First \in Nat
    BY <1>1, <1>2 DEF PeelInv
  <1>4. m \in Nat /\ ordered \in Seq(seen) /\ \A i \in 1..m : ordered[i] \in seen
    BY DEF Sorts
  <1>5. Len(ordered') = m + 1 /\ ordered'[m + 1] = First /\ \A i \in 1..m : ordered'[i] = ordered[i]
    BY <1>4
  <1>6. Orders' = Orders
    BY DEF Orders
  <1>7. ASSUME NEW o \in Orders
        PROVE  \/ \A i \in 1..(m + 1) : o[i] = ordered'[i]
               \/ \E i \in 1..(m + 1) : ordered'[i] < o[i] /\ \A j \in 1..(i - 1) : ordered'[j] = o[j]
    <2>1. CASE \E i \in 1..m : ordered[i] < o[i] /\ \A j \in 1..(i - 1) : ordered[j] = o[j]
      <3>1. PICK i \in 1..m : ordered[i] < o[i] /\ \A j \in 1..(i - 1) : ordered[j] = o[j]
        BY <2>1
      <3>2. i \in 1..(m + 1) /\ \A j \in 1..(i - 1) : j \in 1..m
        BY <1>4
      <3>3. ordered'[i] < o[i] /\ \A j \in 1..(i - 1) : ordered'[j] = o[j]
        BY <1>5, <3>1, <3>2
      <3> QED BY <3>2, <3>3
    <2>2. CASE \A i \in 1..m : o[i] = ordered[i]
      <3>1. o \in [Nodes -> Nodes] /\ (\A n \in Nodes : \E i \in Nodes : o[i] = n)
               /\ (\A i, j \in Nodes : links[<<o[i], o[j]>>] > 0 => i < j)
               /\ (\A i, j \in Nodes : o[i] = o[j] => i = j)
        BY OrdersAreOnto DEF Orders, Injection, IsInjective
      <3>2. m + 1 \in Nodes /\ \A i \in 1..m : i \in Nodes
        <4>1. PICK i \in Nodes : o[i] = First
          BY <1>3, <3>1
        <4>2. i \notin 1..m
          BY <1>3, <1>4, <2>2, <4>1
        <4> QED BY <1>4, <4>1, <4>2, OrderAssumption DEF Nodes
      <3>3. o[m + 1] \in Nodes \ seen
        <4>1. ASSUME o[m + 1] \in seen PROVE FALSE
          <5>1. PICK i \in 1..m : ordered[i] = o[m + 1]
            BY <4>1 DEF Sorts
          <5>2. i = m + 1
            BY <2>2, <3>1, <3>2, <5>1
          <5> QED BY <1>4, <5>2
        <4> QED BY <3>1, <3>2, <4>1
      <3>4. Parents(o[m + 1]) \subseteq seen
        <4>1. SUFFICES ASSUME NEW p \in Parents(o[m + 1]) PROVE p \in seen
          OBVIOUS
        <4>2. p \in Nodes /\ links[<<p, o[m + 1]>>] > 0
          BY DEF Parents
        <4>3. PICK i \in Nodes : o[i] = p
          BY <3>1, <4>2
        <4>4. i < m + 1
          BY <3>1, <3>2, <4>2, <4>3
        <4>5. i \in 1..m
          BY <1>4, <4>3, <4>4 DEF Nodes
        <4> QED BY <1>4, <2>2, <4>3, <4>5
      <3>5. o[m + 1] \in work /\ o[m + 1] \in Nat
        BY <1>1, <3>3, <3>4 DEF PeelInv
      <3>6. First <= o[m + 1]
        BY <1>2, <3>5
      <3>7. CASE First = o[m + 1]
        <4>1. \A i \in 1..(m + 1) : i = m + 1 \/ i \in 1..m
          BY <1>4
        <4> QED BY <1>5, <2>2, <3>7, <4>1
      <3>8. CASE First # o[m + 1]
        <4>1. m + 1 \in 1..(m + 1) /\ (m + 1) - 1 = m
          BY <1>4
        <4>2. ordered'[m + 1] < o[m + 1]
          BY <1>3, <1>5, <3>5, <3>6, <3>8
        <4>3. \A j \in 1..((m + 1) - 1) : ordered'[j] = o[j]
          BY <1>5, <2>2, <4>1
        <4> QED BY <4>1, <4>2, <4>3
      <3> QED BY <3>7, <3>8
    <2> QED BY <2>1, <2>2 DEF LeastSoFar
  <1> HIDE DEF m
  <1> QED BY <1>2, <1>5, <1>6, <1>7 DEF LeastSoFar

LEMMA PlannerBegins == PlannerInit => PlannerInv
  <1> SUFFICES ASSUME PlannerInit PROVE PlannerInv
    OBVIOUS
  <1>1. links \in [Nodes \X Nodes -> Nat]
    <2>1. PICK first \in SUBSET Pairs, second \in SUBSET Parallel :
             links = [e \in Nodes \X Nodes |-> Count(e, first) + Count(e, second)]
      BY DEF PlannerInit
    <2>2. \A e, s : Count(e, s) \in Nat
      BY DEF Count
    <2> QED BY <2>1, <2>2
  <1> QED BY <1>1 DEF PlannerInit, PlannerInv, AcceptsExactlyDags, PlanIsLeastOrder

LEMMA PlannerStep == PlannerInv /\ [PlannerNext]_plannerVars => PlannerInv'
  <1> SUFFICES ASSUME PlannerInv, [PlannerNext]_plannerVars PROVE PlannerInv'
    OBVIOUS
  <1>1. LinksOK
    BY DEF PlannerInv, LinksOK
  <1>2. CASE UNCHANGED plannerVars
    <2> USE <1>2 DEF plannerVars
    <2>1. Orders' = Orders /\ Depth' = Depth
      BY DEF Orders, Depth, Paths
    <2>2. PeelInv' <=> PeelInv
      BY DEF PeelInv, Left, Parents, ClosedUp
    <2>3. DepthInv' <=> DepthInv
      BY DEF DepthInv, Paths
    <2>4. WalkInv' <=> WalkInv
      BY DEF WalkInv, Leads, Paths, Parents
    <2>5. LeastSoFar' <=> LeastSoFar
      BY <2>1 DEF LeastSoFar
    <2>6. \A q : Sorts(q, seen)' <=> Sorts(q, seen)
      BY DEF Sorts
    <2>7. Sorts(ordered, seen)' <=> Sorts(ordered, seen)
      BY DEF Sorts
    <2>8. AcceptsExactlyDags' /\ PlanIsLeastOrder'
      BY <2>1 DEF PlannerInv, AcceptsExactlyDags, PlanIsLeastOrder, Precedes
    <2> QED BY <2>1, <2>2, <2>3, <2>4, <2>5, <2>6, <2>7, <2>8 DEF PlannerInv
  <1>3. CASE PlannerNext
    <2>1. links' = links
      BY <1>3 DEF PlannerNext, BuildGraph, Validate, StartOrder, TakeFirst, EndOrder, EndWalk, Visit,
                  AncestorsOf, Walk
    <2>2. Orders' = Orders
      BY <2>1 DEF Orders
    <2>4. Depth' = Depth
      BY <2>1 DEF Depth, Paths
    <2>5. \A n : Parents(n)' = Parents(n)
      BY <2>1 DEF Parents
    <2>6. LinksOK' /\ links' \in [Nodes \X Nodes -> Nat]
      BY <1>1, <2>1 DEF LinksOK
    <2>10. CASE BuildGraph
      <3>1. CASE \E n \in Nodes : links[<<n, n>>] > 0
        <4>1. PICK n \in Nodes : links[<<n, n>>] > 0
          BY <3>1
        <4>2. ASSUME NEW o \in Orders PROVE FALSE
          <5>1. PICK i \in Nodes : o[i] = n
            BY OrdersAreOnto
          <5>2. i < i
            BY <4>1, <5>1 DEF Orders
          <5> QED BY <5>1, <5>2, NodesFinite
        <4>3. phase' = "rejected"
          BY <2>10, <3>1 DEF BuildGraph
        <4> QED BY <2>2, <2>6, <4>2, <4>3 DEF PlannerInv, AcceptsExactlyDags, PlanIsLeastOrder
      <3>2. CASE N > MaxNodes
        <4>1. phase' = "rejected"
          BY <2>10, <3>2 DEF BuildGraph
        <4> QED BY <2>2, <2>6, <3>2, <4>1 DEF PlannerInv, AcceptsExactlyDags, PlanIsLeastOrder
      <3>3. CASE ~ (N > MaxNodes) /\ ~ \E n \in Nodes : links[<<n, n>>] > 0
        <4>0. N <= MaxNodes
          BY <3>3, OrderAssumption
        <4>a. phase' = "validating" /\ StartPeeling
          BY <2>10, <3>3, Zenon DEF BuildGraph
        <4>1. /\ phase' = "validating" /\ StartPeeling /\ depths' = [n \in Nodes |-> 1] /\ ordered' = <<>>
              /\ N <= MaxNodes
          BY <2>10, <4>0, <4>a DEF BuildGraph, PlannerInv
        <4>2. PeelInv' /\ seen' = {}
          BY <1>1, <2>1, <4>1, PeelingStarts
        <4>3. Sorts(<<>>, seen)'
          BY <4>2 DEF Sorts
        <4>4. DepthInv'
          <5>1. ASSUME NEW n \in Nodes PROVE (\E p \in Paths(depths[n]) : p[depths[n]] = n)'
            <6>1. depths'[n] = 1
              BY <4>1
            <6> DEFINE p == [i \in 1..1 |-> n]
            <6>2. p \in [1..1 -> Nodes] /\ p[1] = n /\ 1..(1 - 1) = {}
              OBVIOUS
            <6> HIDE DEF p
            <6>3. p \in Paths(1)
              BY <6>2 DEF Paths
            <6>4. Paths(depths[n])' = Paths(1)
              BY <2>1, <6>1 DEF Paths
            <6> QED BY <6>1, <6>2, <6>3, <6>4
          <5>2. depths' \in [Nodes -> Nat \ {0}]
            BY <4>1
          <5> QED BY <4>2, <5>1, <5>2 DEF DepthInv
        <4> QED BY <2>6, <4>1, <4>2, <4>3, <4>4 DEF PlannerInv, AcceptsExactlyDags, PlanIsLeastOrder
      <3> QED BY <3>1, <3>2, <3>3
    <2>11. ASSUME NEW n \in Nodes, Visit(n) PROVE PlannerInv'
      <3>1. /\ phase = "validating" /\ phase' = "validating" /\ n \in work /\ Peel(n) /\ depths' = Deepen(n)
            /\ ordered' = <<>> /\ N <= MaxNodes
        BY <2>11 DEF Visit, PlannerInv
      <3>2. PeelInv /\ DepthInv /\ \E q : Sorts(q, seen)
        BY <3>1 DEF PlannerInv
      <3>3. PeelInv' /\ n \in Nodes \ seen /\ Parents(n) \subseteq seen /\ seen' = seen \cup {n}
        BY <1>1, <2>1, <3>1, <3>2, PeelingGoesOn
      <3>4. DepthInv'
        BY <1>1, <2>1, <3>1, <3>2, DepthsGrow
      <3>5. PICK q : Sorts(q, seen)
        BY <3>2
      <3>6. seen \subseteq Nodes /\ ClosedUp(seen)
        BY <3>2 DEF PeelInv
      <3>7. Sorts(Append(q, n), seen \cup {n})
        BY <3>3, <3>5, <3>6, SortGrows
      <3>8. PICK r : r = Append(q, n)
        OBVIOUS
      <3>9. Sorts(r, seen)'
        BY <2>1, <3>3, <3>7, <3>8 DEF Sorts
      <3> QED BY <2>6, <3>1, <3>3, <3>4, <3>9 DEF PlannerInv, AcceptsExactlyDags, PlanIsLeastOrder
    <2>12. CASE Validate
      <3>1. /\ phase = "validating" /\ work = {} /\ ordered' = <<>> /\ N <= MaxNodes
            /\ phase' = IF Accept THEN "valid" ELSE "rejected"
        BY <2>12 DEF Validate, PlannerInv
      <3>2. PeelInv /\ DepthInv /\ \E q : Sorts(q, seen)
        BY <3>1 DEF PlannerInv
      <3>3. CASE seen # Nodes
        <4>1. PICK m \in Nodes \ seen : TRUE
          BY <3>2, <3>3 DEF PeelInv
        <4>2. \A n \in Nodes \ seen : ~ (Parents(n) \subseteq seen)
          BY <3>1, <3>2 DEF PeelInv
        <4>3. Orders = {}
          BY <1>1, <4>1, <4>2, Stuck
        <4>4. phase' = "rejected"
          BY <3>1, <3>3 DEF Accept
        <4> QED BY <2>2, <2>6, <4>3, <4>4 DEF PlannerInv, AcceptsExactlyDags, PlanIsLeastOrder
      <3>4. CASE seen = Nodes
        <4>1. Orders # {}
          BY <3>2, <3>4, SortedOrders
        <4>2. Max({depths[n] : n \in seen}) = Depth /\ Depth \in Nat
          BY <1>1, <3>2, <3>4, <4>1, DepthIsDepth
        <4>3. Accept <=> Depth <= MaxDepth
          BY <3>4, <4>2 DEF Accept
        <4>4. CASE Depth <= MaxDepth
          <5>1. phase' = "valid"
            BY <3>1, <4>3, <4>4
          <5> QED BY <2>2, <2>4, <2>6, <3>1, <4>1, <4>4, <5>1
                  DEF PlannerInv, AcceptsExactlyDags, PlanIsLeastOrder
        <4>5. CASE ~ (Depth <= MaxDepth)
          <5>1. phase' = "rejected" /\ Depth > MaxDepth
            BY <3>1, <4>2, <4>3, <4>5, OrderAssumption
          <5> QED BY <2>4, <2>6, <5>1 DEF PlannerInv, AcceptsExactlyDags, PlanIsLeastOrder
        <4> QED BY <4>4, <4>5
      <3> QED BY <3>3, <3>4
    <2>13. CASE StartOrder
      <3>0. phase = "valid" /\ N <= MaxNodes
        BY <2>13 DEF StartOrder, PlannerInv, AcceptsExactlyDags
      <3>a. ~ (N > MaxSteps)
        BY <3>0, OrderAssumption
      <3>1. phase = "valid" /\ phase' = "ordering" /\ StartPeeling /\ ordered' = <<>> /\ Orders # {}
        BY <2>13, <3>a DEF StartOrder, PlannerInv
      <3>2. PeelInv' /\ seen' = {}
        BY <1>1, <2>1, <3>1, PeelingStarts
      <3>3. Sorts(ordered, seen)'
        BY <3>1, <3>2 DEF Sorts
      <3>4. LeastSoFar'
        BY <3>1 DEF LeastSoFar
      <3> QED BY <2>2, <2>6, <3>1, <3>2, <3>3, <3>4 DEF PlannerInv, AcceptsExactlyDags, PlanIsLeastOrder
    <2>14. CASE TakeFirst
      <3>1. /\ phase = "ordering" /\ phase' = "ordering" /\ work # {} /\ Peel(First)
            /\ ordered' = Append(ordered, First) /\ Orders # {}
        BY <2>14 DEF TakeFirst, PlannerInv
      <3>2. PeelInv /\ Sorts(ordered, seen) /\ LeastSoFar
        BY <3>1 DEF PlannerInv
      <3>3. LeastSoFar' /\ First \in work
        BY <1>1, <2>1, <3>1, <3>2, LeastGrows
      <3>4. PICK n : n = First
        OBVIOUS
      <3>5. PeelInv' /\ n \in Nodes \ seen /\ Parents(n) \subseteq seen /\ seen' = seen \cup {n}
        BY <1>1, <2>1, <3>1, <3>2, <3>3, <3>4, PeelingGoesOn
      <3>6. seen \subseteq Nodes /\ ClosedUp(seen)
        BY <3>2 DEF PeelInv
      <3>7. Sorts(Append(ordered, n), seen \cup {n})
        BY <3>2, <3>5, <3>6, SortGrows
      <3>8. Sorts(ordered, seen)'
        BY <2>1, <3>1, <3>4, <3>5, <3>7 DEF Sorts
      <3> QED BY <2>2, <2>6, <3>1, <3>3, <3>5, <3>8 DEF PlannerInv, AcceptsExactlyDags, PlanIsLeastOrder
    <2>15. CASE EndOrder
      <3>1. /\ phase = "ordering" /\ work = {} /\ ordered' = ordered /\ Orders # {}
            /\ phase' = IF Len(ordered) = N THEN "planned" ELSE "unordered"
        BY <2>15 DEF EndOrder, PlannerInv
      <3>2. PeelInv /\ Sorts(ordered, seen) /\ LeastSoFar
        BY <3>1 DEF PlannerInv
      <3>3. seen = Nodes
        <4>1. \A n \in Nodes \ seen : ~ (Parents(n) \subseteq seen)
          BY <3>1, <3>2 DEF PeelInv
        <4>2. \A m \in Nodes \ seen : Orders = {}
          BY <1>1, <4>1, Stuck
        <4> QED BY <3>1, <3>2, <4>2 DEF PeelInv
      <3>4. Len(ordered) = N /\ ordered \in Orders
        BY <3>2, <3>3, SortedOrders
      <3>5. \A o \in Orders : o = ordered \/ Precedes(ordered, o)
        <4> TAKE o \in Orders
        <4>1. 1..Len(ordered) = Nodes
          BY <3>4 DEF Nodes
        <4>2. CASE \A i \in Nodes : o[i] = ordered[i]
          <5>1. o \in [Nodes -> Nodes] /\ ordered \in [Nodes -> Nodes]
            BY <3>4, OrdersAreOnto
          <5> QED BY <4>2, <5>1
        <4>3. CASE \E i \in Nodes : ordered[i] < o[i] /\ \A j \in 1..(i - 1) : ordered[j] = o[j]
          BY <4>3 DEF Precedes
        <4> QED BY <3>2, <4>1, <4>2, <4>3 DEF LeastSoFar
      <3>6. phase' = "planned" /\ PlanIsLeastOrder'
        BY <2>2, <3>1, <3>4, <3>5 DEF PlanIsLeastOrder, Precedes
      <3> QED BY <2>2, <2>6, <3>1, <3>6 DEF PlannerInv, AcceptsExactlyDags
    <2>16. ASSUME NEW n \in Nodes, AncestorsOf(n) PROVE PlannerInv'
      <3>1. /\ phase' = "walking" /\ about' = n /\ work' = Parents(n) /\ seen' = {} /\ Orders # {}
        BY <2>16 DEF AncestorsOf, PlannerInv
      <3>2. Parents(n) \subseteq Nodes /\ \A p \in Parents(n) : Leads(p, n)
        BY ParentLeads
      <3>3. \A p : Leads(p, about)' <=> Leads(p, n)
        BY <2>1, <3>1 DEF Leads, Paths
      <3>4. Parents(about)' = Parents(n)
        BY <2>1, <3>1 DEF Parents
      <3>5. WalkInv'
        BY <3>1, <3>2, <3>3, <3>4 DEF WalkInv
      <3> QED BY <2>2, <2>6, <3>1, <3>5 DEF PlannerInv, AcceptsExactlyDags, PlanIsLeastOrder
    <2>17. ASSUME NEW n \in Nodes, Walk(n) PROVE PlannerInv'
      <3>1. /\ phase = "walking" /\ phase' = "walking" /\ about' = about /\ n \in work
            /\ seen' = seen \cup {n} /\ work' = (work \cup Parents(n)) \ (seen \cup {n}) /\ Orders # {}
        BY <2>17 DEF Walk, PlannerInv
      <3>2. WalkInv
        BY <3>1 DEF PlannerInv
      <3>3. Leads(n, about) /\ about \in Nodes
        BY <3>1, <3>2 DEF WalkInv
      <3>4. \A p \in Parents(n) : p \in Nodes /\ Leads(p, about)
        BY <3>3, ParentLeads
      <3>5. \A p : Leads(p, about)' <=> Leads(p, about)
        BY <2>1, <3>1 DEF Leads, Paths
      <3>6. Parents(about)' = Parents(about)
        BY <2>1, <3>1 DEF Parents
      <3>7. seen' \cup work' = seen \cup work \cup Parents(n)
        BY <3>1
      <3>8. seen' \subseteq Nodes /\ work' \subseteq Nodes /\ Parents(about) \subseteq seen' \cup work'
        BY <3>1, <3>2, <3>4, <3>7 DEF WalkInv
      <3>9. \A x \in seen' : Parents(x) \subseteq seen' \cup work'
        BY <3>1, <3>2, <3>7 DEF WalkInv
      <3>10. \A x \in seen' \cup work' : Leads(x, about)
        BY <3>2, <3>4, <3>7 DEF WalkInv
      <3>11. \A x \in seen' : Parents(x)' \subseteq seen' \cup work'
        BY <2>5, <3>9
      <3>12. WalkInv'
        BY <3>1, <3>3, <3>5, <3>6, <3>8, <3>10, <3>11 DEF WalkInv
      <3> QED BY <2>2, <2>6, <3>1, <3>12 DEF PlannerInv, AcceptsExactlyDags, PlanIsLeastOrder
    <2>18. CASE EndWalk
      <3>1. /\ phase = "walking" /\ phase' = "done" /\ work = {} /\ Orders # {}
            /\ UNCHANGED <<links, work, seen, about>>
        BY <2>18 DEF EndWalk, PlannerInv
      <3>2. WalkInv
        BY <3>1 DEF PlannerInv
      <3>3. WalkInv'
        BY <3>1, <3>2 DEF WalkInv, Leads, Paths, Parents
      <3> QED BY <2>2, <2>6, <3>1, <3>3 DEF PlannerInv, AcceptsExactlyDags, PlanIsLeastOrder
    <2> QED BY <1>3, <2>10, <2>11, <2>12, <2>13, <2>14, <2>15, <2>16, <2>17, <2>18 DEF PlannerNext
  <1> QED BY <1>2, <1>3

LEMMA PlannerHolds == PlannerSpec => []PlannerInv
  BY PlannerBegins, PlannerStep, PTL DEF PlannerSpec

\* The validator of a causal graph accepts exactly the acyclic graphs within its limits on nodes and
\* depth, whatever those are, the order of its queue and the number of parallel links
\* (causal/graph.py, _nodes and _validate_dag).
THEOREM AcceptsDags == PlannerSpec => []AcceptsExactlyDags
  <1>1. PlannerInv => AcceptsExactlyDags
    BY DEF PlannerInv
  <1> QED BY <1>1, PlannerHolds, PTL

\* An accepted graph always has a plan, since a saga may have as many steps as a graph has nodes, and
\* the plan is the least topological order (saga/order.py, topo_manifest_hashes).
THEOREM PlansAreLeast == PlannerSpec => []PlanIsLeastOrder
  <1>1. PlannerInv => PlanIsLeastOrder
    BY DEF PlannerInv
  <1> QED BY <1>1, PlannerHolds, PTL

\* In an accepted graph, ancestors_of answers exactly the nodes from which a path leads to
\* the node it was asked about (causal/graph.py, ancestors_of).
THEOREM AncestorsAreFound == PlannerSpec => []AncestorsAreTransitive
  <1>1. PlannerInv => AncestorsAreTransitive
    <2> SUFFICES ASSUME PlannerInv, phase = "done" PROVE AncestorsAreTransitive
      BY DEF AncestorsAreTransitive
    <2>1. LinksOK /\ WalkInv /\ work = {} /\ Orders # {}
      BY DEF PlannerInv, LinksOK
    <2> QED BY <2>1, WalkFindsAncestors DEF AncestorsAreTransitive
  <1> QED BY <1>1, PlannerHolds, PTL
=============================================================================
