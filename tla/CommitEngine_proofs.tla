------------------------ MODULE CommitEngine_proofs ------------------------
(***************************************************************************)
(* Proofs about CommitEngine, for every number of processes, threads,      *)
(* manifests, grants and keys, with or without failing stores, crashes and *)
(* the optional stores.  Each section strengthens a property to an         *)
(* invariant of [Next]_vars; the first, on the types and the shape of      *)
(* calls, serves them all.                                                 *)
(***************************************************************************)
EXTENDS CommitEngine, Sums_proofs

(***************************************************************************)
(* The shape of a call: which of its fields are set at which step.         *)
(***************************************************************************)
GrantSteps == {"budget", "reserve", "outbox", "lookup", "preconditions", "adapter",
               "settle_budget", "confirm", "finalize", "release_grant",
               "release_budget", "abandon", "revoke_check"}

HasGrant(w) == gr[w] \in Grants /\ man[w] = ManifestOf[gr[w]]

ShapeOf(w) ==
    /\ pc[w] # "idle" => man[w] \in Manifests
    /\ pc[w] \in GrantSteps => HasGrant(w)
    /\ pc[w] \in {"move", "persist"} =>
          /\ tgt[w] \in LifecycleState
          /\ tgt[w] \in {"authorized", "committing"} => HasGrant(w)
    /\ pc[w] = "persist" => IsLegalTransition(from[w], tgt[w])
    /\ fault[w] = "failed" => \/ pc[w] \in {"release_grant", "release_budget", "abandon"}
                              \/ pc[w] \in {"move", "persist"} /\ tgt[w] = "failed"

CallShape == \A w \in Workers : ShapeOf(w)

Shaped == TypeOK /\ CallShape

\* The steps, faults, states, statuses and answers the actions name.
LEMMA Members ==
    /\ {"idle", "move", "persist", "budget", "reserve", "outbox", "lookup",
        "preconditions", "adapter", "settle_budget", "confirm", "finalize",
        "release_grant", "release_budget", "abandon", "revoke_check", "probe",
        "backfill", "recover_get", "recover_confirm", "recover_state"} \subseteq Pc
    /\ {"none", "replay", "exhausted", "denied", "stale", "error", "failed"} \subseteq Fault
    /\ {"proposed", "prepared", "sealed", "authorized", "committing", "committed", "verified",
        "failed", "recovered_committed", "revoked"} \subseteq LifecycleState
    /\ {"pending", "confirmed", "abandoned"} \subseteq OutboxStatus
    /\ {"settled", "failed"} \subseteq WorldState
    /\ {"manifest", "sealed", "result"} \subseteq Held
  BY DEF Pc, Fault, LifecycleState, OutboxStatus, WorldState, Held

LEMMA LegalStates ==
    ASSUME NEW s, NEW t, IsLegalTransition(s, t)
    PROVE  s \in LifecycleState /\ t \in LifecycleState
  BY DEF IsLegalTransition, TRANSITIONS, LifecycleState

LEMMA RecordType ==
    ASSUME TypeOK, NEW e \in Engines, NEW m \in Manifests
    PROVE  GetRecord(e, m) \in LifecycleState
  BY DEF GetRecord, TypeOK, GlobalTypes, LifecycleState, Absent

LEMMA MemType ==
    ASSUME GlobalTypes, NEW e \in Engines, NEW m \in Manifests, NEW s \in LifecycleState
    PROVE  [mem EXCEPT ![e][m] = s] \in [Engines -> [Manifests -> LifecycleState \cup {Absent}]]
  BY DEF GlobalTypes

\* What a call works on, at every step after it has begun.
LEMMA CallData ==
    ASSUME Shaped, NEW w \in Workers, pc[w] # "idle"
    PROVE  /\ Eng(w) \in Engines
           /\ man[w] \in Manifests
           /\ Key(w) \in Keys
           /\ GetRecord(Eng(w), man[w]) \in LifecycleState
           /\ pc[w] \in GrantSteps => gr[w] \in Grants /\ Amount(w) \in Nat
  <1>1. ShapeOf(w)
    BY DEF Shaped, CallShape
  <1>2. Eng(w) \in Engines /\ man[w] \in Manifests /\ Key(w) \in Keys
    BY <1>1, ConstantsAssumption DEF ShapeOf, Eng, Key
  <1>3. GetRecord(Eng(w), man[w]) \in LifecycleState
    BY <1>2, RecordType DEF Shaped
  <1>4. pc[w] \in GrantSteps => gr[w] \in Grants /\ Amount(w) \in Nat
    BY <1>1, <1>2, ConstantsAssumption DEF ShapeOf, HasGrant, Amount
  <1> QED BY <1>2, <1>3, <1>4

(***************************************************************************)
(* The control operators keep the types of the fields of a call.           *)
(***************************************************************************)
LEMMA BeginTypes ==
    ASSUME LocalTypes, NEW w \in Workers, NEW p \in Pc, NEW m \in Manifests \cup {Absent},
           NEW g \in Grants \cup {Absent}, NEW t \in LifecycleState \cup {Absent},
           Begin(w, p, m, g, t)
    PROVE  LocalTypes'
  BY Members DEF LocalTypes, Begin

LEMMA ReturnTypes ==
    ASSUME LocalTypes, NEW w \in Workers, Return(w) PROVE LocalTypes'
  BY Members, BeginTypes DEF Return

LEMMA GotoTypes ==
    ASSUME LocalTypes, NEW w \in Workers, NEW p \in Pc, Goto(w, p) PROVE LocalTypes'
  BY DEF LocalTypes, Goto

LEMMA MoveToTypes ==
    ASSUME LocalTypes, NEW w \in Workers, NEW t \in LifecycleState, MoveTo(w, t)
    PROVE  LocalTypes'
  BY Members DEF LocalTypes, MoveTo

LEMMA UndoTypes ==
    ASSUME LocalTypes, NEW w \in Workers, NEW p \in Pc, NEW f \in Fault, Undo(w, p, f)
    PROVE  LocalTypes'
  BY DEF LocalTypes, Undo

LEMMA RaisedTypes ==
    ASSUME LocalTypes, NEW w \in Workers, Raised(w) PROVE LocalTypes'
  BY Members, ReturnTypes, UndoTypes DEF Raised

-----------------------------------------------------------------------------
(* Every step of a call keeps the types. *)

LEMMA StepTypes ==
    ASSUME Shaped, NEW w \in Workers, Step(w) \/ Failure(w) PROVE TypeOK'
  <1> USE ConstantsAssumption DEF At, ledger, slots, entries, stores, outside
  <1>a. GlobalTypes /\ LocalTypes /\ ShapeOf(w)
    BY DEF Shaped, CallShape, TypeOK
  <1>b. pc[w] # "idle"
    BY DEF Step, CommitStep, TransitionStep, RecoverStep, Failure, StoreSteps, ReserveBudget,
       ReserveGrant, RecordPending, Lookup, ValidatePreconditions, AdapterCommit, SettleBudget,
       ConfirmOutbox, Finalize, ReleaseGrant, ReleaseBudget, AbandonOutbox, Move, Persist,
       PersistRefused, RevokeCheck, Probe, Backfill, RecoverGet, RecoverConfirm, RecoverState,
       AuditRefused, StoreRaises
  <1>c. /\ Eng(w) \in Engines /\ man[w] \in Manifests /\ Key(w) \in Keys
        /\ GetRecord(Eng(w), man[w]) \in LifecycleState
        /\ pc[w] \in GrantSteps => gr[w] \in Grants /\ Amount(w) \in Nat
    BY <1>b, CallData
  <1>1. CASE ReserveBudget(w)
    <2>1. LocalTypes'
      BY <1>1, <1>a, <1>c, Members, GotoTypes, ReturnTypes DEF ReserveBudget
    <2>2. GlobalTypes'
      BY <1>1, <1>a, <1>c, Members DEF GlobalTypes, ReserveBudget, GrantSteps, ShapeOf, HasGrant, Amount
    <2> QED BY <2>1, <2>2 DEF TypeOK
  <1>2. CASE ReserveGrant(w)
    <2>1. LocalTypes'
      BY <1>2, <1>a, <1>c, Members, MoveToTypes, UndoTypes DEF ReserveGrant
    <2>2. GlobalTypes'
      BY <1>2, <1>a, <1>c, Members DEF GlobalTypes, ReserveGrant, GrantSteps, ShapeOf, HasGrant
    <2> QED BY <2>1, <2>2 DEF TypeOK
  <1>3. CASE RecordPending(w)
    <2>1. LocalTypes'
      BY <1>3, <1>a, <1>c, Members, GotoTypes, UndoTypes DEF RecordPending
    <2>2. GlobalTypes'
      <3>1. gr[w] \in Grants
        BY <1>3, <1>c DEF RecordPending, GrantSteps
      <3>2. \/ UNCHANGED <<outbox, bound>>
            \/ /\ outbox' = [outbox EXCEPT ![Key(w)] = "pending"]
               /\ bound' = [bound EXCEPT ![Key(w)] = gr[w]]
        BY <1>3 DEF RecordPending, Owner
      <3>3. outbox' \in [Keys -> OutboxStatus]
        BY <3>2, <1>a, <1>c, Members DEF GlobalTypes
      <3>4. bound' \in [Keys -> Grants \cup {Absent}]
        BY <3>1, <3>2, <1>a, <1>c DEF GlobalTypes
      <3> QED BY <3>3, <3>4, <1>3, <1>a DEF GlobalTypes, RecordPending
    <2> QED BY <2>1, <2>2 DEF TypeOK
  <1>4. CASE Lookup(w)
    <2>1. LocalTypes'
      BY <1>4, <1>a, <1>c, Members, GotoTypes, UndoTypes DEF Lookup
    <2>2. GlobalTypes'
      BY <1>4, <1>a, <1>c, Members DEF GlobalTypes, Lookup, GrantSteps, ShapeOf, HasGrant
    <2> QED BY <2>1, <2>2 DEF TypeOK
  <1>5. CASE ValidatePreconditions(w)
    <2>1. LocalTypes'
      BY <1>5, <1>a, <1>c, Members, GotoTypes, UndoTypes DEF ValidatePreconditions
    <2>2. GlobalTypes'
      BY <1>5, <1>a, <1>c, Members DEF GlobalTypes, ValidatePreconditions, GrantSteps, ShapeOf, HasGrant
    <2> QED BY <2>1, <2>2 DEF TypeOK
  <1>6. CASE AdapterCommit(w)
    <2>1. LocalTypes'
      BY <1>6, <1>a, <1>c, Members, GotoTypes, UndoTypes DEF AdapterCommit
    <2>2. GlobalTypes'
      <3>1. man[w] \in Manifests /\ Key(w) \in Keys
        BY <1>6, <1>c, Members DEF AdapterCommit, GrantSteps, ShapeOf, HasGrant
      <3>2. \/ world' = world
            \/ world' = [world EXCEPT ![Key(w)] = "settled"]
            \/ world' = [world EXCEPT ![Key(w)] = "failed"]
        BY <1>6 DEF AdapterCommit
      <3>3. world' \in [Keys -> WorldState]
        BY <3>1, <3>2, <1>a, Members DEF GlobalTypes
      <3>4. invoked' \in [Manifests -> Nat]
        BY <3>1, <1>6, <1>a DEF GlobalTypes, AdapterCommit
      <3> QED BY <3>3, <3>4, <1>6, <1>a DEF GlobalTypes, AdapterCommit
    <2> QED BY <2>1, <2>2 DEF TypeOK
  <1>7. CASE SettleBudget(w)
    <2>1. LocalTypes'
      BY <1>7, <1>a, <1>c, Members, GotoTypes DEF SettleBudget
    <2>2. GlobalTypes'
      BY <1>7, <1>a, <1>c, Members DEF GlobalTypes, SettleBudget, GrantSteps, ShapeOf, HasGrant, Charge
    <2> QED BY <2>1, <2>2 DEF TypeOK
  <1>8. CASE ConfirmOutbox(w)
    <2>1. LocalTypes'
      BY <1>8, <1>a, <1>c, Members, GotoTypes, ReturnTypes DEF ConfirmOutbox
    <2>2. GlobalTypes'
      BY <1>8, <1>a, <1>c, Members DEF GlobalTypes, ConfirmOutbox, GrantSteps, ShapeOf, HasGrant, Mark
    <2> QED BY <2>1, <2>2 DEF TypeOK
  <1>9. CASE Finalize(w)
    <2>1. LocalTypes'
      BY <1>9, <1>a, <1>c, Members, MoveToTypes, ReturnTypes DEF Finalize
    <2>2. GlobalTypes'
      BY <1>9, <1>a, <1>c, Members DEF GlobalTypes, Finalize, GrantSteps, ShapeOf, HasGrant
    <2> QED BY <2>1, <2>2 DEF TypeOK
  <1>10. CASE ReleaseGrant(w)
    <2>1. LocalTypes'
      BY <1>10, <1>a, <1>c, Members, GotoTypes DEF ReleaseGrant
    <2>2. GlobalTypes'
      BY <1>10, <1>a, <1>c, Members DEF GlobalTypes, ReleaseGrant, GrantSteps, ShapeOf, HasGrant
    <2> QED BY <2>1, <2>2 DEF TypeOK
  <1>11. CASE ReleaseBudget(w)
    <2>1. LocalTypes'
      BY <1>11, <1>a, <1>c, Members, GotoTypes, ReturnTypes, MoveToTypes DEF ReleaseBudget
    <2>2. GlobalTypes'
      BY <1>11, <1>a, <1>c, Members DEF GlobalTypes, ReleaseBudget, GrantSteps, ShapeOf, HasGrant
    <2> QED BY <2>1, <2>2 DEF TypeOK
  <1>12. CASE AbandonOutbox(w)
    <2>1. LocalTypes'
      BY <1>12, <1>a, <1>c, Members, MoveToTypes, ReturnTypes DEF AbandonOutbox
    <2>2. GlobalTypes'
      BY <1>12, <1>a, <1>c, Members DEF GlobalTypes, AbandonOutbox, GrantSteps, ShapeOf, HasGrant, Mark
    <2> QED BY <2>1, <2>2 DEF TypeOK
  <1>13. CASE Move(w)
    <2>1. LocalTypes'
      BY <1>13, <1>a, <1>c, Members, RaisedTypes DEF Move, LocalTypes
    <2>2. GlobalTypes'
      <3>1. tgt[w] \in LifecycleState
        BY <1>13, <1>a DEF Move, ShapeOf
      <3>2. mem' = [mem EXCEPT ![Eng(w)][man[w]] = tgt[w]]
            \/ mem' = [mem EXCEPT ![Eng(w)][man[w]] = GetRecord(Eng(w), man[w])]
        BY <1>13 DEF Move
      <3>3. PICK s \in LifecycleState : mem' = [mem EXCEPT ![Eng(w)][man[w]] = s]
        BY <3>1, <3>2, <1>c
      <3>4. mem' \in [Engines -> [Manifests -> LifecycleState \cup {Absent}]]
        BY <3>3, <1>a, <1>c, MemType
      <3> QED BY <3>4, <1>13, <1>a DEF GlobalTypes, Move
    <2> QED BY <2>1, <2>2 DEF TypeOK
  <1>14. CASE Persist(w)
    <2>1. LocalTypes'
      BY <1>14, <1>a, <1>c, Members, GotoTypes, ReturnTypes DEF Persist, Moved
    <2>2. GlobalTypes'
      <3>1. tgt[w] \in LifecycleState /\ (tgt[w] = "authorized" => gr[w] \in Grants)
        BY <1>14, <1>a DEF Persist, ShapeOf, HasGrant
      <3>2. stored' \in [Manifests -> LifecycleState \cup {Absent}]
        BY <3>1, <1>14, <1>a, <1>c DEF GlobalTypes, Persist, Advance
      <3>3. held' \in [Manifests -> Held]
        <4>1. \/ held' = held
              \/ /\ tgt[w] \in {"prepared", "sealed", "committed", "failed"}
                 /\ held' = [held EXCEPT ![man[w]] = Gives(tgt[w])]
          BY <1>14, <1>a DEF Persist, Moved, ShapeOf
        <4>2. tgt[w] \in {"prepared", "sealed", "committed", "failed"} => Gives(tgt[w]) \in Held
          BY Members DEF Gives
        <4> QED BY <4>1, <4>2, <1>a, <1>c DEF GlobalTypes
      <3>4. issued' \subseteq Grants
        BY <3>1, <1>14, <1>a DEF GlobalTypes, Persist, Moved
      <3> QED BY <3>2, <3>3, <3>4, <1>14, <1>a DEF GlobalTypes, Persist
    <2> QED BY <2>1, <2>2 DEF TypeOK
  <1>15. CASE PersistRefused(w)
    <2>1. LocalTypes'
      BY <1>15, <1>a, <1>c, Members, RaisedTypes DEF PersistRefused
    <2>2. GlobalTypes'
      <3>1. from[w] \in LifecycleState
        BY <1>15, <1>a, LegalStates DEF PersistRefused, ShapeOf
      <3>2. mem' = [mem EXCEPT ![Eng(w)][man[w]] = from[w]]
        BY <1>15 DEF PersistRefused
      <3>3. mem' \in [Engines -> [Manifests -> LifecycleState \cup {Absent}]]
        BY <3>1, <3>2, <1>a, <1>c, MemType
      <3> QED BY <3>3, <1>15, <1>a DEF GlobalTypes, PersistRefused
    <2> QED BY <2>1, <2>2 DEF TypeOK
  <1>16. CASE AuditRefused(w)
    <2>1. LocalTypes'
      BY <1>16, <1>a, <1>c, Members, RaisedTypes DEF AuditRefused
    <2>2. GlobalTypes'
      BY <1>16, <1>a, <1>c, Members DEF GlobalTypes, AuditRefused, GrantSteps, ShapeOf, HasGrant, Advance
    <2> QED BY <2>1, <2>2 DEF TypeOK
  <1>17. CASE RevokeCheck(w)
    <2>1. LocalTypes'
      BY <1>17, <1>a, <1>c, Members, MoveToTypes, ReturnTypes DEF RevokeCheck
    <2>2. GlobalTypes'
      BY <1>17, <1>a, <1>c, Members DEF GlobalTypes, RevokeCheck, GrantSteps, ShapeOf, HasGrant
    <2> QED BY <2>1, <2>2 DEF TypeOK
  <1>18. CASE Probe(w)
    <2>1. LocalTypes'
      BY <1>18, <1>a, <1>c, Members, GotoTypes, ReturnTypes DEF Probe
    <2>2. GlobalTypes'
      BY <1>18, <1>a, <1>c, Members DEF GlobalTypes, Probe, GrantSteps, ShapeOf, HasGrant
    <2> QED BY <2>1, <2>2 DEF TypeOK
  <1>19. CASE Backfill(w)
    <2>1. LocalTypes'
      BY <1>19, <1>a, <1>c, Members, GotoTypes DEF Backfill
    <2>2. GlobalTypes'
      BY <1>19, <1>a, <1>c, Members DEF GlobalTypes, Backfill, GrantSteps, ShapeOf, HasGrant
    <2> QED BY <2>1, <2>2 DEF TypeOK
  <1>20. CASE RecoverGet(w)
    <2>1. LocalTypes'
      BY <1>20, <1>a, <1>c, Members, GotoTypes DEF RecoverGet
    <2>2. GlobalTypes'
      BY <1>20, <1>a, <1>c, Members DEF GlobalTypes, RecoverGet, GrantSteps, ShapeOf, HasGrant
    <2> QED BY <2>1, <2>2 DEF TypeOK
  <1>21. CASE RecoverConfirm(w)
    <2>1. LocalTypes'
      BY <1>21, <1>a, <1>c, Members, GotoTypes, ReturnTypes DEF RecoverConfirm
    <2>2. GlobalTypes'
      BY <1>21, <1>a, <1>c, Members DEF GlobalTypes, RecoverConfirm, GrantSteps, ShapeOf, HasGrant, Mark
    <2> QED BY <2>1, <2>2 DEF TypeOK
  <1>22. CASE RecoverState(w)
    <2>1. LocalTypes'
      BY <1>22, <1>a, <1>c, Members, MoveToTypes, ReturnTypes DEF RecoverState
    <2>2. GlobalTypes'
      BY <1>22, <1>a, <1>c, Members DEF GlobalTypes, RecoverState, GrantSteps, ShapeOf, HasGrant
    <2> QED BY <2>1, <2>2 DEF TypeOK
  <1>23. CASE StoreRaises(w)
    <2>1. LocalTypes'
      BY <1>23, <1>a, <1>c, Members, RaisedTypes, UndoTypes, ReturnTypes DEF StoreRaises
    <2>2. GlobalTypes'
      BY <1>23, <1>a, <1>c, Members DEF GlobalTypes, StoreRaises, GrantSteps, ShapeOf, HasGrant
    <2> QED BY <2>1, <2>2 DEF TypeOK
  <1> QED BY <1>1, <1>2, <1>3, <1>4, <1>5, <1>6, <1>7, <1>8, <1>9, <1>10, <1>11, <1>12, <1>13, <1>14, <1>15, <1>16, <1>17, <1>18, <1>19, <1>20, <1>21, <1>22, <1>23
     DEF Step, CommitStep, TransitionStep, RecoverStep, Failure
-----------------------------------------------------------------------------
LEMMA BeginsTypes ==
    ASSUME Shaped, NEW w \in Workers, Begins(w) PROVE TypeOK'
  <1> USE ConstantsAssumption DEF ledger, slots, entries, stores, outside
  <1>a. GlobalTypes /\ LocalTypes
    BY DEF Shaped, TypeOK
  <1>1. LocalTypes'
    BY <1>a, Members, BeginTypes DEF Begins, Prepare, Seal, Verify, Recover, Authorize, Commit, Revoke
  <1>2. GlobalTypes'
    BY <1>a DEF Begins, Prepare, Seal, Verify, Recover, Authorize, Commit, Revoke, GlobalTypes
  <1> QED BY <1>1, <1>2 DEF TypeOK

LEMMA CrashTypes ==
    ASSUME Shaped, NEW e \in Engines, Crash(e) PROVE TypeOK'
  <1> USE ConstantsAssumption DEF ledger, slots, entries, stores, outside
  <1>a. GlobalTypes /\ LocalTypes
    BY DEF Shaped, TypeOK
  <1>1. LocalTypes'
    BY <1>a, Members DEF Crash, LocalTypes
  <1>2. GlobalTypes'
    BY <1>a DEF Crash, GlobalTypes
  <1> QED BY <1>1, <1>2 DEF TypeOK

LEMMA StepShape ==
    ASSUME Shaped, NEW w \in Workers, Step(w) \/ Failure(w) PROVE CallShape'
  <1> USE ConstantsAssumption DEF Shaped, CallShape, ShapeOf, HasGrant, TypeOK, LocalTypes, GrantSteps, At, Goto, Return, Begin, MoveTo, Undo, Raised
  <1>1. CASE ReserveBudget(w) BY <1>1 DEF ReserveBudget
  <1>2. CASE ReserveGrant(w) BY <1>2, Members DEF ReserveGrant
  <1>3. CASE RecordPending(w) BY <1>3 DEF RecordPending
  <1>4. CASE Lookup(w) BY <1>4 DEF Lookup
  <1>5. CASE ValidatePreconditions(w) BY <1>5 DEF ValidatePreconditions
  <1>6. CASE AdapterCommit(w) BY <1>6 DEF AdapterCommit
  <1>7. CASE SettleBudget(w) BY <1>7 DEF SettleBudget
  <1>8. CASE ConfirmOutbox(w) BY <1>8 DEF ConfirmOutbox
  <1>9. CASE Finalize(w) BY <1>9, Members DEF Finalize
  <1>10. CASE ReleaseGrant(w) BY <1>10 DEF ReleaseGrant
  <1>11. CASE ReleaseBudget(w) BY <1>11, Members DEF ReleaseBudget
  <1>12. CASE AbandonOutbox(w) BY <1>12, Members DEF AbandonOutbox
  <1>13. CASE Move(w) BY <1>13 DEF Move
  <1>14. CASE Persist(w) BY <1>14 DEF Persist, Moved
  <1>15. CASE PersistRefused(w) BY <1>15 DEF PersistRefused
  <1>16. CASE AuditRefused(w) BY <1>16 DEF AuditRefused
  <1>17. CASE RevokeCheck(w) BY <1>17, Members DEF RevokeCheck
  <1>18. CASE Probe(w) BY <1>18 DEF Probe
  <1>19. CASE Backfill(w) BY <1>19 DEF Backfill
  <1>20. CASE RecoverGet(w) BY <1>20 DEF RecoverGet
  <1>21. CASE RecoverConfirm(w) BY <1>21 DEF RecoverConfirm
  <1>22. CASE RecoverState(w) BY <1>22, Members DEF RecoverState
  <1>23. CASE StoreRaises(w) BY <1>23 DEF StoreRaises
  <1> QED BY <1>1, <1>2, <1>3, <1>4, <1>5, <1>6, <1>7, <1>8, <1>9, <1>10, <1>11, <1>12, <1>13, <1>14, <1>15, <1>16, <1>17, <1>18, <1>19, <1>20, <1>21, <1>22, <1>23
     DEF Step, CommitStep, TransitionStep, RecoverStep, Failure
LEMMA BeginsShape ==
    ASSUME Shaped, NEW w \in Workers, Begins(w) PROVE CallShape'
  BY ConstantsAssumption, Members
     DEF Shaped, CallShape, ShapeOf, HasGrant, TypeOK, LocalTypes, GrantSteps, At, Begin,
         Begins, Prepare, Seal, Verify, Recover, Authorize, Commit, Revoke

LEMMA CrashShape ==
    ASSUME Shaped, NEW e \in Engines, Crash(e) PROVE CallShape'
  BY ConstantsAssumption
     DEF Shaped, CallShape, ShapeOf, HasGrant, TypeOK, LocalTypes, GrantSteps, Crash

LEMMA StutterShaped == Shaped /\ UNCHANGED vars => Shaped'
  BY DEF Shaped, CallShape, ShapeOf, HasGrant, TypeOK, LocalTypes, GlobalTypes, vars

LEMMA ShapedStep == Shaped /\ [Next]_vars => Shaped'
  <1> SUFFICES ASSUME Shaped, [Next]_vars PROVE Shaped' OBVIOUS
  <1>1. CASE \E w \in Workers : Step(w) \/ Failure(w)
    BY <1>1, StepTypes, StepShape DEF Shaped
  <1>2. CASE \E w \in Workers : Begins(w)
    BY <1>2, BeginsTypes, BeginsShape DEF Shaped
  <1>3. CASE \E e \in Engines : Crash(e)
    BY <1>3, CrashTypes, CrashShape DEF Shaped
  <1>4. CASE UNCHANGED vars
    BY <1>4, StutterShaped
  <1> QED BY <1>1, <1>2, <1>3, <1>4 DEF Next

LEMMA ShapedInit == Init => Shaped
  BY ConstantsAssumption
     DEF Init, Shaped, CallShape, ShapeOf, HasGrant, GrantSteps, TypeOK, LocalTypes, GlobalTypes,
         Pc, Fault, LifecycleState, OutboxStatus, WorldState, Held

LEMMA AlwaysShaped == Spec => []Shaped
  BY ShapedInit, ShapedStep, PTL DEF Spec

\* Every variable of the engine, of the stores and of the calls keeps its type.
THEOREM TypeCorrect == Spec => []TypeOK
  <1>1. Shaped => TypeOK
    BY DEF Shaped
  <1> QED BY <1>1, AlwaysShaped, PTL

(***************************************************************************)
(* Grant slots: the uses of a grant and who holds it.                      *)
(***************************************************************************)
LEMMA SlotsStep ==
    ASSUME Shaped, NEW w \in Workers, Step(w) \/ Failure(w), UsesWithinLimit
    PROVE  UsesWithinLimit'
  <1> USE ConstantsAssumption DEF At, ledger, slots, entries, stores, outside
  <1>1. CASE ReserveGrant(w)
    BY <1>1 DEF ReserveGrant, CanReserve, UsesWithinLimit, Shaped, TypeOK, GlobalTypes
  <1>2. CASE Finalize(w)
    BY <1>2 DEF Finalize, UsesWithinLimit, Shaped, TypeOK, GlobalTypes
  <1>3. CASE ReleaseGrant(w)
    BY <1>3 DEF ReleaseGrant, UsesWithinLimit, Shaped, TypeOK, GlobalTypes
  <1>4. CASE ~ReserveGrant(w) /\ ~Finalize(w) /\ ~ReleaseGrant(w)
    <2>1. uses' = uses /\ inflight' = inflight
      BY <1>4 DEF Step, CommitStep, TransitionStep, RecoverStep, Failure, ReserveBudget,
         RecordPending, Lookup, ValidatePreconditions, AdapterCommit, SettleBudget, ConfirmOutbox,
         ReleaseBudget, AbandonOutbox, Move, Persist, PersistRefused, RevokeCheck, Probe, Backfill,
         RecoverGet, RecoverConfirm, RecoverState, AuditRefused, StoreRaises
    <2> QED BY <2>1 DEF UsesWithinLimit
  <1> QED BY <1>1, <1>2, <1>3, <1>4

\* grant_store.reserve and commit, under every interleaving: a grant is never used
\* more often than max_uses.
THEOREM GrantsAreBounded == Spec => []UsesWithinLimit
  <1>1. Init => UsesWithinLimit
    BY ConstantsAssumption DEF Init, UsesWithinLimit
  <1>2. Shaped /\ UsesWithinLimit /\ [Next]_vars => UsesWithinLimit'
    <2> SUFFICES ASSUME Shaped, UsesWithinLimit, [Next]_vars PROVE UsesWithinLimit'
      OBVIOUS
    <2>1. CASE \E w \in Workers : Step(w) \/ Failure(w)
      BY <2>1, SlotsStep
    <2>2. CASE \/ \E w \in Workers : Begins(w)
               \/ \E e \in Engines : Crash(e)
               \/ UNCHANGED vars
      BY <2>2 DEF UsesWithinLimit, Begins, Prepare, Seal, Verify, Recover, Authorize, Commit,
         Revoke, Crash, vars, stores, slots
    <2> QED BY <2>1, <2>2 DEF Next
  <1> QED BY <1>1, <1>2, AlwaysShaped, PTL DEF Spec

LEMMA HoldStep ==
    ASSUME Shaped, ReservationExclusive, NEW w \in Workers, Step(w) \/ Failure(w)
    PROVE  ReservationExclusive'
  <1> USE ConstantsAssumption DEF Shaped, CallShape, ShapeOf, HasGrant, TypeOK, LocalTypes,
      GrantSteps, ReservationExclusive, Holding, At, Goto, Return, Begin, MoveTo, Undo, Raised,
      ledger, slots, entries, stores, outside
  <1>1. CASE ReserveBudget(w) BY <1>1 DEF ReserveBudget
  <1>2. CASE ReserveGrant(w) BY <1>2 DEF ReserveGrant, CanReserve
  <1>3. CASE RecordPending(w) BY <1>3 DEF RecordPending
  <1>4. CASE Lookup(w) BY <1>4 DEF Lookup
  <1>5. CASE ValidatePreconditions(w) BY <1>5 DEF ValidatePreconditions
  <1>6. CASE AdapterCommit(w) BY <1>6 DEF AdapterCommit
  <1>7. CASE SettleBudget(w) BY <1>7 DEF SettleBudget
  <1>8. CASE ConfirmOutbox(w) BY <1>8 DEF ConfirmOutbox
  <1>9. CASE Finalize(w) BY <1>9 DEF Finalize
  <1>10. CASE ReleaseGrant(w) BY <1>10 DEF ReleaseGrant
  <1>11. CASE ReleaseBudget(w) BY <1>11 DEF ReleaseBudget
  <1>12. CASE AbandonOutbox(w) BY <1>12 DEF AbandonOutbox
  <1>13. CASE Move(w) BY <1>13 DEF Move
  <1>14. CASE Persist(w) BY <1>14 DEF Persist, Moved
  <1>15. CASE PersistRefused(w) BY <1>15 DEF PersistRefused
  <1>16. CASE RevokeCheck(w) BY <1>16 DEF RevokeCheck
  <1>17. CASE Probe(w) BY <1>17 DEF Probe
  <1>18. CASE Backfill(w) BY <1>18 DEF Backfill
  <1>19. CASE RecoverGet(w) BY <1>19 DEF RecoverGet
  <1>20. CASE RecoverConfirm(w) BY <1>20 DEF RecoverConfirm
  <1>21. CASE RecoverState(w) BY <1>21 DEF RecoverState
  <1>22. CASE AuditRefused(w) BY <1>22 DEF AuditRefused
  <1>23. CASE StoreRaises(w) BY <1>23 DEF StoreRaises
  <1> QED BY <1>1, <1>2, <1>3, <1>4, <1>5, <1>6, <1>7, <1>8, <1>9, <1>10, <1>11, <1>12,
      <1>13, <1>14, <1>15, <1>16, <1>17, <1>18, <1>19, <1>20, <1>21, <1>22, <1>23 DEF Step,
      CommitStep, TransitionStep, RecoverStep, Failure

LEMMA HoldNext == Shaped /\ ReservationExclusive /\ [Next]_vars => ReservationExclusive'
  <1> SUFFICES ASSUME Shaped, ReservationExclusive, [Next]_vars PROVE ReservationExclusive'
    OBVIOUS
  <1> USE ConstantsAssumption DEF Shaped, CallShape, ShapeOf, HasGrant, TypeOK, LocalTypes,
      GrantSteps, ReservationExclusive, Holding, At, Goto, Return, Begin, MoveTo, Undo, Raised,
      ledger, slots, entries, stores, outside
  <1>1. CASE \E w \in Workers : Step(w) \/ Failure(w)
    BY <1>1, HoldStep
  <1>2. CASE \E w \in Workers : Begins(w)
    BY <1>2 DEF Begins, Prepare, Seal, Verify, Recover, Authorize, Commit, Revoke
  <1>3. CASE \E e \in Engines : Crash(e)
    BY <1>3 DEF Crash
  <1>4. CASE UNCHANGED vars
    BY <1>4 DEF vars
  <1> QED BY <1>1, <1>2, <1>3, <1>4 DEF Next

\* The reservation that commit() takes before its first effect is exclusive: two calls never
\* hold one grant, and nobody else's release or commit takes the slot of a call in flight.
THEOREM ReservationsAreExclusive == Spec => []ReservationExclusive
  <1>1. Init => ReservationExclusive
    BY DEF Init, ReservationExclusive, Holding
  <1> QED BY <1>1, HoldNext, AlwaysShaped, PTL DEF Spec

(***************************************************************************)
(* The authority budget.                                                   *)
(***************************************************************************)
LEMMA BudgetStep ==
    ASSUME Shaped, BudgetNotOverdrawn, NEW w \in Workers, Step(w) \/ Failure(w)
    PROVE  BudgetNotOverdrawn'
  <1> USE ConstantsAssumption DEF Shaped, CallShape, ShapeOf, HasGrant, TypeOK, LocalTypes,
      GrantSteps, GlobalTypes, BudgetNotOverdrawn, Amount, Eng, Return, Begin, At, ledger,
      slots, entries, stores, outside
  <1>1. CASE ReserveBudget(w) BY <1>1 DEF ReserveBudget, Affords
  <1>2. CASE ReserveGrant(w) BY <1>2 DEF ReserveGrant
  <1>3. CASE RecordPending(w) BY <1>3 DEF RecordPending
  <1>4. CASE Lookup(w) BY <1>4 DEF Lookup
  <1>5. CASE ValidatePreconditions(w) BY <1>5 DEF ValidatePreconditions
  <1>6. CASE AdapterCommit(w) BY <1>6 DEF AdapterCommit
  <1>7. CASE SettleBudget(w) BY <1>7 DEF SettleBudget, Charge
  <1>8. CASE ConfirmOutbox(w) BY <1>8 DEF ConfirmOutbox
  <1>9. CASE Finalize(w) BY <1>9 DEF Finalize
  <1>10. CASE ReleaseGrant(w) BY <1>10 DEF ReleaseGrant
  <1>11. CASE ReleaseBudget(w) BY <1>11 DEF ReleaseBudget
  <1>12. CASE AbandonOutbox(w) BY <1>12 DEF AbandonOutbox
  <1>13. CASE Move(w) BY <1>13 DEF Move
  <1>14. CASE Persist(w) BY <1>14 DEF Persist
  <1>15. CASE PersistRefused(w) BY <1>15 DEF PersistRefused
  <1>16. CASE RevokeCheck(w) BY <1>16 DEF RevokeCheck
  <1>17. CASE Probe(w) BY <1>17 DEF Probe
  <1>18. CASE Backfill(w) BY <1>18 DEF Backfill
  <1>19. CASE RecoverGet(w) BY <1>19 DEF RecoverGet
  <1>20. CASE RecoverConfirm(w) BY <1>20 DEF RecoverConfirm
  <1>21. CASE RecoverState(w) BY <1>21 DEF RecoverState
  <1>22. CASE AuditRefused(w) BY <1>22 DEF AuditRefused
  <1>23. CASE StoreRaises(w) BY <1>23 DEF StoreRaises
  <1> QED BY <1>1, <1>2, <1>3, <1>4, <1>5, <1>6, <1>7, <1>8, <1>9, <1>10, <1>11, <1>12,
      <1>13, <1>14, <1>15, <1>16, <1>17, <1>18, <1>19, <1>20, <1>21, <1>22, <1>23 DEF Step,
      CommitStep, TransitionStep, RecoverStep, Failure

LEMMA BudgetNext == Shaped /\ BudgetNotOverdrawn /\ [Next]_vars => BudgetNotOverdrawn'
  <1> SUFFICES ASSUME Shaped, BudgetNotOverdrawn, [Next]_vars PROVE BudgetNotOverdrawn'
    OBVIOUS
  <1> USE ConstantsAssumption DEF Shaped, CallShape, ShapeOf, HasGrant, TypeOK, LocalTypes,
      GrantSteps, GlobalTypes, BudgetNotOverdrawn, Amount, Eng, Return, Begin, At, ledger,
      slots, entries, stores, outside
  <1>1. CASE \E w \in Workers : Step(w) \/ Failure(w)
    BY <1>1, BudgetStep
  <1>2. CASE \E w \in Workers : Begins(w)
    BY <1>2 DEF Begins, Prepare, Seal, Verify, Recover, Authorize, Commit, Revoke
  <1>3. CASE \E e \in Engines : Crash(e)
    BY <1>3 DEF Crash
  <1>4. CASE UNCHANGED vars
    BY <1>4 DEF vars
  <1> QED BY <1>1, <1>2, <1>3, <1>4 DEF Next

\* budget_ledger.reserve, release and commit, called by concurrent commits that fail, replay
\* and crash: consumed and reserved amounts together never exceed the limit.
THEOREM BudgetsAreKept == Spec => []BudgetNotOverdrawn
  <1>1. Init => BudgetNotOverdrawn
    BY ConstantsAssumption DEF Init, BudgetNotOverdrawn
  <1> QED BY <1>1, BudgetNext, AlwaysShaped, PTL DEF Spec

(***************************************************************************)
(* One execution per manifest.  A call passes the compare-and-set to       *)
(* COMMITTING only from a state in which nobody has executed or is about   *)
(* to execute the manifest, and no legal transition leads back out of the  *)
(* claimed states.                                                         *)
(***************************************************************************)
Executing(w) == pc[w] \in {"outbox", "lookup", "preconditions", "adapter"}

Claims ==
    /\ \A w \in Workers :
          Executing(w) => stored[man[w]] \in ClaimedStates /\ invoked[man[w]] = 0
    /\ \A v, w \in Workers :
          Executing(v) /\ Executing(w) /\ man[v] = man[w] => v = w
    /\ \A m \in Manifests :
          invoked[m] <= 1 /\ (invoked[m] > 0 => stored[m] \in ClaimedStates)

ClaimInv == HasLifecycleStore => Claims

\* The transition table leads out of no claimed state, and into COMMITTING only
\* from AUTHORIZED.
LEMMA ClaimedClosed ==
    ASSUME NEW s, NEW t, IsLegalTransition(s, t)
    PROVE  /\ s \in ClaimedStates => t \in ClaimedStates
           /\ t = "committing" => s \notin ClaimedStates /\ s # "proposed" /\ t \in ClaimedStates
           /\ Absent \notin ClaimedStates
           /\ "proposed" \notin ClaimedStates
  BY DEF IsLegalTransition, TRANSITIONS, ClaimedStates, Absent

\* A call comes to execute a manifest only through Persist.
NoneStarts == \A v \in Workers : Executing(v)' => Executing(v) /\ man'[v] = man[v]

LEMMA ExecutionStarts ==
    ASSUME Shaped, NEW w \in Workers, Step(w) \/ Failure(w), ~Persist(w)
    PROVE  NoneStarts
  <1> USE DEF NoneStarts, Executing, Shaped, TypeOK, LocalTypes, At, Goto, Return, Begin, MoveTo,
      Undo, Raised
  <1>1. CASE ReserveBudget(w) BY <1>1 DEF ReserveBudget
  <1>2. CASE ReserveGrant(w) BY <1>2 DEF ReserveGrant
  <1>3. CASE RecordPending(w) BY <1>3 DEF RecordPending
  <1>4. CASE Lookup(w) BY <1>4 DEF Lookup
  <1>5. CASE ValidatePreconditions(w) BY <1>5 DEF ValidatePreconditions
  <1>6. CASE AdapterCommit(w) BY <1>6 DEF AdapterCommit
  <1>7. CASE SettleBudget(w) BY <1>7 DEF SettleBudget
  <1>8. CASE ConfirmOutbox(w) BY <1>8 DEF ConfirmOutbox
  <1>9. CASE Finalize(w) BY <1>9 DEF Finalize
  <1>10. CASE ReleaseGrant(w) BY <1>10 DEF ReleaseGrant
  <1>11. CASE ReleaseBudget(w) BY <1>11 DEF ReleaseBudget
  <1>12. CASE AbandonOutbox(w) BY <1>12 DEF AbandonOutbox
  <1>13. CASE Move(w) BY <1>13 DEF Move
  <1>14. CASE PersistRefused(w) BY <1>14 DEF PersistRefused
  <1>15. CASE RevokeCheck(w) BY <1>15 DEF RevokeCheck
  <1>16. CASE RecoverStep(w)
    BY <1>16 DEF RecoverStep, Probe, Backfill, RecoverGet, RecoverConfirm, RecoverState
  <1>17. CASE AuditRefused(w) BY <1>17 DEF AuditRefused
  <1>18. CASE StoreRaises(w) BY <1>18 DEF StoreRaises
  <1> QED BY <1>1, <1>2, <1>3, <1>4, <1>5, <1>6, <1>7, <1>8, <1>9, <1>10, <1>11, <1>12, <1>13,
          <1>14, <1>15, <1>16, <1>17, <1>18
      DEF Step, CommitStep, TransitionStep, Failure

LEMMA ClaimFrame ==
    ASSUME Claims, NoneStarts, UNCHANGED <<stored, invoked>> PROVE Claims'
  BY DEF Claims, NoneStarts, Executing

LEMMA ClaimStep ==
    ASSUME HasLifecycleStore, Shaped, Claims, NEW w \in Workers, Step(w) \/ Failure(w)
    PROVE  Claims'
  <1> USE ConstantsAssumption DEF At, ledger, slots, entries, stores, outside
  <1>a. /\ stored \in [Manifests -> LifecycleState \cup {Absent}]
        /\ invoked \in [Manifests -> Nat] /\ LocalTypes /\ ShapeOf(w)
    BY DEF Shaped, CallShape, TypeOK, GlobalTypes
  <1>1. CASE AdapterCommit(w)
    <2>1. man[w] \in Manifests /\ Executing(w) /\ ~Executing(w)' /\ NoneStarts
      <3>1. NoneStarts
        BY <1>1, ExecutionStarts DEF AdapterCommit, Persist, Step, CommitStep
      <3> QED BY <3>1, <1>1, <1>a DEF AdapterCommit, Executing, ShapeOf, LocalTypes, Goto, Undo
    <2>2. invoked' = [invoked EXCEPT ![man[w]] = @ + 1] /\ stored' = stored
      BY <1>1 DEF AdapterCommit
    <2> QED BY <2>1, <2>2, <1>a DEF Claims, NoneStarts, Executing, LocalTypes
  <1>2. CASE Persist(w) \/ AuditRefused(w)
    <2> DEFINE m == man[w]
    <2>1. /\ m \in Manifests /\ IsLegalTransition(from[w], tgt[w])
          /\ IF stored[m] = Absent THEN from[w] = "proposed" ELSE stored[m] = from[w]
          /\ stored' = [stored EXCEPT ![m] = tgt[w]]
          /\ UNCHANGED <<invoked>>
      BY <1>2, <1>a DEF Persist, AuditRefused, Advance, CompareAndSet, ShapeOf
    <2>2. stored[m] \in ClaimedStates => stored'[m] \in ClaimedStates
      BY <2>1, <1>a, ClaimedClosed
    <2>3. CASE tgt[w] # "committing" \/ AuditRefused(w)
      <3>1. NoneStarts
        <4>1. CASE Persist(w)
          BY <4>1, <1>a, <2>3 DEF Persist, AuditRefused, Moved, Raised, Undo, Return, Begin,
             NoneStarts, Executing, LocalTypes
        <4> QED BY <4>1, ExecutionStarts
      <3> QED BY <3>1, <2>1, <2>2, <1>a DEF Claims, NoneStarts, Executing, LocalTypes
    <2>4. CASE tgt[w] = "committing" /\ Persist(w)
      <3>1. stored[m] \notin ClaimedStates /\ stored'[m] \in ClaimedStates
        BY <2>1, <2>4, <1>a, ClaimedClosed
      <3>2. /\ \A v \in Workers : v # w /\ Executing(v)' => Executing(v)
            /\ man' = man
        BY <2>4, <1>a DEF Persist, Moved, Goto, Executing, LocalTypes
      <3>3. invoked[m] = 0 /\ \A v \in Workers : Executing(v) => man[v] # m
        BY <3>1, <2>1, <1>a DEF Claims
      <3> QED BY <3>1, <3>2, <3>3, <2>1, <2>2, <1>a DEF Claims, LocalTypes
    <2> QED BY <1>2, <2>3, <2>4
  <1>3. CASE ~AdapterCommit(w) /\ ~Persist(w) /\ ~AuditRefused(w)
    <2>1. UNCHANGED <<stored, invoked>>
      BY <1>3 DEF Step, CommitStep, TransitionStep, RecoverStep, Failure, ReserveBudget,
         ReserveGrant, RecordPending, Lookup, ValidatePreconditions, SettleBudget, ConfirmOutbox,
         Finalize, ReleaseGrant, ReleaseBudget, AbandonOutbox, Move, PersistRefused, RevokeCheck,
         Probe, Backfill, RecoverGet, RecoverConfirm, RecoverState, StoreRaises
    <2> QED BY <2>1, <1>3, ExecutionStarts, ClaimFrame
  <1> QED BY <1>1, <1>2, <1>3

LEMMA ClaimNext == HasLifecycleStore /\ Shaped /\ Claims /\ [Next]_vars => Claims'
  <1> SUFFICES ASSUME HasLifecycleStore, Shaped, Claims, [Next]_vars PROVE Claims'
    OBVIOUS
  <1>1. CASE \E w \in Workers : Step(w) \/ Failure(w)
    BY <1>1, ClaimStep
  <1>2. CASE \E w \in Workers : Begins(w)
    <2>1. NoneStarts
      BY <1>2 DEF Begins, Prepare, Seal, Verify, Recover, Authorize, Commit, Revoke, Begin,
         NoneStarts, Executing, Shaped, TypeOK, LocalTypes
    <2>2. UNCHANGED <<stored, invoked>>
      BY <1>2 DEF Begins, Prepare, Seal, Verify, Recover, Authorize, Commit, Revoke, stores, outside
    <2> QED BY <2>1, <2>2, ClaimFrame
  <1>3. CASE \E e \in Engines : Crash(e)
    <2>1. NoneStarts /\ UNCHANGED <<stored, invoked>>
      BY <1>3 DEF Crash, NoneStarts, Executing, stores, outside
    <2> QED BY <2>1, ClaimFrame
  <1>4. CASE UNCHANGED vars
    <2>1. NoneStarts /\ UNCHANGED <<stored, invoked>>
      BY <1>4 DEF vars, NoneStarts, Executing
    <2> QED BY <2>1, ClaimFrame
  <1> QED BY <1>1, <1>2, <1>3, <1>4 DEF Next

LEMMA AlwaysClaimed == Spec => []ClaimInv
  <1>1. Init => ClaimInv
    BY ConstantsAssumption DEF Init, ClaimInv, Claims, Executing
  <1>2. Shaped /\ ClaimInv /\ [Next]_vars => ClaimInv'
    BY ClaimNext DEF ClaimInv
  <1> QED BY <1>1, <1>2, AlwaysShaped, PTL DEF Spec

\* With a durable lifecycle store, commit() hands a manifest to the adapter at most once,
\* for any number of processes, threads, grants, crashes and failing stores.
THEOREM InvokedAtMostOnce == Spec => []AtMostOneInvocation
  <1>1. ClaimInv => AtMostOneInvocation
    BY DEF ClaimInv, Claims, AtMostOneInvocation
  <1> QED BY <1>1, AlwaysClaimed, PTL

\* With a durable lifecycle store, a manifest that revoke() moved to REVOKED is one that
\* commit() has not executed and does not execute afterwards.
THEOREM RevokedIsNeverExecuted == Spec => []RevokedNeverExecuted
  <1>1. Shaped /\ ClaimInv => RevokedNeverExecuted
    BY DEF Shaped, TypeOK, GlobalTypes, ClaimInv, Claims, RevokedNeverExecuted, ClaimedStates
  <1> QED BY <1>1, AlwaysClaimed, AlwaysShaped, PTL

(***************************************************************************)
(* One grant per manifest: a grant leaves authorize() only after the       *)
(* compare-and-set from SEALED to AUTHORIZED, and no legal transition      *)
(* leads back to SEALED.                                                   *)
(***************************************************************************)
Ungranted == {Absent, "proposed", "prepared", "sealed"}

GrantedInv ==
    HasLifecycleStore =>
        /\ \A g \in issued : stored[ManifestOf[g]] \notin Ungranted
        /\ \A g, h \in issued : ManifestOf[g] = ManifestOf[h] => g = h

LEMMA UngrantedBefore ==
    ASSUME NEW s, NEW t, IsLegalTransition(s, t)
    PROVE  /\ t \in Ungranted => s \in Ungranted
           /\ t = "authorized" => s \in Ungranted
           /\ Absent \in Ungranted /\ "authorized" \notin Ungranted /\ "proposed" \in Ungranted
           /\ t # Absent
  BY DEF IsLegalTransition, TRANSITIONS, Ungranted, Absent

LEMMA GrantedStep ==
    ASSUME Shaped, GrantedInv, NEW w \in Workers, Step(w) \/ Failure(w)
    PROVE  GrantedInv'
  <1> USE ConstantsAssumption DEF Shaped, CallShape, ShapeOf, HasGrant, TypeOK, LocalTypes,
      GrantSteps, GlobalTypes, GrantedInv, Return, Begin, Goto, At, ledger, slots, entries,
      stores, outside
  <1>1. CASE ReserveBudget(w) BY <1>1 DEF ReserveBudget
  <1>2. CASE ReserveGrant(w) BY <1>2 DEF ReserveGrant
  <1>3. CASE RecordPending(w) BY <1>3 DEF RecordPending
  <1>4. CASE Lookup(w) BY <1>4 DEF Lookup
  <1>5. CASE ValidatePreconditions(w) BY <1>5 DEF ValidatePreconditions
  <1>6. CASE AdapterCommit(w) BY <1>6 DEF AdapterCommit
  <1>7. CASE SettleBudget(w) BY <1>7 DEF SettleBudget
  <1>8. CASE ConfirmOutbox(w) BY <1>8 DEF ConfirmOutbox
  <1>9. CASE Finalize(w) BY <1>9 DEF Finalize
  <1>10. CASE ReleaseGrant(w) BY <1>10 DEF ReleaseGrant
  <1>11. CASE ReleaseBudget(w) BY <1>11 DEF ReleaseBudget
  <1>12. CASE AbandonOutbox(w) BY <1>12 DEF AbandonOutbox
  <1>13. CASE Move(w) BY <1>13 DEF Move
  <1>14. CASE Persist(w) BY <1>14, UngrantedBefore DEF Persist, Moved, Advance, CompareAndSet
  <1>15. CASE PersistRefused(w) BY <1>15 DEF PersistRefused
  <1>16. CASE RevokeCheck(w) BY <1>16 DEF RevokeCheck
  <1>17. CASE Probe(w) BY <1>17 DEF Probe
  <1>18. CASE Backfill(w) BY <1>18 DEF Backfill
  <1>19. CASE RecoverGet(w) BY <1>19 DEF RecoverGet
  <1>20. CASE RecoverConfirm(w) BY <1>20 DEF RecoverConfirm
  <1>21. CASE RecoverState(w) BY <1>21 DEF RecoverState
  <1>22. CASE AuditRefused(w) BY <1>22, UngrantedBefore DEF AuditRefused, Advance, CompareAndSet
  <1>23. CASE StoreRaises(w) BY <1>23 DEF StoreRaises
  <1> QED BY <1>1, <1>2, <1>3, <1>4, <1>5, <1>6, <1>7, <1>8, <1>9, <1>10, <1>11, <1>12,
      <1>13, <1>14, <1>15, <1>16, <1>17, <1>18, <1>19, <1>20, <1>21, <1>22, <1>23 DEF Step,
      CommitStep, TransitionStep, RecoverStep, Failure

LEMMA GrantedNext == Shaped /\ GrantedInv /\ [Next]_vars => GrantedInv'
  <1> SUFFICES ASSUME Shaped, GrantedInv, [Next]_vars PROVE GrantedInv'
    OBVIOUS
  <1> USE ConstantsAssumption DEF Shaped, CallShape, ShapeOf, HasGrant, TypeOK, LocalTypes,
      GrantSteps, GlobalTypes, GrantedInv, Return, Begin, Goto, At, ledger, slots, entries,
      stores, outside
  <1>1. CASE \E w \in Workers : Step(w) \/ Failure(w)
    BY <1>1, GrantedStep
  <1>2. CASE \E w \in Workers : Begins(w)
    BY <1>2 DEF Begins, Prepare, Seal, Verify, Recover, Authorize, Commit, Revoke
  <1>3. CASE \E e \in Engines : Crash(e)
    BY <1>3 DEF Crash
  <1>4. CASE UNCHANGED vars
    BY <1>4 DEF vars
  <1> QED BY <1>1, <1>2, <1>3, <1>4 DEF Next

\* With a durable lifecycle store, racing authorize() calls of any number of threads and
\* processes hand out at most one grant for a manifest.
THEOREM GrantedAtMostOnce == Spec => []AtMostOneGrant
  <1>1. Init => GrantedInv
    BY DEF Init, GrantedInv
  <1>2. GrantedInv => AtMostOneGrant
    BY DEF GrantedInv, AtMostOneGrant
  <1> QED BY <1>1, <1>2, GrantedNext, AlwaysShaped, PTL DEF Spec

\* A step of one call leaves the fields of the others alone.
Same(v) ==
    /\ pc'[v] = pc[v] /\ man'[v] = man[v] /\ gr'[v] = gr[v]
    /\ tgt'[v] = tgt[v] /\ from'[v] = from[v] /\ fault'[v] = fault[v]

LEMMA OthersUnchanged ==
    ASSUME TypeOK, NEW w \in Workers, Step(w) \/ Failure(w), NEW v \in Workers, v # w
    PROVE  Same(v)
  <1> USE DEF TypeOK, LocalTypes, Same, Goto, Return, Begin, MoveTo, Undo, Raised
  <1>1. CASE ReserveBudget(w) BY <1>1 DEF ReserveBudget
  <1>2. CASE ReserveGrant(w) BY <1>2 DEF ReserveGrant
  <1>3. CASE RecordPending(w) BY <1>3 DEF RecordPending
  <1>4. CASE Lookup(w) BY <1>4 DEF Lookup
  <1>5. CASE ValidatePreconditions(w) BY <1>5 DEF ValidatePreconditions
  <1>6. CASE AdapterCommit(w) BY <1>6 DEF AdapterCommit
  <1>7. CASE SettleBudget(w) BY <1>7 DEF SettleBudget
  <1>8. CASE ConfirmOutbox(w) BY <1>8 DEF ConfirmOutbox
  <1>9. CASE Finalize(w) BY <1>9 DEF Finalize
  <1>10. CASE ReleaseGrant(w) BY <1>10 DEF ReleaseGrant
  <1>11. CASE ReleaseBudget(w) BY <1>11 DEF ReleaseBudget
  <1>12. CASE AbandonOutbox(w) BY <1>12 DEF AbandonOutbox
  <1>13. CASE Move(w) BY <1>13 DEF Move
  <1>14. CASE Persist(w) BY <1>14 DEF Persist, Moved
  <1>15. CASE PersistRefused(w) BY <1>15 DEF PersistRefused
  <1>16. CASE RevokeCheck(w) BY <1>16 DEF RevokeCheck
  <1>17. CASE Probe(w) BY <1>17 DEF Probe
  <1>18. CASE Backfill(w) BY <1>18 DEF Backfill
  <1>19. CASE RecoverGet(w) BY <1>19 DEF RecoverGet
  <1>20. CASE RecoverConfirm(w) BY <1>20 DEF RecoverConfirm
  <1>21. CASE RecoverState(w) BY <1>21 DEF RecoverState
  <1>22. CASE AuditRefused(w) BY <1>22 DEF AuditRefused
  <1>23. CASE StoreRaises(w) BY <1>23 DEF StoreRaises
  <1> QED BY <1>1, <1>2, <1>3, <1>4, <1>5, <1>6, <1>7, <1>8, <1>9, <1>10, <1>11, <1>12,
      <1>13, <1>14, <1>15, <1>16, <1>17, <1>18, <1>19, <1>20, <1>21, <1>22, <1>23 DEF Step,
      CommitStep, TransitionStep, RecoverStep, Failure

(***************************************************************************)
(* What the stores claim happened.  Between the provider's answer and the  *)
(* record of it a call carries the claim in its program counter; what the  *)
(* provider settled it does not take back.                                 *)
(***************************************************************************)
CallClaims(w) ==
    /\ pc[w] \in {"settle_budget", "confirm", "finalize", "backfill"} => world[Key(w)] = "settled"
    /\ pc[w] \in {"recover_get", "recover_confirm", "recover_state"} => Key(w) \in outcome
    /\ pc[w] \in {"move", "persist"} /\ tgt[w] \in {"committed", "recovered_committed"} =>
          Key(w) \in outcome

TruthInv == ClaimsAreTrue /\ \A w \in Workers : CallClaims(w)

\* A manifest is verified only from COMMITTED.
LEMMA DoneBefore ==
    ASSUME NEW s, NEW t, IsLegalTransition(s, t)
    PROVE  t = "verified" => s = "committed"
  BY DEF IsLegalTransition, TRANSITIONS

\* What is settled stays settled, what is recorded stays recorded.
Grows ==
    /\ \A k \in Keys : world[k] = "settled" => world'[k] = "settled"
    /\ outcome \subseteq outcome'

LEMMA SettledStays ==
    ASSUME Shaped, NEW w \in Workers, Step(w) \/ Failure(w) PROVE Grows
  <1> USE DEF Shaped, TypeOK, GlobalTypes, Grows, ledger, slots, entries, stores, outside
  <1>1. CASE ReserveBudget(w) BY <1>1 DEF ReserveBudget
  <1>2. CASE ReserveGrant(w) BY <1>2 DEF ReserveGrant
  <1>3. CASE RecordPending(w) BY <1>3 DEF RecordPending
  <1>4. CASE Lookup(w) BY <1>4 DEF Lookup
  <1>5. CASE ValidatePreconditions(w) BY <1>5 DEF ValidatePreconditions
  <1>6. CASE AdapterCommit(w) BY <1>6 DEF AdapterCommit
  <1>7. CASE SettleBudget(w) BY <1>7 DEF SettleBudget
  <1>8. CASE ConfirmOutbox(w) BY <1>8 DEF ConfirmOutbox
  <1>9. CASE Finalize(w) BY <1>9 DEF Finalize
  <1>10. CASE ReleaseGrant(w) BY <1>10 DEF ReleaseGrant
  <1>11. CASE ReleaseBudget(w) BY <1>11 DEF ReleaseBudget
  <1>12. CASE AbandonOutbox(w) BY <1>12 DEF AbandonOutbox
  <1>13. CASE Move(w) BY <1>13 DEF Move
  <1>14. CASE Persist(w) BY <1>14 DEF Persist
  <1>15. CASE PersistRefused(w) BY <1>15 DEF PersistRefused
  <1>16. CASE RevokeCheck(w) BY <1>16 DEF RevokeCheck
  <1>17. CASE Probe(w) BY <1>17 DEF Probe
  <1>18. CASE Backfill(w) BY <1>18 DEF Backfill
  <1>19. CASE RecoverGet(w) BY <1>19 DEF RecoverGet
  <1>20. CASE RecoverConfirm(w) BY <1>20 DEF RecoverConfirm
  <1>21. CASE RecoverState(w) BY <1>21 DEF RecoverState
  <1>22. CASE AuditRefused(w) BY <1>22 DEF AuditRefused
  <1>23. CASE StoreRaises(w) BY <1>23 DEF StoreRaises
  <1> QED BY <1>1, <1>2, <1>3, <1>4, <1>5, <1>6, <1>7, <1>8, <1>9, <1>10, <1>11, <1>12,
      <1>13, <1>14, <1>15, <1>16, <1>17, <1>18, <1>19, <1>20, <1>21, <1>22, <1>23 DEF Step,
      CommitStep, TransitionStep, RecoverStep, Failure

LEMMA OthersStillClaim ==
    ASSUME Shaped, Grows, NEW v \in Workers, CallClaims(v), Same(v)
    PROVE  CallClaims(v)'
  <1>1. CASE pc[v] = "idle"
    BY <1>1 DEF CallClaims, Same
  <1>2. CASE pc[v] # "idle"
    <2>1. Key(v) \in Keys /\ Key(v)' = Key(v)
      BY <1>2, CallData DEF Same, Key
    <2> QED BY <2>1 DEF CallClaims, Same, Grows
  <1> QED BY <1>1, <1>2

LEMMA OwnClaim ==
    ASSUME Shaped, TruthInv, NEW w \in Workers, Step(w) \/ Failure(w)
    PROVE  CallClaims(w)'
  <1> USE DEF At, Goto, Return, Begin, MoveTo, Undo, Raised, CallClaims, Key, TypeOK, LocalTypes,
      GlobalTypes, ledger, slots, entries, stores, outside
  <1>a. TypeOK /\ ShapeOf(w) /\ CallClaims(w) /\ ClaimsAreTrue
    BY DEF Shaped, CallShape, TruthInv
  <1>b. man[w] \in Manifests => KeyOf[man[w]] \in Keys
    BY ConstantsAssumption
  <1>1. CASE ReserveBudget(w) BY <1>1, <1>a, <1>b DEF ReserveBudget
  <1>2. CASE ReserveGrant(w) BY <1>2, <1>a, <1>b DEF ReserveGrant
  <1>3. CASE RecordPending(w) BY <1>3, <1>a, <1>b DEF RecordPending
  <1>4. CASE Lookup(w)
    BY <1>4, <1>a, <1>b DEF Lookup, ClaimsAreTrue, ShapeOf, GrantSteps, HasGrant
  <1>5. CASE ValidatePreconditions(w) BY <1>5, <1>a, <1>b DEF ValidatePreconditions
  <1>6. CASE AdapterCommit(w)
    BY <1>6, <1>a, <1>b DEF AdapterCommit, ShapeOf, GrantSteps, HasGrant
  <1>7. CASE SettleBudget(w) BY <1>7, <1>a, <1>b DEF SettleBudget
  <1>8. CASE ConfirmOutbox(w) BY <1>8, <1>a, <1>b DEF ConfirmOutbox
  <1>9. CASE Finalize(w) BY <1>9, <1>a, <1>b DEF Finalize
  <1>10. CASE ReleaseGrant(w) BY <1>10, <1>a, <1>b DEF ReleaseGrant
  <1>11. CASE ReleaseBudget(w) BY <1>11, <1>a, <1>b DEF ReleaseBudget
  <1>12. CASE AbandonOutbox(w) BY <1>12, <1>a, <1>b DEF AbandonOutbox
  <1>13. CASE Move(w) BY <1>13, <1>a, <1>b DEF Move
  <1>14. CASE Persist(w) BY <1>14, <1>a, <1>b DEF Persist, Moved
  <1>15. CASE PersistRefused(w) BY <1>15, <1>a, <1>b DEF PersistRefused
  <1>16. CASE RevokeCheck(w) BY <1>16, <1>a, <1>b DEF RevokeCheck
  <1>17. CASE Probe(w) BY <1>17, <1>a, <1>b DEF Probe, Evidence
  <1>18. CASE Backfill(w) BY <1>18, <1>a, <1>b DEF Backfill
  <1>19. CASE RecoverGet(w) BY <1>19, <1>a, <1>b DEF RecoverGet
  <1>20. CASE RecoverConfirm(w) BY <1>20, <1>a, <1>b DEF RecoverConfirm
  <1>21. CASE RecoverState(w) BY <1>21, <1>a, <1>b DEF RecoverState
  <1>22. CASE AuditRefused(w) BY <1>22, <1>a, <1>b DEF AuditRefused
  <1>23. CASE StoreRaises(w) BY <1>23, <1>a, <1>b DEF StoreRaises
  <1> QED BY <1>1, <1>2, <1>3, <1>4, <1>5, <1>6, <1>7, <1>8, <1>9, <1>10, <1>11, <1>12,
      <1>13, <1>14, <1>15, <1>16, <1>17, <1>18, <1>19, <1>20, <1>21, <1>22, <1>23 DEF Step,
      CommitStep, TransitionStep, RecoverStep, Failure

LEMMA TruthStep ==
    ASSUME Shaped, TruthInv, NEW w \in Workers, Step(w) \/ Failure(w)
    PROVE  TruthInv'
  <1>1. \A v \in Workers : CallClaims(v)'
    BY OwnClaim, OthersStillClaim, OthersUnchanged, SettledStays DEF TruthInv, Shaped
  <1>2. ClaimsAreTrue'
    <2> USE ConstantsAssumption DEF At, ledger, slots, entries, stores, outside
    <2>a. /\ GlobalTypes /\ ShapeOf(w) /\ CallClaims(w) /\ ClaimsAreTrue
          /\ Grows
      BY SettledStays DEF Shaped, CallShape, TruthInv, TypeOK
    <2>1. CASE Persist(w) \/ AuditRefused(w)
      <3>1. /\ man[w] \in Manifests /\ IsLegalTransition(from[w], tgt[w])
            /\ IF HasLifecycleStore
               THEN /\ stored[man[w]] = Absent \/ stored[man[w]] = from[w]
                    /\ stored[man[w]] = Absent => from[w] = "proposed"
                    /\ stored' = [stored EXCEPT ![man[w]] = tgt[w]]
               ELSE stored' = stored
            /\ UNCHANGED <<outcome, outbox, world>>
        BY <2>1, <2>a DEF Persist, AuditRefused, Advance, CompareAndSet, ShapeOf
      <3>2. tgt[w] \in {"committed", "verified", "recovered_committed"} /\ HasLifecycleStore
               => KeyOf[man[w]] \in outcome
        BY <3>1, <2>1, <2>a, DoneBefore
           DEF Persist, AuditRefused, CallClaims, ClaimsAreTrue, Key
      <3> QED BY <3>1, <3>2, <2>a DEF ClaimsAreTrue, GlobalTypes
    <2>2. CASE Finalize(w) \/ Backfill(w)
      BY <2>2, <2>a DEF Finalize, Backfill, CallClaims, ClaimsAreTrue, Grows, Key
    <2>3. CASE ConfirmOutbox(w) \/ RecoverConfirm(w)
      <3>1. /\ \/ outbox' = outbox
               \/ outbox' = [outbox EXCEPT ![Key(w)] = "confirmed"] /\ world[Key(w)] = "settled"
            /\ UNCHANGED <<outcome, world, stored>>
        BY <2>3, <2>a DEF ConfirmOutbox, RecoverConfirm, CallClaims, Mark, ClaimsAreTrue
      <3> QED BY <3>1, <2>a DEF ClaimsAreTrue, GlobalTypes
    <2>4. CASE RecordPending(w) \/ AbandonOutbox(w)
      <3>1. /\ \/ outbox' = outbox
               \/ outbox' = [outbox EXCEPT ![Key(w)] = "pending"]
               \/ outbox' = [outbox EXCEPT ![Key(w)] = "abandoned"]
            /\ UNCHANGED <<outcome, world, stored>>
        BY <2>4 DEF RecordPending, AbandonOutbox, Mark
      <3> QED BY <3>1, <2>a DEF ClaimsAreTrue, GlobalTypes
    <2>5. CASE UNCHANGED <<stored, outcome, outbox>>
      BY <2>5, <2>a DEF ClaimsAreTrue, Grows, GlobalTypes
    <2> QED BY <2>1, <2>2, <2>3, <2>4, <2>5
        DEF Step, CommitStep, TransitionStep, RecoverStep, Failure, ReserveBudget, ReserveGrant,
            Lookup, ValidatePreconditions, AdapterCommit, SettleBudget, ReleaseGrant,
            ReleaseBudget, Move, PersistRefused, RevokeCheck, Probe, RecoverGet, RecoverState,
            StoreRaises
  <1> QED BY <1>1, <1>2 DEF TruthInv

LEMMA TruthNext == Shaped /\ TruthInv /\ [Next]_vars => TruthInv'
  <1> SUFFICES ASSUME Shaped, TruthInv, [Next]_vars PROVE TruthInv'
    OBVIOUS
  <1>1. CASE \E w \in Workers : Step(w) \/ Failure(w)
    BY <1>1, TruthStep
  <1>2. CASE \E w \in Workers : Begins(w)
    <2>1. /\ UNCHANGED <<stored, outcome, outbox, world>>
          /\ \A w \in Workers : CallClaims(w)'
      BY <1>2 DEF Begins, Prepare, Seal, Verify, Recover, Authorize, Commit, Revoke, Begin,
         CallClaims, TruthInv, Key, Shaped, TypeOK, LocalTypes, stores, entries, outside
    <2> QED BY <2>1 DEF TruthInv, ClaimsAreTrue
  <1>3. CASE \E e \in Engines : Crash(e)
    BY <1>3 DEF Crash, TruthInv, ClaimsAreTrue, CallClaims, Key, stores, entries, outside
  <1>4. CASE UNCHANGED vars
    BY <1>4 DEF vars, TruthInv, ClaimsAreTrue, CallClaims, Key
  <1> QED BY <1>1, <1>2, <1>3, <1>4 DEF Next

LEMMA AlwaysTrue == Spec => []TruthInv
  <1>1. Init => TruthInv
    BY DEF Init, TruthInv, ClaimsAreTrue, CallClaims, Absent
  <1> QED BY <1>1, TruthNext, AlwaysShaped, PTL DEF Spec

\* Whatever crashes, failing stores and recoveries there are: the idempotency ledger and
\* the outbox claim only effects the provider performed, and a manifest is durably
\* COMMITTED, VERIFIED or RECOVERED_COMMITTED only with its outcome in the ledger.
THEOREM StoresTellTheTruth == Spec => []ClaimsAreTrue
  <1>1. TruthInv => ClaimsAreTrue
    BY DEF TruthInv
  <1> QED BY <1>1, AlwaysTrue, PTL

(***************************************************************************)
(* The outbox: an intent is recorded before the adapter is invoked, and a  *)
(* key is never bound to a second grant.                                   *)
(***************************************************************************)
Recorded(w) ==
    pc[w] \in {"lookup", "preconditions", "adapter"} =>
        outbox[Key(w)] # Absent /\ ManifestOf[bound[Key(w)]] = man[w]

IntentInv ==
    OutboxOwnsInvocation /\ (HasOutbox => \A w \in Workers : Recorded(w))

\* An entry is neither deleted nor bound to another grant.
Binding ==
    \A k \in Keys : outbox[k] # Absent => outbox'[k] # Absent /\ bound'[k] = bound[k]

LEMMA BindingStays ==
    ASSUME Shaped, NEW w \in Workers, Step(w) \/ Failure(w) PROVE Binding
  <1> USE DEF Binding, At, ledger, slots, entries, stores, outside
  <1>a. GlobalTypes
    BY DEF Shaped, TypeOK
  <1>1. CASE RecordPending(w)
    <2>1. \/ outbox' = outbox /\ bound' = bound
          \/ /\ outbox[Key(w)] = Absent
             /\ outbox' = [outbox EXCEPT ![Key(w)] = "pending"]
             /\ bound' = [bound EXCEPT ![Key(w)] = gr[w]]
      BY <1>1 DEF RecordPending, Owner
    <2> QED BY <2>1, <1>a DEF GlobalTypes
  <1>2. CASE ConfirmOutbox(w) \/ AbandonOutbox(w) \/ RecoverConfirm(w)
    <2>1. /\ \/ outbox' = outbox
             \/ outbox' = [outbox EXCEPT ![Key(w)] = "confirmed"]
             \/ outbox' = [outbox EXCEPT ![Key(w)] = "abandoned"]
          /\ bound' = bound
      BY <1>2 DEF ConfirmOutbox, AbandonOutbox, RecoverConfirm, Mark
    <2> QED BY <2>1, <1>a DEF GlobalTypes, Absent
  <1>3. CASE UNCHANGED <<outbox, bound>>
    BY <1>3
  <1> QED BY <1>1, <1>2, <1>3
      DEF Step, CommitStep, TransitionStep, RecoverStep, Failure, ReserveBudget, ReserveGrant,
          Lookup, ValidatePreconditions, AdapterCommit, SettleBudget, Finalize, ReleaseGrant,
          ReleaseBudget, Move, Persist, PersistRefused, RevokeCheck, Probe, Backfill, RecoverGet,
          RecoverState, AuditRefused, StoreRaises

LEMMA OthersStillRecorded ==
    ASSUME Shaped, Binding, NEW v \in Workers, Recorded(v), Same(v)
    PROVE  Recorded(v)'
  <1>1. CASE pc[v] = "idle"
    BY <1>1 DEF Recorded, Same
  <1>2. CASE pc[v] # "idle"
    <2>1. Key(v) \in Keys /\ Key(v)' = Key(v)
      BY <1>2, CallData DEF Same, Key
    <2> QED BY <2>1 DEF Recorded, Same, Binding
  <1> QED BY <1>1, <1>2

LEMMA OwnRecord ==
    ASSUME Shaped, HasOutbox, NEW w \in Workers, Recorded(w), Step(w) \/ Failure(w)
    PROVE  Recorded(w)'
  <1> USE DEF At, Goto, Return, Begin, MoveTo, Undo, Raised, Recorded, Key, LocalTypes, GlobalTypes,
      ledger, slots, entries, stores, outside
  <1>a. GlobalTypes /\ LocalTypes /\ ShapeOf(w)
    BY DEF Shaped, CallShape, TypeOK
  <1>b. man[w] \in Manifests => KeyOf[man[w]] \in Keys
    BY ConstantsAssumption
  <1>1. CASE ReserveBudget(w) BY <1>1, <1>a, <1>b DEF ReserveBudget
  <1>2. CASE ReserveGrant(w) BY <1>2, <1>a, <1>b DEF ReserveGrant
  <1>3. CASE RecordPending(w)
    BY <1>3, <1>a, <1>b DEF RecordPending, SameIntent, Owner, ShapeOf, GrantSteps, HasGrant, Absent
  <1>4. CASE Lookup(w) BY <1>4, <1>a, <1>b DEF Lookup
  <1>5. CASE ValidatePreconditions(w) BY <1>5, <1>a, <1>b DEF ValidatePreconditions
  <1>6. CASE AdapterCommit(w) BY <1>6, <1>a, <1>b DEF AdapterCommit
  <1>7. CASE SettleBudget(w) BY <1>7, <1>a, <1>b DEF SettleBudget
  <1>8. CASE ConfirmOutbox(w) BY <1>8, <1>a, <1>b DEF ConfirmOutbox, Mark
  <1>9. CASE Finalize(w) BY <1>9, <1>a, <1>b DEF Finalize
  <1>10. CASE ReleaseGrant(w) BY <1>10, <1>a, <1>b DEF ReleaseGrant
  <1>11. CASE ReleaseBudget(w) BY <1>11, <1>a, <1>b DEF ReleaseBudget
  <1>12. CASE AbandonOutbox(w) BY <1>12, <1>a, <1>b DEF AbandonOutbox, Mark
  <1>13. CASE Move(w) BY <1>13, <1>a, <1>b DEF Move
  <1>14. CASE Persist(w) BY <1>14, <1>a, <1>b DEF Persist, Moved
  <1>15. CASE PersistRefused(w) BY <1>15, <1>a, <1>b DEF PersistRefused
  <1>16. CASE RevokeCheck(w) BY <1>16, <1>a, <1>b DEF RevokeCheck
  <1>17. CASE Probe(w) BY <1>17, <1>a, <1>b DEF Probe
  <1>18. CASE Backfill(w) BY <1>18, <1>a, <1>b DEF Backfill
  <1>19. CASE RecoverGet(w) BY <1>19, <1>a, <1>b DEF RecoverGet
  <1>20. CASE RecoverConfirm(w) BY <1>20, <1>a, <1>b DEF RecoverConfirm, Mark
  <1>21. CASE RecoverState(w) BY <1>21, <1>a, <1>b DEF RecoverState
  <1>22. CASE AuditRefused(w) BY <1>22, <1>a, <1>b DEF AuditRefused
  <1>23. CASE StoreRaises(w) BY <1>23, <1>a, <1>b DEF StoreRaises
  <1> QED BY <1>1, <1>2, <1>3, <1>4, <1>5, <1>6, <1>7, <1>8, <1>9, <1>10, <1>11, <1>12,
      <1>13, <1>14, <1>15, <1>16, <1>17, <1>18, <1>19, <1>20, <1>21, <1>22, <1>23 DEF Step,
      CommitStep, TransitionStep, RecoverStep, Failure

LEMMA IntentStep ==
    ASSUME Shaped, IntentInv, NEW w \in Workers, Step(w) \/ Failure(w)
    PROVE  IntentInv'
  <1>1. HasOutbox => \A v \in Workers : Recorded(v)'
    BY OwnRecord, OthersStillRecorded, OthersUnchanged, BindingStays DEF IntentInv, Shaped
  <1>2. OutboxOwnsInvocation'
    <2>a. GlobalTypes /\ ShapeOf(w) /\ Binding
      BY BindingStays DEF Shaped, CallShape, TypeOK
    <2>b. \A m \in Manifests : KeyOf[m] \in Keys
      BY ConstantsAssumption
    <2>1. CASE AdapterCommit(w)
      <3>1. /\ man[w] \in Manifests /\ invoked' = [invoked EXCEPT ![man[w]] = @ + 1]
            /\ HasOutbox => outbox[Key(w)] # Absent /\ ManifestOf[bound[Key(w)]] = man[w]
        BY <2>1, <2>a DEF AdapterCommit, At, IntentInv, Recorded, ShapeOf
      <3> QED BY <3>1, <2>a, <2>b DEF OutboxOwnsInvocation, IntentInv, Binding, GlobalTypes, Key
    <2>2. CASE UNCHANGED invoked
      BY <2>2, <2>a, <2>b DEF OutboxOwnsInvocation, IntentInv, Binding
    <2> QED BY <2>1, <2>2
        DEF Step, CommitStep, TransitionStep, RecoverStep, Failure, ReserveBudget, ReserveGrant,
            RecordPending, Lookup, ValidatePreconditions, SettleBudget, ConfirmOutbox, Finalize,
            ReleaseGrant, ReleaseBudget, AbandonOutbox, Move, Persist, PersistRefused, RevokeCheck,
            Probe, Backfill, RecoverGet, RecoverConfirm, RecoverState, AuditRefused, StoreRaises,
            outside
  <1> QED BY <1>1, <1>2 DEF IntentInv

LEMMA IntentNext == Shaped /\ IntentInv /\ [Next]_vars => IntentInv'
  <1> SUFFICES ASSUME Shaped, IntentInv, [Next]_vars PROVE IntentInv'
    OBVIOUS
  <1>1. CASE \E w \in Workers : Step(w) \/ Failure(w)
    BY <1>1, IntentStep
  <1>2. CASE \E w \in Workers : Begins(w)
    <2>1. /\ UNCHANGED <<outbox, bound, invoked>>
          /\ HasOutbox => \A w \in Workers : Recorded(w)'
      BY <1>2 DEF Begins, Prepare, Seal, Verify, Recover, Authorize, Commit, Revoke, Begin,
         Recorded, IntentInv, Key, Shaped, TypeOK, LocalTypes, stores, entries, outside
    <2> QED BY <2>1 DEF IntentInv, OutboxOwnsInvocation
  <1>3. CASE \E e \in Engines : Crash(e)
    BY <1>3 DEF Crash, IntentInv, OutboxOwnsInvocation, Recorded, Key, stores, entries, outside
  <1>4. CASE UNCHANGED vars
    BY <1>4 DEF vars, IntentInv, OutboxOwnsInvocation, Recorded, Key
  <1> QED BY <1>1, <1>2, <1>3, <1>4 DEF Next

LEMMA AlwaysIntended == Spec => []IntentInv
  <1>1. Init => IntentInv
    BY DEF Init, IntentInv, OutboxOwnsInvocation, Recorded
  <1> QED BY <1>1, IntentNext, AlwaysShaped, PTL DEF Spec

\* With the outbox, at most one of the manifests that share an idempotency key reaches the
\* adapter, and record_pending ran for it before.
THEOREM OutboxOwnsEveryInvocation == Spec => []OutboxOwnsInvocation
  <1>1. IntentInv => OutboxOwnsInvocation
    BY DEF IntentInv
  <1> QED BY <1>1, AlwaysIntended, PTL

(***************************************************************************)
(* A settled effect can be found again.  A call that gives up abandons its *)
(* outbox entry two steps after it gave up, so the effect must stay absent *)
(* until then: the manifest is claimed and nobody else executes it, and    *)
(* the entry keeps every other manifest of the key away from the adapter.  *)
(***************************************************************************)
Findable == HasLifecycleStore /\ HasOutbox /\ ~AmbiguousReturn

\* The call has given up and is on its way to mark_abandoned.
Doomed(w) ==
    \/ pc[w] \in {"release_grant", "release_budget"} /\ fault[w] \in Abandoned
    \/ pc[w] = "abandon"

Fate(w) ==
    /\ pc[w] \in {"lookup", "preconditions", "adapter"} =>
          outbox[Key(w)] \in {"pending", "confirmed"}
    /\ Doomed(w) =>
          /\ outbox[Key(w)] # Absent /\ ManifestOf[bound[Key(w)]] = man[w]
          /\ stored[man[w]] \in ClaimedStates
          /\ \A v \in Workers : Executing(v) => man[v] # man[w]
          /\ world[Key(w)] # "settled"

\* The provider did only what an invocation asked for.
Caused ==
    \A k \in Keys : world[k] # "none" => \E m \in Manifests : KeyOf[m] = k /\ invoked[m] > 0

FateInv ==
    Findable => SettledNeverAbandoned /\ Caused /\ \A w \in Workers : Fate(w)

\* How a call comes to the adapter, and how it comes to give up.
PathOf(w) ==
    /\ pc'[w] \in {"lookup", "preconditions", "adapter"} =>
          /\ man'[w] = man[w]
          /\ \/ pc[w] \in {"lookup", "preconditions"}
             \/ pc[w] = "outbox" /\ outbox'[Key(w)] = "pending"
    /\ Doomed(w)' =>
          /\ man'[w] = man[w]
          /\ \/ Doomed(w)
             \/ pc[w] = "preconditions" /\ world' = world
             \/ pc[w] = "adapter" /\ world'[Key(w)] = "failed"

LEMMA Paths ==
    ASSUME Findable, Shaped, NEW w \in Workers, Step(w) \/ Failure(w)
    PROVE  PathOf(w)
  <1> USE DEF PathOf, Doomed, Abandoned, At, Goto, Return, Begin, MoveTo, Undo, Raised, Findable,
      LocalTypes, GlobalTypes, ledger, slots, entries, stores, outside
  <1>a. GlobalTypes /\ LocalTypes
    BY DEF Shaped, TypeOK
  <1>b. pc[w] # "idle" => Key(w) \in Keys
    BY CallData
  <1>1. CASE ReserveBudget(w) BY <1>1, <1>a, <1>b DEF ReserveBudget
  <1>2. CASE ReserveGrant(w) BY <1>2, <1>a, <1>b DEF ReserveGrant
  <1>3. CASE RecordPending(w) BY <1>3, <1>a, <1>b DEF RecordPending, SameIntent, Mark
  <1>4. CASE Lookup(w) BY <1>4, <1>a, <1>b DEF Lookup
  <1>5. CASE ValidatePreconditions(w) BY <1>5, <1>a, <1>b DEF ValidatePreconditions
  <1>6. CASE AdapterCommit(w) BY <1>6, <1>a, <1>b DEF AdapterCommit
  <1>7. CASE SettleBudget(w) BY <1>7, <1>a, <1>b DEF SettleBudget
  <1>8. CASE ConfirmOutbox(w) BY <1>8, <1>a, <1>b DEF ConfirmOutbox
  <1>9. CASE Finalize(w) BY <1>9, <1>a, <1>b DEF Finalize
  <1>10. CASE ReleaseGrant(w) BY <1>10, <1>a, <1>b DEF ReleaseGrant
  <1>11. CASE ReleaseBudget(w) BY <1>11, <1>a, <1>b DEF ReleaseBudget
  <1>12. CASE AbandonOutbox(w) BY <1>12, <1>a, <1>b DEF AbandonOutbox, Mark
  <1>13. CASE Move(w) BY <1>13, <1>a, <1>b DEF Move
  <1>14. CASE Persist(w) BY <1>14, <1>a, <1>b DEF Persist, Moved
  <1>15. CASE PersistRefused(w) BY <1>15, <1>a, <1>b DEF PersistRefused
  <1>16. CASE RevokeCheck(w) BY <1>16, <1>a, <1>b DEF RevokeCheck
  <1>17. CASE Probe(w) BY <1>17, <1>a, <1>b DEF Probe
  <1>18. CASE Backfill(w) BY <1>18, <1>a, <1>b DEF Backfill
  <1>19. CASE RecoverGet(w) BY <1>19, <1>a, <1>b DEF RecoverGet
  <1>20. CASE RecoverConfirm(w) BY <1>20, <1>a, <1>b DEF RecoverConfirm
  <1>21. CASE RecoverState(w) BY <1>21, <1>a, <1>b DEF RecoverState
  <1>22. CASE AuditRefused(w) BY <1>22, <1>a, <1>b DEF AuditRefused
  <1>23. CASE StoreRaises(w) BY <1>23, <1>a, <1>b DEF StoreRaises
  <1> QED BY <1>1, <1>2, <1>3, <1>4, <1>5, <1>6, <1>7, <1>8, <1>9, <1>10, <1>11, <1>12,
      <1>13, <1>14, <1>15, <1>16, <1>17, <1>18, <1>19, <1>20, <1>21, <1>22, <1>23 DEF Step,
      CommitStep, TransitionStep, RecoverStep, Failure

\* Only mark_abandoned takes an entry out of pending and confirmed.
Kept == \A k \in Keys :
    outbox[k] \in {"pending", "confirmed"} => outbox'[k] \in {"pending", "confirmed"}

LEMMA EntriesKept ==
    ASSUME Shaped, NEW w \in Workers, Step(w) \/ Failure(w), ~AbandonOutbox(w) PROVE Kept
  <1>a. outbox \in [Keys -> OutboxStatus]
    BY DEF Shaped, TypeOK, GlobalTypes
  <1>1. \/ outbox' = outbox
        \/ outbox' = [outbox EXCEPT ![Key(w)] = "pending"]
        \/ outbox' = [outbox EXCEPT ![Key(w)] = "confirmed"]
    BY DEF Step, CommitStep, TransitionStep, RecoverStep, Failure, ReserveBudget, ReserveGrant,
       RecordPending, Lookup, ValidatePreconditions, AdapterCommit, SettleBudget, ConfirmOutbox,
       Finalize, ReleaseGrant, ReleaseBudget, Move, Persist, PersistRefused, RevokeCheck, Probe,
       Backfill, RecoverGet, RecoverConfirm, RecoverState, AuditRefused, StoreRaises, Mark, ledger,
       slots, entries, stores, outside
  <1> QED BY <1>1, <1>a DEF Kept

\* A claimed manifest stays claimed, and nobody starts to execute it.
ClaimKept ==
    /\ \A m \in Manifests : stored[m] \in ClaimedStates => stored'[m] \in ClaimedStates
    /\ \A v \in Workers : Executing(v)' =>
          \/ Executing(v) /\ man'[v] = man[v]
          \/ stored[man'[v]] \notin ClaimedStates

LEMMA ClaimsKept ==
    ASSUME HasLifecycleStore, Shaped, NEW w \in Workers, Step(w) \/ Failure(w) PROVE ClaimKept
  <1>a. /\ stored \in [Manifests -> LifecycleState \cup {Absent}] /\ LocalTypes /\ ShapeOf(w)
    BY DEF Shaped, CallShape, TypeOK, GlobalTypes
  <1>1. CASE Persist(w) \/ AuditRefused(w)
    <2>1. /\ man[w] \in Manifests /\ IsLegalTransition(from[w], tgt[w])
          /\ IF stored[man[w]] = Absent THEN from[w] = "proposed" ELSE stored[man[w]] = from[w]
          /\ stored' = [stored EXCEPT ![man[w]] = tgt[w]]
      BY <1>1, <1>a DEF Persist, AuditRefused, Advance, CompareAndSet, ShapeOf, At
    <2>2. /\ stored[man[w]] \in ClaimedStates => tgt[w] \in ClaimedStates
          /\ tgt[w] = "committing" => stored[man[w]] \notin ClaimedStates
      BY <2>1, ClaimedClosed
    <2>3. \A m \in Manifests : stored[m] \in ClaimedStates => stored'[m] \in ClaimedStates
      BY <2>1, <2>2, <1>a
    <2>4. CASE Persist(w) /\ tgt[w] = "committing"
      <3>1. man' = man /\ \A v \in Workers : v # w => pc'[v] = pc[v]
        BY <2>4, <1>a DEF Persist, Moved, Goto, LocalTypes
      <3> QED BY <3>1, <2>2, <2>3, <2>4 DEF ClaimKept, Executing
    <2>5. CASE Persist(w) /\ tgt[w] # "committing"
      BY <2>5, <2>3, <1>a DEF Persist, Moved, Return, Begin, ClaimKept, Executing, LocalTypes
    <2>6. CASE ~Persist(w)
      BY <2>6, <2>3, ExecutionStarts DEF ClaimKept, NoneStarts
    <2> QED BY <2>4, <2>5, <2>6
  <1>2. CASE ~Persist(w) /\ ~AuditRefused(w)
    <2>1. stored' = stored
      BY <1>2 DEF Step, CommitStep, TransitionStep, RecoverStep, Failure, ReserveBudget,
         ReserveGrant, RecordPending, Lookup, ValidatePreconditions, AdapterCommit, SettleBudget,
         ConfirmOutbox, Finalize, ReleaseGrant, ReleaseBudget, AbandonOutbox, Move, PersistRefused,
         RevokeCheck, Probe, Backfill, RecoverGet, RecoverConfirm, RecoverState, StoreRaises, stores
    <2> QED BY <2>1, <1>2, ExecutionStarts DEF ClaimKept, NoneStarts
  <1> QED BY <1>1, <1>2

\* Only adapter.commit reaches the provider, for the key of its call.
WorldMoves(w) ==
    \/ UNCHANGED <<world, invoked>>
    \/ /\ pc[w] = "adapter"
       /\ invoked' = [invoked EXCEPT ![man[w]] = @ + 1]
       /\ \A k \in Keys : k # Key(w) => world'[k] = world[k]

LEMMA WorldStep ==
    ASSUME Shaped, NEW w \in Workers, Step(w) \/ Failure(w) PROVE WorldMoves(w)
  <1>1. CASE AdapterCommit(w)
    BY <1>1 DEF AdapterCommit, WorldMoves, At, Shaped, TypeOK, GlobalTypes
  <1>2. CASE UNCHANGED <<world, invoked>>
    BY <1>2 DEF WorldMoves
  <1> QED BY <1>1, <1>2
      DEF Step, CommitStep, TransitionStep, RecoverStep, Failure, ReserveBudget, ReserveGrant,
          RecordPending, Lookup, ValidatePreconditions, SettleBudget, ConfirmOutbox, Finalize,
          ReleaseGrant, ReleaseBudget, AbandonOutbox, Move, Persist, PersistRefused, RevokeCheck,
          Probe, Backfill, RecoverGet, RecoverConfirm, RecoverState, AuditRefused, StoreRaises,
          outside

\* The calls of one key that have recorded an intent are about one manifest.
LEMMA OneIntent ==
    ASSUME Findable, Shaped, IntentInv, FateInv, NEW v \in Workers, NEW w \in Workers,
           pc[v] \in {"lookup", "preconditions", "adapter"}, Doomed(w), Key(v) = Key(w)
    PROVE  FALSE
  BY DEF IntentInv, Recorded, FateInv, Fate, Findable, Executing

\* Nothing happened yet for a call before the adapter: an effect of its key would be an
\* invocation of the manifest its entry is bound to, which is its own.
LEMMA NothingYet ==
    ASSUME Findable, Shaped, Claims, IntentInv, FateInv, NEW w \in Workers,
           pc[w] \in {"lookup", "preconditions", "adapter"}
    PROVE  world[Key(w)] = "none"
  <1>1. Key(w) \in Keys
    BY CallData
  <1>2. SUFFICES ASSUME NEW m \in Manifests, KeyOf[m] = Key(w), invoked[m] > 0 PROVE FALSE
    BY <1>1 DEF FateInv, Caused
  <1>3. man[w] = m
    BY <1>2 DEF IntentInv, OutboxOwnsInvocation, Recorded, Findable
  <1> QED BY <1>2, <1>3 DEF Claims, Executing

LEMMA FateStep ==
    ASSUME Findable, Shaped, Claims, IntentInv, FateInv, NEW w \in Workers, Step(w) \/ Failure(w)
    PROVE  FateInv'
  <1>a. /\ GlobalTypes /\ LocalTypes
        /\ SettledNeverAbandoned /\ Caused /\ \A v \in Workers : Fate(v)
        /\ \A v \in Workers : Recorded(v)
        /\ \A m \in Manifests : KeyOf[m] \in Keys
    BY ConstantsAssumption DEF Shaped, TypeOK, FateInv, IntentInv, Findable
  <1>b. PathOf(w) /\ Binding /\ ClaimKept /\ WorldMoves(w)
    BY Paths, BindingStays, ClaimsKept, WorldStep DEF Findable
  <1>c. AbandonOutbox(w) \/ Kept
    BY EntriesKept
  <1>d. pc[w] = "adapter" => man[w] \in Manifests /\ Key(w) \in Keys
    BY CallData
  <1>e. AbandonOutbox(w) =>
           /\ Doomed(w) /\ UNCHANGED <<world, stored>>
           /\ Key(w) \in Keys
           /\ \A k \in Keys : k # Key(w) => outbox'[k] = outbox[k]
    BY <1>a, CallData
       DEF AbandonOutbox, At, Doomed, Mark, GlobalTypes, entries, stores, outside
  <1>1. SettledNeverAbandoned'
    <2> SUFFICES ASSUME NEW k \in Keys, world'[k] = "settled"
                 PROVE  outbox'[k] \in {"pending", "confirmed"}
      BY DEF SettledNeverAbandoned
    <2>1. CASE AbandonOutbox(w)
      <3>1. world[k] = "settled" /\ k # Key(w)
        BY <2>1, <1>a, <1>e DEF Fate
      <3> QED BY <3>1, <2>1, <1>a, <1>e DEF SettledNeverAbandoned, Findable
    <2>2. CASE Kept
      <3>1. CASE world[k] = "settled"
        BY <3>1, <2>2, <1>a DEF SettledNeverAbandoned, Findable, Kept
      <3>2. CASE world[k] # "settled"
        <4>1. pc[w] = "adapter" /\ k = Key(w)
          BY <3>2, <1>b DEF WorldMoves
        <4> QED BY <4>1, <2>2, <1>a DEF Fate, Kept
      <3> QED BY <3>1, <3>2
    <2> QED BY <1>c, <2>1, <2>2
  <1>2. Caused'
    <2> SUFFICES ASSUME NEW k \in Keys, world'[k] # "none"
                 PROVE  \E m \in Manifests : KeyOf[m] = k /\ invoked'[m] > 0
      BY DEF Caused
    <2>1. CASE UNCHANGED <<world, invoked>>
      BY <2>1, <1>a DEF Caused
    <2>2. CASE pc[w] = "adapter" /\ invoked' = [invoked EXCEPT ![man[w]] = @ + 1] /\ k = Key(w)
      BY <2>2, <1>a, <1>d DEF Key, GlobalTypes
    <2>3. CASE pc[w] = "adapter" /\ invoked' = [invoked EXCEPT ![man[w]] = @ + 1]
               /\ world'[k] = world[k]
      BY <2>3, <1>a, <1>d DEF Caused, GlobalTypes
    <2> QED BY <2>1, <2>2, <2>3, <1>b DEF WorldMoves
  <1>3. ASSUME NEW v \in Workers PROVE Fate(v)'
    <2>a. v = w \/ Same(v)
      BY OthersUnchanged DEF Shaped
    <2>1. ASSUME pc'[v] \in {"lookup", "preconditions", "adapter"}
          PROVE  outbox'[Key(v)'] \in {"pending", "confirmed"}
      <3>1. /\ man'[v] = man[v] /\ Key(v)' = Key(v) /\ Key(v) \in Keys
            /\ \/ pc[v] \in {"lookup", "preconditions", "adapter"}
               \/ outbox'[Key(v)] = "pending"
        <4>1. man'[v] = man[v] /\ pc[v] # "idle"
          BY <2>1, <2>a, <1>b DEF PathOf, Same
        <4> QED BY <4>1, <2>1, <2>a, <1>b, CallData DEF PathOf, Same, Key
      <3>2. CASE pc[v] \in {"lookup", "preconditions", "adapter"} /\ Kept
        BY <3>1, <3>2, <1>a DEF Fate, Kept
      <3>3. CASE pc[v] \in {"lookup", "preconditions", "adapter"} /\ AbandonOutbox(w)
        BY <3>1, <3>3, <1>a, <1>e, OneIntent DEF Fate
      <3> QED BY <3>1, <3>2, <3>3, <1>c
    <2>2. ASSUME Doomed(v)'
          PROVE  /\ outbox'[Key(v)'] # Absent /\ ManifestOf[bound'[Key(v)']] = man'[v]
                 /\ stored'[man'[v]] \in ClaimedStates
                 /\ \A x \in Workers : Executing(x)' => man'[x] # man'[v]
                 /\ world'[Key(v)'] # "settled"
      <3>1. /\ man'[v] = man[v]
            /\ \/ Doomed(v)
               \/ v = w /\ pc[w] = "preconditions" /\ world' = world
               \/ v = w /\ pc[w] = "adapter" /\ world'[Key(w)] = "failed"
        BY <2>2, <2>a, <1>b DEF PathOf, Same, Doomed
      <3>2. man[v] \in Manifests /\ Key(v) \in Keys /\ Key(v)' = Key(v)
        <4>1. pc[v] # "idle"
          BY <3>1 DEF Doomed
        <4> QED BY <4>1, <3>1, CallData DEF Key
      <3>3. /\ outbox[Key(v)] # Absent /\ ManifestOf[bound[Key(v)]] = man[v]
            /\ stored[man[v]] \in ClaimedStates
        BY <3>1, <1>a DEF Fate, Recorded, Claims, Executing
      <3>4. \A x \in Workers : Executing(x)' => man'[x] # man'[v]
        <4> SUFFICES ASSUME NEW x \in Workers, Executing(x)', man'[x] = man[v] PROVE FALSE
          BY <3>1
        <4>1. Executing(x) /\ man[x] = man[v]
          BY <3>3, <1>b DEF ClaimKept
        <4>2. x = v
          BY <4>1, <3>1, <1>a DEF Fate, Claims, Executing
        <4> QED BY <4>2, <2>2 DEF Executing, Doomed
      <3>5. world'[Key(v)] # "settled"
        <4>1. CASE Doomed(v)
          <5>1. world[Key(v)] # "settled"
            BY <4>1, <1>a DEF Fate
          <5>2. pc[w] = "adapter" => Key(w) # Key(v)
            BY <4>1, OneIntent
          <5> QED BY <5>1, <5>2, <3>2, <1>b DEF WorldMoves
        <4>2. CASE v = w /\ pc[w] = "preconditions" /\ world' = world
          BY <4>2, NothingYet
        <4> QED BY <3>1, <4>1, <4>2
      <3> QED BY <3>1, <3>2, <3>3, <3>4, <3>5, <1>b DEF Binding, ClaimKept
    <2> QED BY <2>1, <2>2 DEF Fate
  <1> QED BY <1>1, <1>2, <1>3 DEF FateInv

LEMMA FateNext ==
    Shaped /\ ClaimInv /\ IntentInv /\ FateInv /\ [Next]_vars => FateInv'
  <1> SUFFICES ASSUME Findable, Shaped, Claims, IntentInv, FateInv, [Next]_vars PROVE FateInv'
    BY DEF ClaimInv, FateInv, Findable
  <1>1. CASE \E w \in Workers : Step(w) \/ Failure(w)
    BY <1>1, FateStep
  <1>2. CASE ~\E w \in Workers : Step(w) \/ Failure(w)
    <2>1. /\ UNCHANGED <<stored, outbox, bound, world, invoked>>
          /\ \A v \in Workers : Same(v) \/ pc'[v] \notin
                {"outbox", "lookup", "preconditions", "adapter",
                 "release_grant", "release_budget", "abandon"}
      <3>1. CASE \E w \in Workers : Begins(w)
        BY <3>1 DEF Begins, Prepare, Seal, Verify, Recover, Authorize, Commit, Revoke, Begin, Same,
           Shaped, TypeOK, LocalTypes, stores, entries, outside
      <3>2. CASE \E e \in Engines : Crash(e)
        BY <3>2 DEF Crash, Same, stores, entries, outside
      <3>3. CASE UNCHANGED vars
        BY <3>3 DEF vars, Same
      <3> QED BY <1>2, <3>1, <3>2, <3>3 DEF Next
    <2>2. SettledNeverAbandoned' /\ Caused'
      BY <2>1 DEF FateInv, SettledNeverAbandoned, Caused
    <2>3. ASSUME NEW v \in Workers PROVE Fate(v)'
      BY <2>1 DEF FateInv, Fate, Same, Doomed, Executing, Key
    <2> QED BY <2>2, <2>3 DEF FateInv
  <1> QED BY <1>1, <1>2

\* With a durable lifecycle store, the outbox and an adapter that raises when it does not
\* know: whatever calls race, crash or fail between giving up and mark_abandoned, an effect
\* the provider settled has an outbox entry that recover_ambiguous_commit() can confirm.
THEOREM SettledIsFindable == Spec => []SettledNeverAbandoned
  <1>1. Init => FateInv
    BY DEF Init, FateInv, SettledNeverAbandoned, Caused, Fate, Doomed
  <1>2. FateInv => SettledNeverAbandoned
    BY DEF FateInv, Findable, SettledNeverAbandoned
  <1> QED BY <1>1, <1>2, FateNext, AlwaysClaimed, AlwaysIntended, AlwaysShaped, PTL DEF Spec

(***************************************************************************)
(* What a step never does.                                                 *)
(***************************************************************************)
LEMMA LegalStep ==
    ASSUME Shaped, [Next]_vars, NEW m \in Manifests, stored'[m] # stored[m]
    PROVE  IsLegalTransition(DurableState(m), stored'[m])
  <1>1. PICK w \in Workers : Persist(w) \/ AuditRefused(w)
    BY DEF Next, Step, CommitStep, TransitionStep, RecoverStep, Failure, Begins, ReserveBudget,
       ReserveGrant, RecordPending, Lookup, ValidatePreconditions, AdapterCommit, SettleBudget,
       ConfirmOutbox, Finalize, ReleaseGrant, ReleaseBudget, AbandonOutbox, Move, PersistRefused,
       RevokeCheck, Probe, Backfill, RecoverGet, RecoverConfirm, RecoverState, StoreRaises, Prepare,
       Seal, Verify, Recover, Authorize, Commit, Revoke, Crash, stores, vars
  <1>2. /\ IsLegalTransition(from[w], tgt[w])
        /\ CompareAndSet(man[w], from[w])
        /\ stored' = [stored EXCEPT ![man[w]] = tgt[w]]
    BY <1>1 DEF Persist, AuditRefused, Advance, At, Shaped, CallShape, ShapeOf
  <1>3. man[w] = m /\ stored'[m] = tgt[w]
    BY <1>2 DEF Shaped, TypeOK, GlobalTypes
  <1> QED BY <1>2, <1>3 DEF CompareAndSet, DurableState

\* Threads and processes race on the compare-and-set, and the check against the transition
\* table was made on the state a call read before: the durable state of a manifest still
\* moves only along the table.
THEOREM DurableMovesAreLegal == Spec => DurableMovesLegal
  <1>1. Shaped /\ [Next]_vars =>
           [\A m \in Manifests :
              stored'[m] # stored[m] => IsLegalTransition(DurableState(m), stored'[m])]_vars
    BY LegalStep
  <1> QED BY <1>1, AlwaysShaped, PTL DEF Spec, DurableMovesLegal

\* Once revoke() marked a slot that no call holds, reserve() never hands it out again.
THEOREM RevokedGrantsStayUnused == Spec => RevokedStaysUnused
  <1>1. [Next]_vars =>
           [\A g \in revoked \ inflight : g \in revoked' /\ g \notin inflight']_vars
    <2> SUFFICES ASSUME Next, NEW g \in revoked \ inflight
                 PROVE  g \in revoked' /\ g \notin inflight'
      OBVIOUS
    <2>1. \/ UNCHANGED <<revoked, inflight>>
          \/ \E w \in Workers : ReserveGrant(w) \/ Finalize(w) \/ ReleaseGrant(w)
          \/ \E w \in Workers, h \in Grants : Revoke(w, h)
      BY DEF Next, Step, CommitStep, TransitionStep, RecoverStep, Failure, Begins, ReserveBudget,
         RecordPending, Lookup, ValidatePreconditions, AdapterCommit, SettleBudget, ConfirmOutbox,
         ReleaseBudget, AbandonOutbox, Move, Persist, PersistRefused, RevokeCheck, Probe, Backfill,
         RecoverGet, RecoverConfirm, RecoverState, AuditRefused, StoreRaises, Prepare, Seal, Verify,
         Recover, Authorize, Commit, Crash, stores, slots
    <2> QED BY <2>1 DEF ReserveGrant, Finalize, ReleaseGrant, Revoke, CanReserve
  <1> QED BY <1>1, PTL DEF Spec, RevokedStaysUnused

(***************************************************************************)
(* With a durable lifecycle store, CommitEngine implements EffectOnce.     *)
(* Durable moves claim or void a manifest, the adapter's invocation        *)
(* executes it, grant_store.commit and the backfill of recovery record an  *)
(* outcome; every other step of the engine is a stutter.                   *)
(***************************************************************************)
\* Where a legal move of the durable state takes the phase of a manifest.
LEMMA PhaseMoves ==
    ASSUME NEW s, NEW t, IsLegalTransition(s, t)
    PROVE  /\ s \in ClaimedStates => t \in ClaimedStates
           /\ s # "revoked"
           /\ "revoked" \notin ClaimedStates /\ Absent \notin ClaimedStates
           /\ "proposed" \notin ClaimedStates /\ Absent # "revoked" /\ "proposed" # "revoked"
  BY DEF IsLegalTransition, TRANSITIONS, ClaimedStates, Absent

LEMMA Stutter ==
    ASSUME UNCHANGED <<stored, invoked, world, outcome>>
    PROVE  UNCHANGED Abstract!vars
  BY DEF Abstract!vars, Phase

LEMMA ClaimRefines ==
    ASSUME Shaped, Claims, HasLifecycleStore, NEW w \in Workers, Persist(w) \/ AuditRefused(w)
    PROVE  [Abstract!Next]_(Abstract!vars)
  <1>a. PICK m \in Manifests : m = man[w]
    BY DEF Persist, AuditRefused, At, Shaped, CallShape, ShapeOf
  <1>1. /\ m \in Manifests /\ IsLegalTransition(from[w], tgt[w])
        /\ IF stored[m] = Absent THEN from[w] = "proposed" ELSE stored[m] = from[w]
        /\ stored' = [stored EXCEPT ![m] = tgt[w]]
        /\ UNCHANGED <<invoked, world, outcome>>
    BY <1>a DEF Persist, AuditRefused, Advance, CompareAndSet, At, Shaped, CallShape, ShapeOf, outside
  <1>2. /\ stored[m] # "revoked"
        /\ stored[m] \in ClaimedStates => tgt[w] \in ClaimedStates
        /\ "revoked" \notin ClaimedStates
    BY <1>1, PhaseMoves
  <1>3. \A n \in Manifests : n # m => Phase(n)' = Phase(n)
    BY <1>1 DEF Phase, Shaped, TypeOK, GlobalTypes
  <1>4. stored'[m] = tgt[w]
    BY <1>1 DEF Shaped, TypeOK, GlobalTypes
  <1>5. \/ Phase(m)' = Phase(m)
        \/ Phase(m) = "open" /\ Phase(m)' \in {"claimed", "void"}
    BY <1>1, <1>2, <1>4 DEF Phase
  <1>6. CASE Phase(m)' = Phase(m)
    BY <1>1, <1>3, <1>6 DEF Abstract!vars
  <1>7. CASE Phase(m) = "open" /\ Phase(m)' \in {"claimed", "void"}
    <2>1. [n \in Manifests |-> Phase(n)]'
             = [[n \in Manifests |-> Phase(n)] EXCEPT ![m] = Phase(m)']
      BY <1>1, <1>3
    <2>2. Abstract!Claim(m) \/ Abstract!Void(m)
      BY <2>1, <1>1, <1>7 DEF Abstract!Claim, Abstract!Void, Abstract!Become
    <2> QED BY <2>2, <1>1 DEF Abstract!Next
  <1> QED BY <1>5, <1>6, <1>7

LEMMA ExecuteRefines ==
    ASSUME Shaped, Claims, NEW w \in Workers, AdapterCommit(w)
    PROVE  Abstract!Next
  <1>a. PICK m \in Manifests : m = man[w]
    BY DEF AdapterCommit, At, Shaped, CallShape, ShapeOf
  <1>1. /\ m \in Manifests /\ KeyOf[m] \in Keys
        /\ invoked' = [invoked EXCEPT ![m] = @ + 1]
        /\ UNCHANGED <<stored, outcome>>
    BY <1>a, ConstantsAssumption DEF AdapterCommit, At, Shaped, CallShape, ShapeOf, stores
  <1>2. stored[m] \in ClaimedStates /\ invoked[m] = 0
    BY <1>a DEF AdapterCommit, At, Claims, Executing
  <1>3. Phase(m) = "claimed" /\ Phase(m)' = "executed"
    BY <1>1, <1>2 DEF Phase, Shaped, TypeOK, GlobalTypes
  <1>4. \A n \in Manifests : n # m => Phase(n)' = Phase(n)
    BY <1>1 DEF Phase, Shaped, TypeOK, GlobalTypes
  <1>5. \/ UNCHANGED world
        \/ /\ world[KeyOf[m]] = "none"
           /\ \E r \in {"settled", "failed"} : world' = [world EXCEPT ![KeyOf[m]] = r]
    BY <1>a, <1>1 DEF AdapterCommit, Key, Shaped, TypeOK, GlobalTypes, WorldState
  <1>6. [n \in Manifests |-> Phase(n)]'
           = [[n \in Manifests |-> Phase(n)] EXCEPT ![m] = "executed"]
    BY <1>1, <1>3, <1>4
  <1>7. Abstract!Execute(m)
    BY <1>1, <1>3, <1>5, <1>6 DEF Abstract!Execute, Abstract!Become
  <1> QED BY <1>1, <1>7 DEF Abstract!Next

LEMMA RecordRefines ==
    ASSUME Shaped, TruthInv, NEW w \in Workers, Finalize(w) \/ Backfill(w)
    PROVE  [Abstract!Next]_(Abstract!vars)
  <1>1. Key(w) \in Keys /\ world[Key(w)] = "settled"
    BY CallData DEF Finalize, Backfill, At, TruthInv, CallClaims
  <1>2. /\ outcome' = outcome \/ outcome' = outcome \cup {Key(w)}
        /\ UNCHANGED <<stored, invoked, world>>
    BY DEF Finalize, Backfill, outside
  <1>3. CASE outcome' = outcome
    BY <1>2, <1>3, Stutter
  <1>4. CASE outcome' = outcome \cup {Key(w)}
    <2>1. [n \in Manifests |-> Phase(n)]' = [n \in Manifests |-> Phase(n)]
      BY <1>2 DEF Phase
    <2>2. Abstract!Record(Key(w))
      BY <1>1, <1>2, <1>4, <2>1 DEF Abstract!Record
    <2> QED BY <1>1, <2>2 DEF Abstract!Next
  <1> QED BY <1>2, <1>3, <1>4

LEMMA NextRefines ==
    ASSUME HasLifecycleStore, Shaped, Claims, TruthInv, [Next]_vars
    PROVE  [Abstract!Next]_(Abstract!vars)
  <1>1. CASE \E w \in Workers : Persist(w) \/ AuditRefused(w)
    BY <1>1, ClaimRefines
  <1>2. CASE \E w \in Workers : AdapterCommit(w)
    BY <1>2, ExecuteRefines
  <1>3. CASE \E w \in Workers : Finalize(w) \/ Backfill(w)
    BY <1>3, RecordRefines
  <1>4. CASE UNCHANGED <<stored, invoked, world, outcome>>
    BY <1>4, Stutter
  <1>5. \/ \E w \in Workers : \/ Persist(w) \/ AuditRefused(w) \/ AdapterCommit(w)
                              \/ Finalize(w) \/ Backfill(w)
        \/ UNCHANGED <<stored, invoked, world, outcome>>
    BY DEF Next, Step, CommitStep, TransitionStep, RecoverStep, Failure, Begins, ReserveBudget,
       ReserveGrant, RecordPending, Lookup, ValidatePreconditions, SettleBudget, ConfirmOutbox,
       ReleaseGrant, ReleaseBudget, AbandonOutbox, Move, PersistRefused, RevokeCheck, Probe,
       RecoverGet, RecoverConfirm, RecoverState, StoreRaises, Prepare, Seal, Verify, Recover,
       Authorize, Commit, Revoke, Crash, stores, outside, vars
  <1> QED BY <1>1, <1>2, <1>3, <1>4, <1>5

\* With a durable lifecycle store, everything the engine's processes and threads do
\* together is a behaviour of EffectOnce: a manifest is claimed once, executed at most
\* once, never after it was voided, and outcomes are recorded only for settled effects.
THEOREM EngineImplementsEffectOnce ==
    ASSUME HasLifecycleStore PROVE Spec => ImplementsEffectOnce
  <1>1. Init => Abstract!Init
    BY DEF Init, Abstract!Init, Phase, ClaimedStates, Absent
  <1>2. Shaped /\ ClaimInv /\ TruthInv /\ [Next]_vars => [Abstract!Next]_(Abstract!vars)
    BY NextRefines DEF ClaimInv
  <1> QED BY <1>1, <1>2, AlwaysShaped, AlwaysClaimed, AlwaysTrue, PTL
          DEF Spec, ImplementsEffectOnce, Abstract!Spec

(***************************************************************************)
(* No reservation leaks while no store fails and no process dies.          *)
(*                                                                         *)
(* The budget: what a step does to the ledger is what it does to the share *)
(* of the call that takes it, and the shares of the other calls stay.      *)
(*                                                                         *)
(* The slot: the one way to leave commit() with the slot would be an       *)
(* outbox entry abandoned under a call that has invoked the adapter.  Only *)
(* a call that won the manifest's record comes that far: with a durable    *)
(* store by the compare-and-set, without one because a manifest has one    *)
(* home, the process whose caller prepared it.                             *)
(***************************************************************************)
Calm == ~StoresFail /\ crashes = 0

Share(w) == IF HoldingBudget(w) THEN Amount(w) ELSE 0

Sharers(e) == {w \in Workers : Eng(w) = e /\ HoldingBudget(w)}

LedgerInv ==
    Calm => \A e \in Engines :
        reserved[e] = SumFunctionOnSet([w \in Workers |-> Amount(w)], Sharers(e))

\* The call has won the record of its manifest and may still mark the outbox.
Winner(w) ==
    \/ pc[w] \in {"outbox", "lookup", "preconditions", "adapter", "settle_budget", "confirm",
                  "finalize", "abandon"}
    \/ pc[w] \in {"release_grant", "release_budget"} /\ fault[w] \in {"stale", "failed", "error"}
    \/ ~HasLifecycleStore /\ pc[w] = "persist" /\ tgt[w] = "committing"

\* It has won, and afterwards moves the record on.
Won(w) ==
    \/ Winner(w)
    \/ pc[w] \in {"move", "persist"} /\ tgt[w] \in {"committed", "failed"}

Taken(e, m) == IF HasLifecycleStore THEN stored[m] \in ClaimedStates ELSE mem[e][m] \in ClaimedStates

\* A call that undoes its commit says why.
Blamed(w) ==
    pc[w] \in {"release_grant", "release_budget"} =>
        fault[w] \in {"exhausted", "denied", "stale", "error", "failed"}

WinnerInv ==
    /\ \A w \in Workers : Blamed(w)
    /\ \A w \in Workers : Won(w) => Taken(Eng(w), man[w])
    /\ \A v, w \in Workers : Winner(v) /\ Winner(w) /\ man[v] = man[w] => v = w

\* Records without a history: the cache of a process that did not prepare the manifest.
Foreign == {Absent, "proposed", "revoked"}

Preparing(w) == pc[w] \in {"move", "persist"} /\ tgt[w] = "prepared"

\* Without a durable store a manifest lives in the process that prepared it.
HomeInv ==
    /\ \A m \in Manifests : \A d, e \in Engines :
          mem[d][m] \notin Foreign /\ mem[e][m] \notin Foreign => d = e
    /\ \A w \in Workers : pc[w] # "idle" => (Preparing(w) <=> held[man[w]] = "nothing")
    /\ \A v, w \in Workers : Preparing(v) /\ Preparing(w) /\ man[v] = man[w] => v = w
    /\ \A m \in Manifests, e \in Engines : held[m] = "nothing" /\ mem[e][m] \notin Foreign =>
          \E w \in Workers : pc[w] = "persist" /\ man[w] = m /\ Eng(w) = e
    /\ \A g \in issued : held[ManifestOf[g]] # "nothing"

\* The outbox entry of a call that passed record_pending is its own.
Entry(w) ==
    /\ pc[w] \in {"lookup", "preconditions", "adapter", "settle_budget", "confirm"} =>
          bound[Key(w)] = gr[w] /\ outbox[Key(w)] \in {"pending", "confirmed"}
    /\ Doomed(w) => bound[Key(w)] = gr[w] /\ outbox[Key(w)] # Absent

SlotsHeld == \A g \in inflight : \E w \in Workers : Holding(w) /\ gr[w] = g

SlotInv ==
    Calm => /\ WinnerInv
            /\ ~HasLifecycleStore => HomeInv
            /\ HasOutbox => \A w \in Workers : Entry(w)
            /\ SlotsHeld

\* A call that has a share has a grant.
LEMMA ShareType ==
    ASSUME Shaped, NEW w \in Workers
    PROVE  /\ HoldingBudget(w) => Amount(w) \in Int
           /\ Share(w) \in Int
  BY ConstantsAssumption DEF Shaped, CallShape, ShapeOf, HasGrant, GrantSteps, Share, HoldingBudget,
     Holding, Amount

LEMMA ShareTypeNext ==
    ASSUME Shaped', NEW w \in Workers
    PROVE  /\ HoldingBudget(w)' => Amount(w)' \in Int
           /\ Share(w)' \in Int
  BY ConstantsAssumption DEF Shaped, CallShape, ShapeOf, HasGrant, GrantSteps, Share, HoldingBudget,
     Holding, Amount

\* The ledger of its process gains what the share of the call w gains.
Balanced(w) ==
    \A e \in Engines :
        reserved'[e] = IF e = Eng(w) THEN reserved[e] - Share(w) + Share(w)' ELSE reserved[e]

LEMMA LedgerFrame ==
    ASSUME Shaped, NEW w \in Workers, reserved' = reserved, Share(w)' = Share(w)
    PROVE  Balanced(w)
  <1>1. Share(w) \in Int
    BY ShareType
  <1> QED BY <1>1 DEF Balanced, Shaped, TypeOK, GlobalTypes

LEMMA LedgerMoves ==
    ASSUME Shaped, ~StoresFail, NEW w \in Workers, Step(w) PROVE Balanced(w)
  <1>a. LocalTypes /\ ShapeOf(w) /\ Eng(w) \in Engines /\ reserved \in [Engines -> Int]
    BY ConstantsAssumption DEF Shaped, CallShape, TypeOK, GlobalTypes, Eng
  <1>b. Amount(w) \in Int \/ pc[w] \notin GrantSteps
    BY <1>a, ConstantsAssumption DEF ShapeOf, HasGrant, Amount
  <1>1. CASE ReserveBudget(w)
    <2>1. Share(w) = 0
      BY <1>1 DEF ReserveBudget, At, Share, HoldingBudget, Holding
    <2>2. CASE Goto(w, "reserve")
      <3>1. Share(w)' = Amount(w)
        BY <1>a, <2>2 DEF Share, HoldingBudget, Amount, Goto, LocalTypes
      <3>2. reserved' = [reserved EXCEPT ![Eng(w)] = @ + Amount(w)]
        BY <1>1, <1>a, <2>2 DEF ReserveBudget, Goto, Return, Begin, LocalTypes
      <3> QED BY <1>1, <1>a, <1>b, <2>1, <3>1, <3>2 DEF Balanced, ReserveBudget, At, GrantSteps
    <2>3. CASE ~Goto(w, "reserve")
      <3>1. Share(w)' = 0 /\ reserved' = reserved
        BY <1>1, <1>a, <2>3 DEF ReserveBudget, Share, HoldingBudget, Holding, Return, Begin, LocalTypes
      <3> QED BY <2>1, <3>1, LedgerFrame
    <2> QED BY <2>2, <2>3
  <1>2. CASE SettleBudget(w)
    <2>1. Share(w) = Amount(w) /\ Share(w)' = 0
      BY <1>2, <1>a DEF SettleBudget, At, Goto, Share, HoldingBudget, Holding, LocalTypes
    <2>2. reserved' = [reserved EXCEPT ![Eng(w)] = @ - Amount(w)]
      BY <1>2 DEF SettleBudget
    <2> QED BY <1>2, <1>a, <1>b, <2>1, <2>2 DEF Balanced, SettleBudget, At, GrantSteps
  <1>3. CASE ReleaseBudget(w)
    <2>1. Share(w) = Amount(w)
      BY <1>3 DEF ReleaseBudget, At, Share, HoldingBudget
    <2>2. Share(w)' = 0
      BY <1>3, <1>a DEF ReleaseBudget, Return, Begin, Goto, MoveTo, Share, HoldingBudget, Holding, LocalTypes
    <2>3. reserved' = [reserved EXCEPT ![Eng(w)] = @ - Amount(w)]
      BY <1>3 DEF ReleaseBudget
    <2> QED BY <1>3, <1>a, <1>b, <2>1, <2>2, <2>3 DEF Balanced, ReleaseBudget, At, GrantSteps
  <1>4. CASE ~ReserveBudget(w) /\ ~SettleBudget(w) /\ ~ReleaseBudget(w)
    <2>1. Share(w)' = Share(w) /\ reserved' = reserved
      <3> USE <1>a DEF LocalTypes, Share, HoldingBudget, Holding, Amount, At, Goto, Return, Begin,
          MoveTo, Undo, Raised, ledger
      <3>1. CASE ReserveGrant(w) BY <3>1 DEF ReserveGrant
      <3>2. CASE RecordPending(w) BY <3>2 DEF RecordPending
      <3>3. CASE Lookup(w) BY <3>3 DEF Lookup
      <3>4. CASE ValidatePreconditions(w) BY <3>4 DEF ValidatePreconditions
      <3>5. CASE AdapterCommit(w) BY <3>5 DEF AdapterCommit
      <3>6. CASE ConfirmOutbox(w) BY <3>6 DEF ConfirmOutbox
      <3>7. CASE Finalize(w) BY <3>7 DEF Finalize
      <3>8. CASE ReleaseGrant(w) BY <3>8 DEF ReleaseGrant
      <3>9. CASE AbandonOutbox(w) BY <3>9 DEF AbandonOutbox
      <3>10. CASE Move(w) BY <3>10 DEF Move
      <3>11. CASE Persist(w) BY <3>11 DEF Persist, Moved
      <3>12. CASE PersistRefused(w) BY <3>12 DEF PersistRefused
      <3>13. CASE RevokeCheck(w) BY <3>13 DEF RevokeCheck
      <3>14. CASE Probe(w) BY <3>14 DEF Probe
      <3>15. CASE Backfill(w) BY <3>15 DEF Backfill
      <3>16. CASE RecoverGet(w) BY <3>16 DEF RecoverGet
      <3>17. CASE RecoverConfirm(w) BY <3>17 DEF RecoverConfirm
      <3>18. CASE RecoverState(w) BY <3>18 DEF RecoverState
      <3> QED BY <1>4, <3>1, <3>2, <3>3, <3>4, <3>5, <3>6, <3>7, <3>8, <3>9, <3>10, <3>11,
          <3>12, <3>13, <3>14, <3>15, <3>16, <3>17, <3>18 DEF Step, CommitStep,
          TransitionStep, RecoverStep
    <2> QED BY <2>1, LedgerFrame
  <1> QED BY <1>1, <1>2, <1>3, <1>4

\* What the step of one call does to the sum of the shares.
LEMMA SharesMove ==
    ASSUME Shaped, Shaped', NEW w \in Workers, \A v \in Workers : v # w => Same(v),
           NEW e \in Engines
    PROVE  SumFunctionOnSet([v \in Workers |-> Amount(v)], Sharers(e))'
           = SumFunctionOnSet([v \in Workers |-> Amount(v)], Sharers(e))
             - (IF e = Eng(w) THEN Share(w) ELSE 0) + (IF e = Eng(w) THEN Share(w)' ELSE 0)
  <1> DEFINE f == [v \in Workers |-> Amount(v)]
             g == [v \in Workers |-> Amount(v)']
             A == Sharers(e)
             B == {v \in Workers : Eng(v) = e /\ HoldingBudget(v)'}
  <1>0. SumFunctionOnSet([v \in Workers |-> Amount(v)], Sharers(e))' = SumFunctionOnSet(g, B)
    BY DEF Sharers, Eng
  <1>1. IsFiniteSet(A) /\ IsFiniteSet(B)
    BY ConstantsAssumption, FS_Subset DEF Sharers
  <1>2. A \ {w} = B \ {w}
    BY DEF Same, Sharers, HoldingBudget, Holding
  <1>3. \A y \in A : f[y] \in Int
    BY ShareType DEF Sharers
  <1>4. \A y \in B : g[y] \in Int
    BY ShareTypeNext
  <1>5. \A y \in A \ {w} : g[y] = f[y]
    BY DEF Same, Sharers, Amount
  <1>6. /\ PartOf(w, f, A) = IF e = Eng(w) THEN Share(w) ELSE 0
        /\ PartOf(w, g, B) = IF e = Eng(w) THEN Share(w)' ELSE 0
    BY DEF Sharers, Share, PartOf
  <1> HIDE DEF f, g, A, B
  <1>7. DifferAt(w, f, A, g, B)
    BY <1>1, <1>2, <1>3, <1>4, <1>5 DEF DifferAt
  <1>8. SumFunctionOnSet(g, B) = SumFunctionOnSet(f, A) - PartOf(w, f, A) + PartOf(w, g, B)
    BY <1>7, SumChange
  <1> QED BY <1>0, <1>6, <1>8 DEF f, A

LEMMA LedgerStep ==
    ASSUME Shaped, Shaped', LedgerInv, NEW w \in Workers, Balanced(w), crashes' = crashes,
           \A v \in Workers : v # w => Same(v)
    PROVE  LedgerInv'
  <1> SUFFICES ASSUME Calm', NEW e \in Engines
               PROVE  reserved'[e] = SumFunctionOnSet([v \in Workers |-> Amount(v)], Sharers(e))'
    BY DEF LedgerInv
  <1>1. reserved[e] = SumFunctionOnSet([v \in Workers |-> Amount(v)], Sharers(e))
    BY DEF LedgerInv, Calm
  <1>2. reserved[e] \in Int /\ Share(w) \in Int /\ Share(w)' \in Int
    BY ShareType, ShareTypeNext DEF Shaped, TypeOK, GlobalTypes
  <1>3. reserved'[e] = IF e = Eng(w) THEN reserved[e] - Share(w) + Share(w)' ELSE reserved[e]
    BY DEF Balanced
  <1> QED BY <1>1, <1>2, <1>3, SharesMove

\* A call that begins holds nothing.
LEMMA BeginsHoldsNothing ==
    ASSUME Shaped, NEW w \in Workers, Begins(w)
    PROVE  /\ \A v \in Workers : v # w => Same(v)
           /\ UNCHANGED <<mem, reserved, consumed, stored, uses, inflight, outcome, outbox, bound,
                          world, invoked, held, issued, crashes>>
           /\ pc[w] = "idle" /\ ~Holding(w)' /\ ~HoldingBudget(w)'
           /\ pc'[w] \in {"move", "budget", "probe", "revoke_check"}
           /\ tgt'[w] \in {"prepared", "sealed", "authorized", "verified", Absent}
           /\ fault'[w] = "none"
  BY DEF Begins, Prepare, Seal, Verify, Recover, Authorize, Commit, Revoke, Begin, At, Same, Shaped,
     TypeOK, LocalTypes, Holding, HoldingBudget, ledger, slots, entries, stores, outside, Absent

LEMMA LedgerNext == Shaped /\ LedgerInv /\ [Next]_vars => LedgerInv'
  <1> SUFFICES ASSUME Shaped, LedgerInv, [Next]_vars PROVE LedgerInv'
    OBVIOUS
  <1>a. Shaped'
    BY ShapedStep
  <1>1. CASE StoresFail
    BY <1>1 DEF LedgerInv, Calm
  <1>2. ASSUME NEW w \in Workers, Step(w) \/ Failure(w), ~StoresFail PROVE LedgerInv'
    <2>1. Step(w)
      BY <1>2 DEF Failure, AuditRefused, StoreRaises
    <2>2. Balanced(w)
      BY <1>2, <2>1, LedgerMoves
    <2>3. crashes' = crashes
      BY <2>1 DEF Step, CommitStep, TransitionStep, RecoverStep, ReserveBudget, ReserveGrant,
         RecordPending, Lookup, ValidatePreconditions, AdapterCommit, SettleBudget, ConfirmOutbox,
         Finalize, ReleaseGrant, ReleaseBudget, AbandonOutbox, Move, Persist, PersistRefused,
         RevokeCheck, Probe, Backfill, RecoverGet, RecoverConfirm, RecoverState
    <2>4. \A v \in Workers : v # w => Same(v)
      BY <1>2, OthersUnchanged DEF Shaped
    <2> QED BY <1>a, <2>2, <2>3, <2>4, LedgerStep
  <1>3. ASSUME NEW w \in Workers, Begins(w) PROVE LedgerInv'
    <2>1. reserved' = reserved /\ Share(w)' = Share(w)
      BY <1>3, BeginsHoldsNothing DEF Share, HoldingBudget, Holding
    <2>2. Balanced(w)
      BY <2>1, LedgerFrame
    <2> QED BY <1>3, <1>a, <2>2, BeginsHoldsNothing, LedgerStep
  <1>4. CASE \E e \in Engines : Crash(e)
    <2>1. crashes' # 0
      BY <1>4 DEF Crash, Shaped, TypeOK, GlobalTypes
    <2> QED BY <2>1 DEF LedgerInv, Calm
  <1>5. CASE UNCHANGED vars
    BY <1>5 DEF vars, LedgerInv, Calm, Sharers, Amount, HoldingBudget, Holding
  <1> QED BY <1>1, <1>2, <1>3, <1>4, <1>5 DEF Next

LEMMA LedgerInit == Init => LedgerInv
  <1> SUFFICES ASSUME Init, NEW e \in Engines
               PROVE  reserved[e] = SumFunctionOnSet([w \in Workers |-> Amount(w)], Sharers(e))
    BY DEF LedgerInv
  <1>1. Sharers(e) = {}
    BY DEF Init, Sharers, HoldingBudget, Holding
  <1> QED BY <1>1, SumOfNone DEF Init

LEMMA AlwaysBalanced == Spec => []LedgerInv
  BY LedgerInit, LedgerNext, AlwaysShaped, PTL DEF Spec

(***************************************************************************)
(* The budget is charged per invocation: a call that has invoked the       *)
(* adapter owes its amount until it settles, and owes nothing for a        *)
(* replay.                                                                 *)
(***************************************************************************)
Threads(e) == {w \in Workers : Eng(w) = e}

Due(w) == IF pc[w] = "settle_budget" /\ fault[w] # "replay" THEN Amount(w) ELSE 0

Owed(e) == SumFunctionOnSet([w \in Workers |-> Due(w)], Threads(e))

Spent == SumFunction([m \in Manifests |-> invoked[m] * Cost[m]])

ChargeInv == \A e \in Engines : consumed[e] + Owed(e) <= Spent

LEMMA DueType ==
    ASSUME Shaped, NEW w \in Workers PROVE Due(w) \in Nat
  BY ConstantsAssumption DEF Shaped, CallShape, ShapeOf, HasGrant, GrantSteps, Due, Amount

LEMMA DueTypeNext ==
    ASSUME Shaped', NEW w \in Workers PROVE Due(w)' \in Nat
  BY ConstantsAssumption DEF Shaped, CallShape, ShapeOf, HasGrant, GrantSteps, Due, Amount

LEMMA OwedType ==
    ASSUME Shaped, NEW e \in Engines PROVE Owed(e) \in Int
  <1>1. IsFiniteSet(Threads(e)) /\ Threads(e) \subseteq Workers
    BY ConstantsAssumption, FS_Subset DEF Threads
  <1>2. \A w \in Threads(e) : [v \in Workers |-> Due(v)][w] \in Int
    BY <1>1, DueType
  <1> QED BY <1>1, <1>2, SumTakes DEF Owed

\* What the step of the call w does to what the calls of its process owe.
LEMMA OwedMoves ==
    ASSUME Shaped, Shaped', NEW w \in Workers, \A v \in Workers : v # w => Same(v),
           NEW e \in Engines
    PROVE  Owed(e)' = IF e = Eng(w) THEN Owed(e) - Due(w) + Due(w)' ELSE Owed(e)
  <1> DEFINE f == [v \in Workers |-> Due(v)]
             g == [v \in Workers |-> Due(v)']
             A == Threads(e)
  <1>0. Owed(e)' = SumFunctionOnSet(g, A) /\ Owed(e) = SumFunctionOnSet(f, A)
    BY DEF Owed, Threads, Eng
  <1>1. IsFiniteSet(A) /\ A \subseteq Workers
    BY ConstantsAssumption, FS_Subset DEF Threads
  <1>2. \A y \in A : f[y] \in Int /\ g[y] \in Int
    BY <1>1, DueType, DueTypeNext
  <1>3. \A y \in A \ {w} : g[y] = f[y]
    BY <1>1 DEF Same, Due, Amount
  <1>4. /\ PartOf(w, f, A) = IF e = Eng(w) THEN Due(w) ELSE 0
        /\ PartOf(w, g, A) = IF e = Eng(w) THEN Due(w)' ELSE 0
    BY DEF Threads, PartOf
  <1> HIDE DEF f, g, A
  <1>5. DifferAt(w, f, A, g, A)
    BY <1>1, <1>2, <1>3 DEF DifferAt
  <1>6. SumFunctionOnSet(g, A) = SumFunctionOnSet(f, A) - PartOf(w, f, A) + PartOf(w, g, A)
    BY <1>5, SumChange
  <1>7. Owed(e) \in Int
    BY OwedType
  <1> QED BY <1>0, <1>4, <1>6, <1>7

\* An invocation adds the cost of its manifest to what was spent.
LEMMA SpentMoves ==
    ASSUME Shaped, NEW m \in Manifests, invoked' = [invoked EXCEPT ![m] = @ + 1]
    PROVE  Spent' = Spent + Cost[m] /\ Spent \in Int
  <1> DEFINE f == [n \in Manifests |-> invoked[n] * Cost[n]]
             g == [n \in Manifests |-> invoked'[n] * Cost[n]]
  <1>0. Spent' = SumFunctionOnSet(g, Manifests) /\ Spent = SumFunctionOnSet(f, Manifests)
    BY DEF Spent, SumFunction
  <1>1. IsFiniteSet(Manifests) /\ invoked \in [Manifests -> Nat] /\ Cost \in [Manifests -> Nat]
    BY ConstantsAssumption DEF Shaped, TypeOK, GlobalTypes
  <1>2. \A n \in Manifests : invoked[n] * Cost[n] \in Int
    BY <1>1
  <1>3. (invoked[m] + 1) * Cost[m] = invoked[m] * Cost[m] + Cost[m]
    BY <1>1
  <1>4. \A n \in Manifests : f[n] \in Int /\ g[n] = IF n = m THEN f[n] + Cost[m] ELSE f[n]
    BY <1>1, <1>2, <1>3
  <1>5. \A n \in Manifests : g[n] \in Int
    BY <1>1, <1>4
  <1> HIDE DEF f, g
  <1>6. DifferAt(m, f, Manifests, g, Manifests)
    BY <1>1, <1>4, <1>5 DEF DifferAt
  <1>7. SumFunctionOnSet(g, Manifests)
            = SumFunctionOnSet(f, Manifests) - PartOf(m, f, Manifests) + PartOf(m, g, Manifests)
    BY <1>6, SumChange
  <1>8. SumFunctionOnSet(f, Manifests) \in Int
    BY <1>1, <1>4, SumTakes
  <1> QED BY <1>0, <1>1, <1>4, <1>7, <1>8 DEF PartOf

LEMMA SpentNat ==
    ASSUME Shaped PROVE Spent \in Nat
  <1> DEFINE f == [n \in Manifests |-> invoked[n] * Cost[n]]
  <1>1. IsFiniteSet(Manifests) /\ invoked \in [Manifests -> Nat] /\ Cost \in [Manifests -> Nat]
    BY ConstantsAssumption DEF Shaped, TypeOK, GlobalTypes
  <1>2. \A n \in Manifests : f[n] \in Nat
    BY <1>1
  <1>3. Spent = SumFunctionOnSet(f, Manifests)
    BY DEF Spent, SumFunction
  <1> HIDE DEF f
  <1>4. SumFunctionOnSet(f, {}) <= SumFunctionOnSet(f, Manifests)
    BY <1>1, <1>2, SumSubset
  <1>5. SumFunctionOnSet(f, Manifests) \in Int
    BY <1>1, <1>2, SumTakes
  <1> QED BY <1>3, <1>4, <1>5, SumOfNone

\* A step of the call w charges what w owed, and w comes to owe something only
\* by invoking the adapter.
Charged(w) ==
    \A e \in Engines : consumed'[e] = IF e = Eng(w) THEN consumed[e] + Due(w) ELSE consumed[e]

LEMMA ChargeMoves ==
    ASSUME Shaped, NEW w \in Workers, Step(w) \/ Failure(w), ~AdapterCommit(w)
    PROVE  invoked' = invoked /\ Due(w)' = 0 /\ Charged(w)
  <1>a. LocalTypes /\ ShapeOf(w) /\ Eng(w) \in Engines /\ consumed \in [Engines -> Int]
    BY ConstantsAssumption DEF Shaped, CallShape, TypeOK, GlobalTypes, Eng
  <1>1. CASE SettleBudget(w)
    <2>1. Due(w) = Charge(w)
      BY <1>1 DEF SettleBudget, At, Due, Charge
    <2>2. Due(w) \in Nat
      BY DueType
    <2>3. consumed' = [consumed EXCEPT ![Eng(w)] = @ + Due(w)] /\ invoked' = invoked
      BY <1>1, <2>1 DEF SettleBudget, outside
    <2>4. Due(w)' = 0
      BY <1>1, <1>a DEF SettleBudget, Goto, Due, LocalTypes
    <2> QED BY <1>a, <2>2, <2>3, <2>4 DEF Charged
  <1>2. CASE ~SettleBudget(w)
    <2>1. invoked' = invoked /\ consumed' = consumed /\ Due(w) = 0 /\ Due(w)' = 0
      <3> USE <1>a DEF LocalTypes, Due, At, Goto, Return, Begin, MoveTo, Undo, Raised, ledger, outside,
          StoreSteps
      <3>1. CASE ReserveBudget(w) BY <3>1 DEF ReserveBudget
      <3>2. CASE ReserveGrant(w) BY <3>2 DEF ReserveGrant
      <3>3. CASE RecordPending(w) BY <3>3 DEF RecordPending
      <3>4. CASE Lookup(w) BY <3>4 DEF Lookup
      <3>5. CASE ValidatePreconditions(w) BY <3>5 DEF ValidatePreconditions
      <3>6. CASE ConfirmOutbox(w) BY <3>6 DEF ConfirmOutbox
      <3>7. CASE Finalize(w) BY <3>7 DEF Finalize
      <3>8. CASE ReleaseGrant(w) BY <3>8 DEF ReleaseGrant
      <3>9. CASE ReleaseBudget(w) BY <3>9 DEF ReleaseBudget
      <3>10. CASE AbandonOutbox(w) BY <3>10 DEF AbandonOutbox
      <3>11. CASE Move(w) BY <3>11 DEF Move
      <3>12. CASE Persist(w) BY <3>12 DEF Persist, Moved
      <3>13. CASE PersistRefused(w) BY <3>13 DEF PersistRefused
      <3>14. CASE RevokeCheck(w) BY <3>14 DEF RevokeCheck
      <3>15. CASE Probe(w) BY <3>15 DEF Probe
      <3>16. CASE Backfill(w) BY <3>16 DEF Backfill
      <3>17. CASE RecoverGet(w) BY <3>17 DEF RecoverGet
      <3>18. CASE RecoverConfirm(w) BY <3>18 DEF RecoverConfirm
      <3>19. CASE RecoverState(w) BY <3>19 DEF RecoverState
      <3>20. CASE AuditRefused(w) BY <3>20 DEF AuditRefused
      <3>21. CASE StoreRaises(w) BY <3>21 DEF StoreRaises
      <3> QED BY <1>2, <3>1, <3>2, <3>3, <3>4, <3>5, <3>6, <3>7, <3>8, <3>9, <3>10, <3>11,
          <3>12, <3>13, <3>14, <3>15, <3>16, <3>17, <3>18, <3>19, <3>20, <3>21 DEF Step,
          CommitStep, TransitionStep, RecoverStep, Failure
    <2> QED BY <1>a, <2>1 DEF Charged
  <1> QED BY <1>1, <1>2

LEMMA ChargeStep ==
    ASSUME Shaped, Shaped', ChargeInv, NEW w \in Workers, Step(w) \/ Failure(w) PROVE ChargeInv'
  <1>a. \A v \in Workers : v # w => Same(v)
    BY OthersUnchanged DEF Shaped
  <1> SUFFICES ASSUME NEW e \in Engines PROVE consumed'[e] + Owed(e)' <= Spent'
    BY DEF ChargeInv
  <1>b. consumed[e] \in Int /\ Owed(e) \in Int /\ Due(w) \in Nat /\ Due(w)' \in Nat /\ Spent \in Nat
    BY OwedType, DueType, DueTypeNext, SpentNat DEF Shaped, TypeOK, GlobalTypes
  <1>c. consumed[e] + Owed(e) <= Spent
    BY DEF ChargeInv
  <1>d. Owed(e)' = IF e = Eng(w) THEN Owed(e) - Due(w) + Due(w)' ELSE Owed(e)
    BY <1>a, OwedMoves
  <1>1. CASE AdapterCommit(w)
    <2>1. /\ man[w] \in Manifests /\ invoked' = [invoked EXCEPT ![man[w]] = @ + 1]
          /\ consumed' = consumed /\ Due(w) = 0 /\ Amount(w) \in {0, Cost[man[w]]}
      BY <1>1 DEF AdapterCommit, At, Shaped, CallShape, ShapeOf, ledger, Due, Amount
    <2>2. Due(w)' \in {0, Amount(w)}
      BY <1>1 DEF AdapterCommit, Due, Amount, Goto, Undo, Shaped, TypeOK, LocalTypes
    <2>3. Spent' = Spent + Cost[man[w]] /\ Cost[man[w]] \in Nat
      BY <2>1, SpentMoves, ConstantsAssumption
    <2>4. Due(w)' <= Cost[man[w]]
      BY <2>1, <2>2, <2>3
    <2> QED BY <1>b, <1>c, <1>d, <2>1, <2>3, <2>4
  <1>2. CASE ~AdapterCommit(w)
    <2>1. invoked' = invoked /\ Due(w)' = 0 /\ Charged(w)
      BY <1>2, ChargeMoves
    <2>2. Spent' = Spent
      BY <2>1 DEF Spent
    <2>3. consumed'[e] = IF e = Eng(w) THEN consumed[e] + Due(w) ELSE consumed[e]
      BY <2>1 DEF Charged
    <2> QED BY <1>b, <1>c, <1>d, <2>1, <2>2, <2>3
  <1> QED BY <1>1, <1>2

\* A process that dies forgets what it charged and what its calls owed.
LEMMA ChargeCrash ==
    ASSUME Shaped, Shaped', ChargeInv, NEW d \in Engines, Crash(d) PROVE ChargeInv'
  <1> SUFFICES ASSUME NEW e \in Engines PROVE consumed'[e] + Owed(e)' <= Spent'
    BY DEF ChargeInv
  <1> DEFINE f == [v \in Workers |-> Due(v)]
             g == [v \in Workers |-> Due(v)']
  <1>0. Owed(e)' = SumFunctionOnSet(g, Threads(e)) /\ Owed(e) = SumFunctionOnSet(f, Threads(e))
    BY DEF Owed, Threads, Eng
  <1>1. IsFiniteSet(Threads(e)) /\ \A v \in Threads(e) : v \in Workers /\ EngineOf[v] = e
    BY ConstantsAssumption, FS_Subset DEF Threads, Eng
  <1>2. Spent' = Spent /\ Spent \in Nat
    BY SpentNat DEF Crash, outside, Spent
  <1>3. CASE e = d
    <2>1. \A v \in Threads(e) : g[v] = 0
      BY <1>1, <1>3 DEF Due, Crash
    <2> HIDE DEF g
    <2>2. SumFunctionOnSet(g, Threads(e)) = 0
      BY <1>1, <2>1, SumOfZeros
    <2>3. consumed'[e] = 0
      BY <1>3 DEF Crash, Shaped, TypeOK, GlobalTypes
    <2> QED BY <1>0, <1>2, <2>2, <2>3
  <1>4. CASE e # d
    <2>1. \A v \in Threads(e) : f[v] \in Int /\ g[v] = f[v]
      BY <1>1, <1>4, DueType DEF Due, Amount, Crash
    <2> HIDE DEF f, g
    <2>2. SumFunctionOnSet(f, Threads(e)) = SumFunctionOnSet(g, Threads(e))
      BY <1>1, <2>1, SumAgrees
    <2>3. consumed'[e] = consumed[e]
      BY <1>4 DEF Crash, Shaped, TypeOK, GlobalTypes
    <2> QED BY <1>0, <1>2, <2>2, <2>3 DEF ChargeInv
  <1> QED BY <1>3, <1>4

LEMMA ChargeNext == Shaped /\ ChargeInv /\ [Next]_vars => ChargeInv'
  <1> SUFFICES ASSUME Shaped, ChargeInv, [Next]_vars PROVE ChargeInv'
    OBVIOUS
  <1>a. Shaped'
    BY ShapedStep
  <1>1. CASE \E w \in Workers : Step(w) \/ Failure(w)
    BY <1>a, <1>1, ChargeStep
  <1>2. ASSUME NEW w \in Workers, Begins(w) PROVE ChargeInv'
    <2>1. /\ \A v \in Workers : v # w => Same(v)
          /\ consumed' = consumed /\ Spent' = Spent /\ Due(w) = 0 /\ Due(w)' = 0
      BY <1>2, BeginsHoldsNothing DEF Due, Spent
    <2>2. \A e \in Engines : Owed(e)' = IF e = Eng(w) THEN Owed(e) - Due(w) + Due(w)' ELSE Owed(e)
      BY <1>a, <2>1, OwedMoves
    <2>3. \A e \in Engines : Owed(e) \in Int
      BY OwedType
    <2> QED BY <2>1, <2>2, <2>3 DEF ChargeInv
  <1>3. CASE \E e \in Engines : Crash(e)
    BY <1>a, <1>3, ChargeCrash
  <1>4. CASE UNCHANGED vars
    BY <1>4 DEF vars, ChargeInv, Owed, Spent, Due, Amount
  <1> QED BY <1>1, <1>2, <1>3, <1>4 DEF Next

LEMMA ChargeInit == Init => ChargeInv
  <1> SUFFICES ASSUME Init, NEW e \in Engines PROVE consumed[e] + Owed(e) <= Spent
    BY DEF ChargeInv
  <1>1. Owed(e) = 0
    <2> DEFINE f == [w \in Workers |-> Due(w)]
    <2>1. IsFiniteSet(Threads(e)) /\ Threads(e) \subseteq Workers
      BY ConstantsAssumption, FS_Subset DEF Threads
    <2>2. \A w \in Threads(e) : f[w] = 0
      BY <2>1 DEF Init, Due
    <2>3. Owed(e) = SumFunctionOnSet(f, Threads(e))
      BY DEF Owed
    <2> HIDE DEF f
    <2> QED BY <2>1, <2>2, <2>3, SumOfZeros
  <1> QED BY <1>1, ShapedInit, SpentNat DEF Init

\* budget_ledger.commit, whatever replays, retries, failing stores and crashes there are:
\* what a process has consumed of the budget is at most what the invocations of the adapter
\* cost, so a replayed outcome is never charged and an invocation is never charged twice.
THEOREM ChargesAreForInvocations == Spec => []ChargedPerInvocation
  <1>1. Shaped /\ ChargeInv => ChargedPerInvocation
    <2> SUFFICES ASSUME Shaped, ChargeInv, NEW e \in Engines PROVE consumed[e] <= Spent
      BY DEF ChargedPerInvocation, Spent
    <2> DEFINE f == [w \in Workers |-> Due(w)]
    <2>1. IsFiniteSet(Threads(e)) /\ Threads(e) \subseteq Workers
      BY ConstantsAssumption, FS_Subset DEF Threads
    <2>2. \A w \in Threads(e) : f[w] \in Nat
      BY <2>1, DueType
    <2>3. Owed(e) = SumFunctionOnSet(f, Threads(e))
      BY DEF Owed
    <2> HIDE DEF f
    <2>4. SumFunctionOnSet(f, {}) <= Owed(e)
      BY <2>1, <2>2, <2>3, SumSubset
    <2>5. Owed(e) \in Int /\ Spent \in Nat /\ consumed[e] \in Int
      BY OwedType, SpentNat DEF Shaped, TypeOK, GlobalTypes
    <2> QED BY <2>4, <2>5, SumOfNone DEF ChargeInv
  <1> QED BY <1>1, ChargeInit, ChargeNext, AlwaysShaped, PTL DEF Spec

(***************************************************************************)
(* The slots.                                                              *)
(***************************************************************************)

\* The step in which the call w wins the record of its manifest.
Entering(w) ==
    /\ tgt[w] = "committing"
    /\ \/ HasLifecycleStore /\ Persist(w)
       \/ /\ ~HasLifecycleStore /\ Move(w)
          /\ IsLegalTransition(GetRecord(Eng(w), man[w]), "committing")

LEMMA WinnerPath ==
    ASSUME Shaped, NEW w \in Workers, Step(w), Blamed(w)
    PROVE  /\ Blamed(w)'
           /\ Winner(w)' => man'[w] = man[w] /\ (Winner(w) \/ Entering(w))
           /\ Won(w)' => man'[w] = man[w] /\ (Won(w) \/ Entering(w))
  <1>a. LocalTypes /\ ShapeOf(w)
    BY DEF Shaped, CallShape, TypeOK
  <1> USE <1>a DEF Blamed, Winner, Won, Entering, LocalTypes, At, Goto, Return, Begin, MoveTo, Undo, Raised
  <1>1. CASE ReserveBudget(w) BY <1>1 DEF ReserveBudget
  <1>2. CASE ReserveGrant(w) BY <1>2 DEF ReserveGrant
  <1>3. CASE RecordPending(w) BY <1>3 DEF RecordPending
  <1>4. CASE Lookup(w) BY <1>4 DEF Lookup
  <1>5. CASE ValidatePreconditions(w) BY <1>5 DEF ValidatePreconditions
  <1>6. CASE AdapterCommit(w) BY <1>6 DEF AdapterCommit
  <1>7. CASE SettleBudget(w) BY <1>7 DEF SettleBudget
  <1>8. CASE ConfirmOutbox(w) BY <1>8 DEF ConfirmOutbox
  <1>9. CASE Finalize(w) BY <1>9 DEF Finalize
  <1>10. CASE ReleaseGrant(w) BY <1>10 DEF ReleaseGrant
  <1>11. CASE ReleaseBudget(w) BY <1>11 DEF ReleaseBudget, Abandoned
  <1>12. CASE AbandonOutbox(w) BY <1>12 DEF AbandonOutbox
  <1>13. CASE Move(w) BY <1>13 DEF Move
  <1>14. CASE Persist(w) BY <1>14 DEF Persist, Moved
  <1>15. CASE PersistRefused(w) BY <1>15 DEF PersistRefused
  <1>16. CASE RevokeCheck(w) BY <1>16 DEF RevokeCheck
  <1>17. CASE Probe(w) BY <1>17 DEF Probe
  <1>18. CASE Backfill(w) BY <1>18 DEF Backfill
  <1>19. CASE RecoverGet(w) BY <1>19 DEF RecoverGet
  <1>20. CASE RecoverConfirm(w) BY <1>20 DEF RecoverConfirm
  <1>21. CASE RecoverState(w) BY <1>21 DEF RecoverState
  <1> QED BY <1>1, <1>2, <1>3, <1>4, <1>5, <1>6, <1>7, <1>8, <1>9, <1>10, <1>11, <1>12, <1>13,
      <1>14, <1>15, <1>16, <1>17, <1>18, <1>19, <1>20, <1>21 DEF Step, CommitStep,
      TransitionStep, RecoverStep

\* A record that was won stays won.
LEMMA TakenStays ==
    ASSUME Shaped, NEW w \in Workers, Step(w), NEW e \in Engines, NEW m \in Manifests, Taken(e, m)
    PROVE  Taken(e, m)'
  <1>a. LocalTypes /\ GlobalTypes /\ ShapeOf(w) /\ Eng(w) \in Engines
    BY ConstantsAssumption DEF Shaped, CallShape, TypeOK, Eng
  <1>b. Absent \notin ClaimedStates /\ "proposed" \notin ClaimedStates
    BY DEF ClaimedStates, Absent
  <1>1. CASE Persist(w)
    <2>1. man[w] \in Manifests /\ IsLegalTransition(from[w], tgt[w])
      BY <1>1, <1>a DEF Persist, At, ShapeOf
    <2>2. CASE HasLifecycleStore
      <3>1. /\ stored' = [stored EXCEPT ![man[w]] = tgt[w]]
            /\ IF stored[man[w]] = Absent THEN from[w] = "proposed" ELSE stored[man[w]] = from[w]
        BY <1>1, <2>2 DEF Persist, Advance, CompareAndSet
      <3>2. stored[man[w]] \in ClaimedStates => tgt[w] \in ClaimedStates
        BY <1>b, <2>1, <3>1, ClaimedClosed
      <3> QED BY <1>a, <2>1, <2>2, <3>1, <3>2 DEF Taken, GlobalTypes
    <2>3. CASE ~HasLifecycleStore
      BY <1>1, <2>3 DEF Persist, Taken
    <2> QED BY <2>2, <2>3
  <1>2. CASE Move(w) \/ RevokeCheck(w) \/ RecoverState(w)
    <2> DEFINE n == man[w]
               current == GetRecord(Eng(w), n)
    <2>1. n \in Manifests /\ stored' = stored
      BY <1>2, <1>a DEF Move, RevokeCheck, RecoverState, At, ShapeOf, stores
    <2>2. \E s : /\ mem' = [mem EXCEPT ![Eng(w)][n] = s]
                 /\ s = current \/ IsLegalTransition(current, s)
      BY <1>2 DEF Move, RevokeCheck, RecoverState
    <2>3. CASE HasLifecycleStore
      BY <2>1, <2>3 DEF Taken
    <2>4. CASE ~HasLifecycleStore
      <3>1. PICK s : mem' = [mem EXCEPT ![Eng(w)][n] = s] /\ (s = current \/ IsLegalTransition(current, s))
        BY <2>2
      <3>2. mem[Eng(w)][n] \in ClaimedStates => s \in ClaimedStates
        BY <1>b, <2>4, <3>1, ClaimedClosed DEF GetRecord
      <3> HIDE DEF n, current
      <3> QED BY <1>a, <2>1, <2>4, <3>1, <3>2 DEF Taken, GlobalTypes
    <2> QED BY <2>3, <2>4
  <1>3. CASE ~Persist(w) /\ ~Move(w) /\ ~RevokeCheck(w) /\ ~RecoverState(w)
    <2>1. stored' = stored /\ (mem' = mem \/ PersistRefused(w))
      BY <1>3 DEF Step, CommitStep, TransitionStep, RecoverStep, ReserveBudget, ReserveGrant,
         RecordPending, Lookup, ValidatePreconditions, AdapterCommit, SettleBudget, ConfirmOutbox,
         Finalize, ReleaseGrant, ReleaseBudget, AbandonOutbox, PersistRefused, Probe, Backfill,
         RecoverGet, RecoverConfirm, stores
    <2>2. PersistRefused(w) => HasLifecycleStore
      BY DEF PersistRefused
    <2> QED BY <2>1, <2>2 DEF Taken
  <1> QED BY <1>1, <1>2, <1>3

LEMMA Enters ==
    ASSUME Shaped, WinnerInv, ~HasLifecycleStore => HomeInv, NEW w \in Workers, Step(w), Entering(w)
    PROVE  /\ man'[w] = man[w] => Taken(Eng(w), man[w])'
           /\ \A v \in Workers : Winner(v) => man[v] # man[w]
  <1>a. GlobalTypes /\ ShapeOf(w) /\ Eng(w) \in Engines
    BY ConstantsAssumption DEF Shaped, CallShape, TypeOK, Eng
  <1>b. "committing" \in ClaimedStates /\ "authorized" \notin ClaimedStates /\ ClaimedStates \cap Foreign = {}
        /\ "authorized" \notin Foreign /\ "proposed" # "authorized" /\ Absent # "authorized"
    BY DEF ClaimedStates, Foreign, Absent
  <1>c. \A s : IsLegalTransition(s, "committing") => s = "authorized"
    BY DEF IsLegalTransition, TRANSITIONS
  <1>d. \A v \in Workers : Winner(v) => Taken(Eng(v), man[v]) /\ Eng(v) \in Engines
    BY ConstantsAssumption DEF WinnerInv, Won, Eng
  <1>1. CASE HasLifecycleStore
    <2>1. /\ man[w] \in Manifests /\ from[w] = "authorized"
          /\ stored' = [stored EXCEPT ![man[w]] = "committing"]
          /\ stored[man[w]] = "authorized"
      BY <1>1, <1>a, <1>b, <1>c DEF Entering, Persist, At, Advance, CompareAndSet, ShapeOf
    <2>2. man'[w] = man[w] => Taken(Eng(w), man[w])'
      BY <1>1, <1>a, <1>b, <2>1 DEF Taken, GlobalTypes
    <2>3. \A v \in Workers : Winner(v) => man[v] # man[w]
      BY <1>1, <1>b, <1>d, <2>1 DEF Taken
    <2> QED BY <2>2, <2>3
  <1>2. CASE ~HasLifecycleStore
    <2>1. /\ man[w] \in Manifests /\ mem[Eng(w)][man[w]] = "authorized"
          /\ mem' = [mem EXCEPT ![Eng(w)][man[w]] = "committing"]
      BY <1>2, <1>a, <1>b, <1>c DEF Entering, Move, At, ShapeOf, GetRecord
    <2>2. mem'[Eng(w)][man[w]] = "committing"
      BY <1>a, <2>1 DEF GlobalTypes
    <2>3. \A e \in Engines : mem[e][man[w]] \notin Foreign => e = Eng(w)
      BY <1>2, <1>a, <1>b, <2>1 DEF HomeInv
    <2>4. man'[w] = man[w] => Taken(Eng(w), man[w])'
      BY <1>2, <1>b, <2>2 DEF Taken, Eng
    <2>5. ASSUME NEW v \in Workers, Winner(v), man[v] = man[w] PROVE FALSE
      <3>1. mem[Eng(v)][man[w]] \in ClaimedStates /\ Eng(v) \in Engines
        BY <1>2, <1>d, <2>5 DEF Taken
      <3>2. Eng(v) = Eng(w)
        BY <1>b, <2>3, <3>1
      <3> QED BY <1>b, <2>1, <3>1, <3>2
    <2> QED BY <2>4, <2>5
  <1> QED BY <1>1, <1>2

LEMMA WinnerStep ==
    ASSUME Shaped, WinnerInv, ~HasLifecycleStore => HomeInv, NEW w \in Workers, Step(w)
    PROVE  WinnerInv'
  <1>a. \A v \in Workers : v # w => Same(v)
    BY OthersUnchanged DEF Shaped
  <1>b. \A v \in Workers : pc[v] # "idle" => man[v] \in Manifests /\ Eng(v) \in Engines
    BY ConstantsAssumption DEF Shaped, CallShape, ShapeOf, Eng
  <1>c. \A v \in Workers : Won(v) => pc[v] # "idle"
    BY DEF Won, Winner
  <1>d. \A v \in Workers : v # w => /\ Blamed(v)' <=> Blamed(v)
                                    /\ Winner(v)' <=> Winner(v)
                                    /\ Won(v)' <=> Won(v)
                                    /\ man'[v] = man[v]
    BY <1>a DEF Same, Blamed, Winner, Won
  <1>e. /\ Blamed(w)'
        /\ Winner(w)' => man'[w] = man[w] /\ (Winner(w) \/ Entering(w))
        /\ Won(w)' => man'[w] = man[w] /\ (Won(w) \/ Entering(w))
    BY WinnerPath DEF WinnerInv
  <1>f. Entering(w) => /\ man'[w] = man[w] => Taken(Eng(w), man[w])'
                       /\ \A v \in Workers : Winner(v) => man[v] # man[w]
    BY Enters
  <1>1. ASSUME NEW v \in Workers, Won(v)' PROVE Taken(Eng(v), man[v])'
    <2>1. CASE Won(v)
      <3>1. Taken(Eng(v), man[v])
        BY <2>1 DEF WinnerInv
      <3>2. PICK e \in Engines, m \in Manifests : e = Eng(v) /\ m = man[v]
        BY <1>b, <1>c, <2>1
      <3>3. Taken(e, m)'
        BY <3>1, <3>2, TakenStays
      <3> QED BY <1>1, <1>d, <1>e, <3>2, <3>3 DEF Taken, Eng
    <2>2. CASE ~Won(v)
      <3>1. v = w /\ man'[w] = man[w] /\ Entering(w)
        BY <1>1, <1>d, <1>e, <2>2
      <3> QED BY <1>f, <3>1 DEF Taken, Eng
    <2> QED BY <2>1, <2>2
  <1>2. ASSUME NEW u \in Workers, NEW v \in Workers, Winner(u)', Winner(v)', man'[u] = man'[v]
        PROVE  u = v
    BY <1>2, <1>d, <1>e, <1>f DEF WinnerInv
  <1> QED BY <1>1, <1>2, <1>d, <1>e DEF WinnerInv

\* The step of a call goes on with its manifest, or ends the call; only Persist
\* hands something to a caller.
LEMMA CallGoesOn ==
    ASSUME Shaped, NEW w \in Workers, Step(w)
    PROVE  /\ pc[w] # "idle"
           /\ pc'[w] # "idle" => man'[w] = man[w] /\ (Preparing(w)' <=> Preparing(w))
           /\ pc'[w] = "idle" => ~Preparing(w)'
           /\ Persist(w) \/ (held' = held /\ issued' = issued)
  <1>a. LocalTypes
    BY DEF Shaped, TypeOK
  <1> USE <1>a DEF Preparing, LocalTypes, At, Goto, Return, Begin, MoveTo, Undo, Raised, outside
  <1>1. CASE ReserveBudget(w) BY <1>1 DEF ReserveBudget
  <1>2. CASE ReserveGrant(w) BY <1>2 DEF ReserveGrant
  <1>3. CASE RecordPending(w) BY <1>3 DEF RecordPending
  <1>4. CASE Lookup(w) BY <1>4 DEF Lookup
  <1>5. CASE ValidatePreconditions(w) BY <1>5 DEF ValidatePreconditions
  <1>6. CASE AdapterCommit(w) BY <1>6 DEF AdapterCommit
  <1>7. CASE SettleBudget(w) BY <1>7 DEF SettleBudget
  <1>8. CASE ConfirmOutbox(w) BY <1>8 DEF ConfirmOutbox
  <1>9. CASE Finalize(w) BY <1>9 DEF Finalize
  <1>10. CASE ReleaseGrant(w) BY <1>10 DEF ReleaseGrant
  <1>11. CASE ReleaseBudget(w) BY <1>11 DEF ReleaseBudget
  <1>12. CASE AbandonOutbox(w) BY <1>12 DEF AbandonOutbox
  <1>13. CASE Move(w) BY <1>13 DEF Move
  <1>14. CASE Persist(w) BY <1>14 DEF Persist, Moved
  <1>15. CASE PersistRefused(w) BY <1>15 DEF PersistRefused
  <1>16. CASE RevokeCheck(w) BY <1>16 DEF RevokeCheck
  <1>17. CASE Probe(w) BY <1>17 DEF Probe
  <1>18. CASE Backfill(w) BY <1>18 DEF Backfill
  <1>19. CASE RecoverGet(w) BY <1>19 DEF RecoverGet
  <1>20. CASE RecoverConfirm(w) BY <1>20 DEF RecoverConfirm
  <1>21. CASE RecoverState(w) BY <1>21 DEF RecoverState
  <1> QED BY <1>1, <1>2, <1>3, <1>4, <1>5, <1>6, <1>7, <1>8, <1>9, <1>10, <1>11, <1>12, <1>13,
      <1>14, <1>15, <1>16, <1>17, <1>18, <1>19, <1>20, <1>21 DEF Step, CommitStep,
      TransitionStep, RecoverStep

\* The step writes s to the cached record: the state it read, or its target.
Rewrite(w, s) ==
    /\ pc[w] \in {"move", "revoke_check", "recover_state"}
    /\ mem' = [mem EXCEPT ![Eng(w)][man[w]] = s]
    /\ \/ s = GetRecord(Eng(w), man[w])
       \/ /\ Move(w) /\ s = tgt[w] /\ pc'[w] = "persist"
          /\ IsLegalTransition(GetRecord(Eng(w), man[w]), s)

Rewrites(w) == \E s : Rewrite(w, s)

\* What a step does to the cached records, without a durable store.
LEMMA RecordMoves ==
    ASSUME Shaped, ~HasLifecycleStore, NEW w \in Workers, Step(w)
    PROVE  (mem' = mem /\ (pc[w] = "persist" => Persist(w))) \/ Rewrites(w)
  <1>a. LocalTypes
    BY DEF Shaped, TypeOK
  <1>1. CASE Move(w)
    BY <1>1, <1>a DEF Move, At, LocalTypes, Rewrites, Rewrite
  <1>2. CASE RevokeCheck(w)
    <2>1. /\ pc[w] = "revoke_check"
          /\ mem' = [mem EXCEPT ![Eng(w)][man[w]] = GetRecord(Eng(w), man[w])]
      BY <1>2 DEF RevokeCheck, At
    <2>2. Rewrites(w)
      <3> SUFFICES \E s : Rewrite(w, s)
        BY DEF Rewrites
      <3> WITNESS GetRecord(Eng(w), man[w])
      <3> QED BY <2>1 DEF Rewrite
    <2> QED BY <2>2
  <1>3. CASE RecoverState(w)
    <2>1. /\ pc[w] = "recover_state"
          /\ mem' = [mem EXCEPT ![Eng(w)][man[w]] = GetRecord(Eng(w), man[w])]
      BY <1>3 DEF RecoverState, At
    <2>2. Rewrites(w)
      <3> SUFFICES \E s : Rewrite(w, s)
        BY DEF Rewrites
      <3> WITNESS GetRecord(Eng(w), man[w])
      <3> QED BY <2>1 DEF Rewrite
    <2> QED BY <2>2
  <1>4. CASE ~Move(w) /\ ~RevokeCheck(w) /\ ~RecoverState(w)
    BY <1>4 DEF Step, CommitStep, TransitionStep, RecoverStep, ReserveBudget, ReserveGrant,
         RecordPending, Lookup, ValidatePreconditions, AdapterCommit, SettleBudget, ConfirmOutbox,
         Finalize, ReleaseGrant, ReleaseBudget, AbandonOutbox, Persist, PersistRefused, Probe,
         Backfill, RecoverGet, RecoverConfirm, At
  <1> QED BY <1>1, <1>2, <1>3, <1>4

LEMMA HomeStep ==
    ASSUME Shaped, ~HasLifecycleStore, WinnerInv, HomeInv, NEW w \in Workers, Step(w)
    PROVE  HomeInv'
  <1>a. \A v \in Workers : v # w => Same(v)
    BY OthersUnchanged DEF Shaped
  <1>b. /\ mem \in [Engines -> [Manifests -> LifecycleState \cup {Absent}]]
        /\ held \in [Manifests -> Held] /\ issued \subseteq Grants
        /\ Eng(w) \in Engines /\ man[w] \in Manifests /\ pc[w] # "idle" /\ ShapeOf(w)
    BY ConstantsAssumption, CallGoesOn DEF Shaped, CallShape, ShapeOf, TypeOK, GlobalTypes, Eng
  <1>c. /\ pc'[w] # "idle" => man'[w] = man[w] /\ (Preparing(w)' <=> Preparing(w))
        /\ pc'[w] = "idle" => ~Preparing(w)'
        /\ Persist(w) \/ (held' = held /\ issued' = issued)
    BY CallGoesOn
  <1>d. \A v \in Workers : v # w => (Preparing(v)' <=> Preparing(v)) /\ man'[v] = man[v] /\ pc'[v] = pc[v]
    BY <1>a DEF Same, Preparing
  <1>e. \A v \in Workers : pc[v] # "idle" => man[v] \in Manifests
    BY DEF Shaped, CallShape, ShapeOf
  <1>f. Absent \in Foreign /\ "proposed" \in Foreign /\ "revoked" \in Foreign /\ ClaimedStates \cap Foreign = {}
        /\ "prepared" \notin Foreign
    BY DEF Foreign, ClaimedStates, Absent
  <1>1. CASE Persist(w)
    <2>1. mem' = mem
      BY <1>1 DEF Persist
    <2>2. /\ pc[w] = "persist"
          /\ pc'[w] # "idle" => tgt[w] = "committing"
          /\ \E h \in Held \ {"nothing"} : held' = held \/ held' = [held EXCEPT ![man[w]] = h]
          /\ Preparing(w) => held'[man[w]] # "nothing"
          /\ issued' = issued \/ (issued' = issued \cup {gr[w]} /\ tgt[w] = "authorized")
      <3>1. ShapeOf(w) /\ LocalTypes
        BY DEF Shaped, CallShape, TypeOK
      <3>2. Gives("prepared") = "manifest" /\ Gives("sealed") = "sealed"
            /\ Gives("committed") = "result" /\ Gives("failed") = "result"
        BY DEF Gives
      <3>3. fault[w] = "failed" => tgt[w] = "failed"
        BY <1>1, <3>1 DEF ShapeOf, Persist, At
      <3> QED BY <1>1, <1>b, <3>1, <3>2, <3>3
          DEF Persist, Moved, At, Goto, Return, Begin, LocalTypes, Held, Preparing
    <2>3. \A m \in Manifests : held'[m] = "nothing" => held[m] = "nothing"
      BY <1>b, <2>2
    <2>4. pc'[w] # "idle" => ~Preparing(w)
      BY <2>2 DEF Preparing
    <2>5. \A m \in Manifests : held[m] = "nothing" /\ held'[m] # "nothing" => m = man[w]
      BY <1>b, <2>2
    <2>6. \A v \in Workers : v # w /\ Preparing(v) => ~Preparing(w) \/ man[v] # man[w]
      BY DEF HomeInv
    <2>7. \A v \in Workers : v # w /\ Preparing(v) => held[man[v]] = "nothing"
      BY DEF HomeInv, Preparing
    <2>8. \A v \in Workers : v # w /\ pc[v] # "idle" => (Preparing(v) <=> held'[man[v]] = "nothing")
      <3> SUFFICES ASSUME NEW v \in Workers, v # w, pc[v] # "idle"
                   PROVE  Preparing(v) <=> held'[man[v]] = "nothing"
        OBVIOUS
      <3>1. Preparing(v) <=> held[man[v]] = "nothing"
        BY DEF HomeInv
      <3>2. Preparing(w) <=> held[man[w]] = "nothing"
        BY <1>b DEF HomeInv
      <3> QED BY <1>e, <2>3, <2>5, <2>6, <3>1, <3>2
    <2>9. pc'[w] # "idle" => ~Preparing(w)' /\ held'[man[w]] # "nothing"
      <3>1. Preparing(w) <=> held[man[w]] = "nothing"
        BY <1>b DEF HomeInv
      <3> QED BY <1>b, <1>c, <2>3, <2>4, <3>1
    <2>10. \A v \in Workers : pc'[v] # "idle" => (Preparing(v)' <=> held'[man'[v]] = "nothing")
      BY <1>c, <1>d, <2>8, <2>9
    <2>11. \A u, v \in Workers : Preparing(u)' /\ Preparing(v)' /\ man'[u] = man'[v] => u = v
      <3>1. \A v \in Workers : Preparing(v)' => Preparing(v) /\ man'[v] = man[v]
        BY <1>c, <1>d
      <3> QED BY <3>1 DEF HomeInv
    <2>12. ASSUME NEW m \in Manifests, NEW e \in Engines, held'[m] = "nothing", mem'[e][m] \notin Foreign
           PROVE  \E v \in Workers : pc'[v] = "persist" /\ man'[v] = m /\ Eng(v) = e
      <3>1. held[m] = "nothing" /\ mem[e][m] \notin Foreign
        BY <2>1, <2>3, <2>12
      <3>2. PICK v \in Workers : pc[v] = "persist" /\ man[v] = m /\ Eng(v) = e
        BY <3>1 DEF HomeInv
      <3>3. v # w
        <4>1. Preparing(w) <=> held[man[w]] = "nothing"
          BY <1>b DEF HomeInv
        <4> QED BY <2>2, <2>12, <3>1, <3>2, <4>1
      <3> QED BY <1>d, <3>2, <3>3
    <2>13. \A g \in issued' : held'[ManifestOf[g]] # "nothing"
      <3>1. \A g \in issued : held'[ManifestOf[g]] # "nothing"
        BY <1>b, <2>3, ConstantsAssumption DEF HomeInv
      <3>2. tgt[w] = "authorized" => held'[ManifestOf[gr[w]]] # "nothing"
        <4>1. tgt[w] = "authorized" => ManifestOf[gr[w]] = man[w] /\ ~Preparing(w)
          BY <1>b, <2>2 DEF ShapeOf, HasGrant, Preparing
        <4>2. Preparing(w) <=> held[man[w]] = "nothing"
          BY <1>b DEF HomeInv
        <4> QED BY <1>b, <2>3, <4>1, <4>2
      <3> QED BY <2>2, <3>1, <3>2
    <2>14. \A m \in Manifests : \A d, e \in Engines :
              mem'[d][m] \notin Foreign /\ mem'[e][m] \notin Foreign => d = e
      BY <2>1 DEF HomeInv
    <2> QED BY <2>10, <2>11, <2>12, <2>13, <2>14 DEF HomeInv, Eng
  <1>2. CASE ~Persist(w)
    <2>1. held' = held /\ issued' = issued
      BY <1>2, <1>c
    <2>2. Preparing(w) <=> held[man[w]] = "nothing"
      BY <1>b DEF HomeInv
    <2>3. \A v \in Workers : pc'[v] # "idle" => (Preparing(v)' <=> held'[man'[v]] = "nothing")
      BY <1>c, <1>d, <2>1, <2>2 DEF HomeInv
    <2>4. \A u, v \in Workers : Preparing(u)' /\ Preparing(v)' /\ man'[u] = man'[v] => u = v
      <3>1. \A v \in Workers : Preparing(v)' => Preparing(v) /\ man'[v] = man[v]
        BY <1>c, <1>d
      <3> QED BY <3>1 DEF HomeInv
    <2>5. \A g \in issued' : held'[ManifestOf[g]] # "nothing"
      BY <2>1 DEF HomeInv
    <2>6. CASE mem' = mem
      <3>1. pc[w] # "persist"
        BY <1>2, <2>6, RecordMoves DEF Rewrites, Rewrite
      <3>2. \A v \in Workers : pc[v] = "persist" => pc'[v] = "persist" /\ man'[v] = man[v]
        BY <1>d, <3>1
      <3>3. \A m \in Manifests, e \in Engines : held'[m] = "nothing" /\ mem'[e][m] \notin Foreign =>
              \E v \in Workers : pc'[v] = "persist" /\ man'[v] = m /\ Eng(v) = e
        BY <2>1, <2>6, <3>2 DEF HomeInv
      <3> QED BY <2>3, <2>4, <2>5, <2>6, <3>3 DEF HomeInv, Eng
    <2>7. CASE mem' # mem
      <3>1. PICK s : /\ pc[w] \in {"move", "revoke_check", "recover_state"}
                     /\ mem' = [mem EXCEPT ![Eng(w)][man[w]] = s]
                     /\ \/ s = GetRecord(Eng(w), man[w])
                        \/ /\ Move(w) /\ s = tgt[w] /\ pc'[w] = "persist"
                           /\ IsLegalTransition(GetRecord(Eng(w), man[w]), s)
        BY <2>7, RecordMoves DEF Rewrites, Rewrite
      <3>2. \A v \in Workers : pc[v] = "persist" => v # w /\ pc'[v] = "persist" /\ man'[v] = man[v]
        BY <1>d, <3>1
      <3>3. \/ s \in Foreign
            \/ mem[Eng(w)][man[w]] \notin Foreign
            \/ Preparing(w) /\ pc'[w] = "persist"
        <4>1. CASE s = GetRecord(Eng(w), man[w])
          BY <4>1, <1>f DEF GetRecord
        <4>2. CASE /\ Move(w) /\ s = tgt[w] /\ pc'[w] = "persist"
                   /\ IsLegalTransition(GetRecord(Eng(w), man[w]), s)
          <5>1. CASE mem[Eng(w)][man[w]] \in Foreign
            <6>1. GetRecord(Eng(w), man[w]) \in {"proposed", "revoked"}
              BY <5>1 DEF GetRecord, Foreign, Absent
            <6>2. s \in {"prepared", "failed", "revoked"}
              BY <4>2, <6>1 DEF IsLegalTransition, TRANSITIONS
            <6>3. s = "failed" => FALSE
              <7>1. s = "failed" => Won(w)
                BY <4>2 DEF Move, At, Won
              <7>2. Won(w) => mem[Eng(w)][man[w]] \in ClaimedStates
                BY DEF WinnerInv, Taken
              <7> QED BY <1>f, <5>1, <7>1, <7>2
            <6> QED BY <1>f, <4>2, <6>2, <6>3 DEF Preparing, Move, At
          <5> QED BY <5>1
        <4> QED BY <3>1, <4>1, <4>2
      <3>4. \A e \in Engines, m \in Manifests :
               mem'[e][m] = IF e = Eng(w) /\ m = man[w] THEN s ELSE mem[e][m]
        BY <1>b, <3>1
      <3>5. Preparing(w) => \A e \in Engines : mem[e][man[w]] \in Foreign
        <4> SUFFICES ASSUME Preparing(w), NEW e \in Engines, mem[e][man[w]] \notin Foreign PROVE FALSE
          OBVIOUS
        <4>1. PICK v \in Workers : pc[v] = "persist" /\ man[v] = man[w] /\ Eng(v) = e
          BY <1>b, <2>2 DEF HomeInv
        <4>2. Preparing(v)
          BY <2>2, <4>1 DEF HomeInv
        <4> QED BY <3>2, <4>1, <4>2 DEF HomeInv
      <3>6. \A m \in Manifests : \A d, e \in Engines :
              mem'[d][m] \notin Foreign /\ mem'[e][m] \notin Foreign => d = e
        BY <1>b, <3>3, <3>4, <3>5 DEF HomeInv
      <3>7. ASSUME NEW m \in Manifests, NEW e \in Engines, held'[m] = "nothing", mem'[e][m] \notin Foreign
            PROVE  \E v \in Workers : pc'[v] = "persist" /\ man'[v] = m /\ Eng(v) = e
        <4>1. CASE mem[e][m] \notin Foreign
          BY <2>1, <3>2, <3>7, <4>1 DEF HomeInv
        <4>2. CASE mem[e][m] \in Foreign
          <5>1. e = Eng(w) /\ m = man[w] /\ pc'[w] = "persist"
            BY <3>3, <3>4, <3>7, <4>2
          <5> QED BY <1>c, <5>1
        <4> QED BY <4>1, <4>2
      <3> QED BY <2>3, <2>4, <2>5, <3>6, <3>7 DEF HomeInv, Eng
    <2> QED BY <2>6, <2>7
  <1> QED BY <1>1, <1>2

\* A call that begins has won nothing, prepares only what nobody holds or
\* prepares, and otherwise passes on what a caller holds.
LEMMA WinnerBegins ==
    ASSUME Shaped, WinnerInv, NEW w \in Workers, Begins(w)
    PROVE  WinnerInv'
  <1>1. /\ \A v \in Workers : v # w => Same(v)
        /\ mem' = mem /\ stored' = stored
        /\ pc'[w] \in {"move", "budget", "probe", "revoke_check"}
        /\ tgt'[w] \in {"prepared", "sealed", "authorized", "verified", Absent}
    BY BeginsHoldsNothing
  <1>2. Blamed(w)' /\ ~Winner(w)' /\ ~Won(w)'
    BY <1>1 DEF Blamed, Winner, Won, Absent
  <1>3. \A v \in Workers : v # w => /\ Blamed(v)' <=> Blamed(v)
                                    /\ Winner(v)' <=> Winner(v)
                                    /\ Won(v)' <=> Won(v)
                                    /\ man'[v] = man[v]
    BY <1>1 DEF Same, Blamed, Winner, Won
  <1>4. ASSUME NEW v \in Workers, Won(v)' PROVE Taken(Eng(v), man[v])'
    <2>1. v # w /\ Won(v) /\ man'[v] = man[v]
      BY <1>2, <1>3, <1>4
    <2>2. Taken(Eng(v), man[v])
      BY <2>1 DEF WinnerInv
    <2> QED BY <1>1, <2>1, <2>2 DEF Taken, Eng
  <1>5. \A u, v \in Workers : Winner(u)' /\ Winner(v)' /\ man'[u] = man'[v] => u = v
    BY <1>2, <1>3 DEF WinnerInv
  <1> QED BY <1>2, <1>3, <1>4, <1>5 DEF WinnerInv

LEMMA HomeBegins ==
    ASSUME Shaped, HomeInv, NEW w \in Workers, Begins(w)
    PROVE  HomeInv'
  <1>1. /\ \A v \in Workers : v # w => Same(v)
        /\ mem' = mem /\ held' = held /\ issued' = issued
        /\ pc[w] = "idle" /\ pc'[w] # "persist"
    BY BeginsHoldsNothing
  <1>2. /\ Preparing(w)' <=> held[man'[w]] = "nothing"
        /\ Preparing(w)' => \A v \in Workers : man[v] # man'[w]
    <2> USE DEF Shaped, TypeOK, LocalTypes, Begin, Preparing, Absent
    <2>1. ASSUME NEW m \in Manifests, Prepare(w, m) \/ Seal(w, m) \/ Verify(w, m) \/ Recover(w, m)
          PROVE  <1>2!1 /\ <1>2!2
      BY <2>1 DEF Prepare, Seal, Verify, Recover
    <2>2. ASSUME NEW g \in Grants, Authorize(w, g)
          PROVE  <1>2!1 /\ <1>2!2
      BY <2>2 DEF Authorize
    <2>3. ASSUME NEW g \in Grants, Commit(w, g) \/ Revoke(w, g)
          PROVE  <1>2!1 /\ <1>2!2
      <3>1. g \in issued /\ man'[w] = ManifestOf[g] /\ pc'[w] \in {"budget", "revoke_check"}
        BY <2>3 DEF Commit, Revoke
      <3>2. held[ManifestOf[g]] # "nothing"
        BY <3>1 DEF HomeInv
      <3> QED BY <3>1, <3>2
    <2> QED BY <2>1, <2>2, <2>3 DEF Begins
  <1>3. \A v \in Workers : v # w => /\ Preparing(v)' <=> Preparing(v)
                                    /\ man'[v] = man[v] /\ pc'[v] = pc[v]
    BY <1>1 DEF Same, Preparing
  <1>4. \A v \in Workers : pc'[v] # "idle" => (Preparing(v)' <=> held'[man'[v]] = "nothing")
    BY <1>1, <1>2, <1>3 DEF HomeInv
  <1>5. \A u, v \in Workers : Preparing(u)' /\ Preparing(v)' /\ man'[u] = man'[v] => u = v
    BY <1>2, <1>3 DEF HomeInv
  <1>6. \A v \in Workers : pc[v] = "persist" => pc'[v] = "persist" /\ man'[v] = man[v]
    BY <1>1, <1>3
  <1>7. \A m \in Manifests, e \in Engines : held'[m] = "nothing" /\ mem'[e][m] \notin Foreign =>
          \E v \in Workers : pc'[v] = "persist" /\ man'[v] = m /\ Eng(v) = e
    BY <1>1, <1>6 DEF HomeInv
  <1> QED BY <1>1, <1>4, <1>5, <1>7 DEF HomeInv, Eng

\* A call keeps its outbox entry until it has confirmed it.
LEMMA OwnEntry ==
    ASSUME Shaped, HasOutbox, NEW w \in Workers, Entry(w), Step(w)
    PROVE  Entry(w)'
  <1>a. GlobalTypes /\ LocalTypes /\ ShapeOf(w)
    BY DEF Shaped, CallShape, TypeOK
  <1>b. man[w] \in Manifests => KeyOf[man[w]] \in Keys
    BY ConstantsAssumption
  <1> USE <1>a, <1>b DEF At, Goto, Return, Begin, MoveTo, Undo, Raised, Entry, Doomed, Abandoned, Key,
      LocalTypes, GlobalTypes, ledger, slots, entries, stores, outside
  <1>1. CASE ReserveBudget(w) BY <1>1 DEF ReserveBudget
  <1>2. CASE ReserveGrant(w) BY <1>2 DEF ReserveGrant
  <1>3. CASE RecordPending(w) BY <1>3 DEF RecordPending, SameIntent, Owner, ShapeOf, GrantSteps, HasGrant, Absent
  <1>4. CASE Lookup(w) BY <1>4 DEF Lookup
  <1>5. CASE ValidatePreconditions(w) BY <1>5 DEF ValidatePreconditions, Absent
  <1>6. CASE AdapterCommit(w) BY <1>6 DEF AdapterCommit, Absent
  <1>7. CASE SettleBudget(w) BY <1>7 DEF SettleBudget
  <1>8. CASE ConfirmOutbox(w) BY <1>8 DEF ConfirmOutbox, Mark
  <1>9. CASE Finalize(w) BY <1>9 DEF Finalize
  <1>10. CASE ReleaseGrant(w) BY <1>10 DEF ReleaseGrant
  <1>11. CASE ReleaseBudget(w) BY <1>11 DEF ReleaseBudget
  <1>12. CASE AbandonOutbox(w) BY <1>12 DEF AbandonOutbox, Mark
  <1>13. CASE Move(w) BY <1>13 DEF Move
  <1>14. CASE Persist(w) BY <1>14 DEF Persist, Moved
  <1>15. CASE PersistRefused(w) BY <1>15 DEF PersistRefused
  <1>16. CASE RevokeCheck(w) BY <1>16 DEF RevokeCheck
  <1>17. CASE Probe(w) BY <1>17 DEF Probe
  <1>18. CASE Backfill(w) BY <1>18 DEF Backfill
  <1>19. CASE RecoverGet(w) BY <1>19 DEF RecoverGet
  <1>20. CASE RecoverConfirm(w) BY <1>20 DEF RecoverConfirm, Mark
  <1>21. CASE RecoverState(w) BY <1>21 DEF RecoverState
  <1> QED BY <1>1, <1>2, <1>3, <1>4, <1>5, <1>6, <1>7, <1>8, <1>9, <1>10, <1>11, <1>12, <1>13,
      <1>14, <1>15, <1>16, <1>17, <1>18, <1>19, <1>20, <1>21 DEF Step, CommitStep,
      TransitionStep, RecoverStep

\* Nobody abandons the entry of another call: both would have won the manifest.
LEMMA OthersEntry ==
    ASSUME Shaped, HasOutbox, WinnerInv, NEW w \in Workers, Step(w), Entry(w),
           NEW v \in Workers, v # w, Entry(v)
    PROVE  Entry(v)'
  <1>1. Same(v) /\ Binding
    BY OthersUnchanged, BindingStays DEF Shaped
  <1>2. CASE pc[v] = "idle"
    BY <1>1, <1>2 DEF Entry, Doomed, Same
  <1>3. CASE pc[v] # "idle"
    <2>1. Key(v) \in Keys /\ Key(v)' = Key(v)
      BY <1>1, <1>3, CallData DEF Same, Key
    <2>2. Doomed(v)' => bound'[Key(v)] = gr'[v] /\ outbox'[Key(v)] # Absent
      BY <1>1, <2>1 DEF Entry, Doomed, Same, Binding
    <2>3. ASSUME pc[v] \in {"lookup", "preconditions", "adapter", "settle_budget", "confirm"}
          PROVE  bound'[Key(v)] = gr'[v] /\ outbox'[Key(v)] \in {"pending", "confirmed"}
      <3>1. bound[Key(v)] = gr[v] /\ outbox[Key(v)] \in {"pending", "confirmed"}
        BY <2>3 DEF Entry
      <3>2. bound'[Key(v)] = gr'[v]
        BY <1>1, <2>1, <3>1 DEF Binding, Same, Absent
      <3>3. CASE ~AbandonOutbox(w)
        BY <2>1, <3>1, <3>2, <3>3, EntriesKept DEF Kept
      <3>4. CASE AbandonOutbox(w)
        <4>1. /\ pc[w] = "abandon" /\ bound[Key(w)] = gr[w] /\ Winner(w)
              /\ outbox' = outbox \/ outbox' = [outbox EXCEPT ![Key(w)] = "abandoned"]
          BY <3>4 DEF AbandonOutbox, At, Entry, Doomed, Winner, Mark, entries
        <4>2. Winner(v) /\ ShapeOf(v) /\ ShapeOf(w)
          BY <2>3 DEF Winner, Shaped, CallShape
        <4>3. Key(v) # Key(w)
          <5>1. SUFFICES ASSUME Key(v) = Key(w) PROVE FALSE
            OBVIOUS
          <5>2. gr[v] = gr[w]
            BY <3>1, <4>1, <5>1
          <5>3. man[v] = ManifestOf[gr[v]] /\ man[w] = ManifestOf[gr[w]]
            BY <2>3, <4>1, <4>2 DEF ShapeOf, GrantSteps, HasGrant
          <5> QED BY <4>1, <4>2, <5>2, <5>3 DEF WinnerInv
        <4>4. outbox \in [Keys -> OutboxStatus]
          BY DEF Shaped, TypeOK, GlobalTypes
        <4> QED BY <2>1, <3>1, <3>2, <4>1, <4>3, <4>4
      <3> QED BY <3>3, <3>4
    <2> QED BY <1>1, <2>1, <2>2, <2>3 DEF Entry, Same
  <1> QED BY <1>2, <1>3

\* A call gives up its slot only by removing it, and only the call that holds
\* one adds one.
LEMMA SlotMoves ==
    ASSUME Shaped, ReservationExclusive, NEW w \in Workers, HasOutbox => Entry(w), Step(w)
    PROVE  /\ \A g \in inflight' : g \in inflight \/ (Holding(w)' /\ gr'[w] = g)
           /\ Holding(w) => (Holding(w)' /\ gr'[w] = gr[w]) \/ gr[w] \notin inflight'
  <1>a. GlobalTypes /\ LocalTypes /\ ShapeOf(w)
    BY DEF Shaped, CallShape, TypeOK
  <1>b. Holding(w) => gr[w] \in inflight
    BY DEF ReservationExclusive
  <1> USE <1>a DEF At, Goto, Return, Begin, MoveTo, Undo, Raised, Holding,
      LocalTypes, GlobalTypes, ledger, slots, entries, stores, outside
  <1>1. CASE ReserveBudget(w) BY <1>1 DEF ReserveBudget
  <1>2. CASE ReserveGrant(w) BY <1>2 DEF ReserveGrant
  <1>3. CASE RecordPending(w) BY <1>3 DEF RecordPending
  <1>4. CASE Lookup(w) BY <1>4 DEF Lookup
  <1>5. CASE ValidatePreconditions(w) BY <1>5 DEF ValidatePreconditions
  <1>6. CASE AdapterCommit(w) BY <1>6 DEF AdapterCommit
  <1>7. CASE SettleBudget(w) BY <1>7 DEF SettleBudget
  <1>8. CASE ConfirmOutbox(w) BY <1>8 DEF ConfirmOutbox, Entry
  <1>9. CASE Finalize(w) BY <1>9, <1>b DEF Finalize
  <1>10. CASE ReleaseGrant(w) BY <1>10 DEF ReleaseGrant
  <1>11. CASE ReleaseBudget(w) BY <1>11 DEF ReleaseBudget
  <1>12. CASE AbandonOutbox(w) BY <1>12 DEF AbandonOutbox
  <1>13. CASE Move(w) BY <1>13 DEF Move
  <1>14. CASE Persist(w) BY <1>14 DEF Persist, Moved
  <1>15. CASE PersistRefused(w) BY <1>15 DEF PersistRefused
  <1>16. CASE RevokeCheck(w) BY <1>16 DEF RevokeCheck
  <1>17. CASE Probe(w) BY <1>17 DEF Probe
  <1>18. CASE Backfill(w) BY <1>18 DEF Backfill
  <1>19. CASE RecoverGet(w) BY <1>19 DEF RecoverGet
  <1>20. CASE RecoverConfirm(w) BY <1>20 DEF RecoverConfirm
  <1>21. CASE RecoverState(w) BY <1>21 DEF RecoverState
  <1> QED BY <1>1, <1>2, <1>3, <1>4, <1>5, <1>6, <1>7, <1>8, <1>9, <1>10, <1>11, <1>12, <1>13,
      <1>14, <1>15, <1>16, <1>17, <1>18, <1>19, <1>20, <1>21 DEF Step, CommitStep,
      TransitionStep, RecoverStep

LEMMA SlotStep ==
    ASSUME Shaped, ReservationExclusive, ~StoresFail, SlotInv, NEW w \in Workers, Step(w)
    PROVE  SlotInv'
  <1>1. crashes' = crashes
    BY DEF Step, CommitStep, TransitionStep, RecoverStep, ReserveBudget, ReserveGrant,
       RecordPending, Lookup, ValidatePreconditions, AdapterCommit, SettleBudget, ConfirmOutbox,
       Finalize, ReleaseGrant, ReleaseBudget, AbandonOutbox, Move, Persist, PersistRefused,
       RevokeCheck, Probe, Backfill, RecoverGet, RecoverConfirm, RecoverState
  <1> SUFFICES ASSUME crashes = 0 PROVE SlotInv'
    BY <1>1 DEF SlotInv, Calm
  <1>2. /\ WinnerInv
        /\ ~HasLifecycleStore => HomeInv
        /\ HasOutbox => \A v \in Workers : Entry(v)
        /\ SlotsHeld
    BY DEF SlotInv, Calm
  <1>3. WinnerInv'
    BY <1>2, WinnerStep
  <1>4. ~HasLifecycleStore => HomeInv'
    BY <1>2, HomeStep
  <1>5. HasOutbox => \A v \in Workers : Entry(v)'
    BY <1>2, OwnEntry, OthersEntry
  <1>6. SlotsHeld'
    <2> SUFFICES ASSUME NEW g \in inflight'
                 PROVE  \E v \in Workers : Holding(v)' /\ gr'[v] = g
      BY DEF SlotsHeld
    <2>1. /\ g \in inflight \/ (Holding(w)' /\ gr'[w] = g)
          /\ Holding(w) => (Holding(w)' /\ gr'[w] = gr[w]) \/ gr[w] \notin inflight'
      BY <1>2, SlotMoves
    <2>2. CASE g \in inflight
      <3>1. PICK v \in Workers : Holding(v) /\ gr[v] = g
        BY <1>2, <2>2 DEF SlotsHeld
      <3>2. CASE v = w
        BY <2>1, <3>1, <3>2
      <3>3. CASE v # w
        <4>1. Same(v)
          BY <3>3, OthersUnchanged DEF Shaped
        <4>2. Holding(v)' /\ gr'[v] = g
          BY <3>1, <4>1 DEF Same, Holding
        <4> QED BY <4>2
      <3> QED BY <3>2, <3>3
    <2> QED BY <2>1, <2>2
  <1> QED BY <1>3, <1>4, <1>5, <1>6 DEF SlotInv

LEMMA SlotBegins ==
    ASSUME Shaped, SlotInv, NEW w \in Workers, Begins(w)
    PROVE  SlotInv'
  <1>1. /\ \A v \in Workers : v # w => Same(v)
        /\ UNCHANGED <<inflight, outbox, bound, crashes>>
        /\ pc[w] = "idle"
        /\ pc'[w] \in {"move", "budget", "probe", "revoke_check"}
    BY BeginsHoldsNothing
  <1> SUFFICES ASSUME Calm PROVE SlotInv'
    BY <1>1 DEF SlotInv, Calm
  <1>2. WinnerInv'
    BY WinnerBegins DEF SlotInv
  <1>3. ~HasLifecycleStore => HomeInv'
    BY HomeBegins DEF SlotInv
  <1>4. HasOutbox => \A v \in Workers : Entry(v)'
    <2> SUFFICES ASSUME HasOutbox, NEW v \in Workers PROVE Entry(v)'
      OBVIOUS
    <2>1. CASE v = w
      BY <1>1, <2>1 DEF Entry, Doomed
    <2>2. CASE v # w
      <3>1. Entry(v) /\ Same(v)
        BY <1>1, <2>2 DEF SlotInv
      <3> QED BY <1>1, <3>1 DEF Entry, Doomed, Same, Key
    <2> QED BY <2>1, <2>2
  <1>5. SlotsHeld'
    <2>1. \A v \in Workers : Holding(v) => Holding(v)' /\ gr'[v] = gr[v]
      BY <1>1 DEF Holding, Same
    <2> QED BY <1>1, <2>1 DEF SlotInv, SlotsHeld
  <1> QED BY <1>2, <1>3, <1>4, <1>5 DEF SlotInv

LEMMA SlotNext == Shaped /\ ReservationExclusive /\ SlotInv /\ [Next]_vars => SlotInv'
  <1> SUFFICES ASSUME Shaped, ReservationExclusive, SlotInv, [Next]_vars PROVE SlotInv'
    OBVIOUS
  <1>1. CASE StoresFail
    BY <1>1 DEF SlotInv, Calm
  <1>2. ASSUME NEW w \in Workers, Step(w) \/ Failure(w), ~StoresFail PROVE SlotInv'
    BY <1>2, SlotStep DEF Failure, AuditRefused, StoreRaises
  <1>3. ASSUME NEW w \in Workers, Begins(w) PROVE SlotInv'
    BY <1>3, SlotBegins
  <1>4. CASE \E e \in Engines : Crash(e)
    <2>1. crashes' # 0
      BY <1>4 DEF Crash, Shaped, TypeOK, GlobalTypes
    <2> QED BY <2>1 DEF SlotInv, Calm
  <1>5. CASE UNCHANGED vars
    <2>1. /\ WinnerInv' <=> WinnerInv
          /\ \A v \in Workers : Entry(v)' <=> Entry(v)
          /\ SlotsHeld' <=> SlotsHeld
          /\ Calm' <=> Calm
      BY <1>5 DEF vars, WinnerInv, Blamed, Won, Winner, Taken, Entry, Doomed, Key, SlotsHeld, Holding,
         Calm, Eng
    <2>2. HomeInv' <=> HomeInv
      BY <1>5 DEF vars, HomeInv, Preparing, Eng
    <2> QED BY <2>1, <2>2 DEF SlotInv
  <1> QED BY <1>1, <1>2, <1>3, <1>4, <1>5 DEF Next

LEMMA SlotInit == Init => SlotInv
  <1> SUFFICES ASSUME Init PROVE SlotInv
    OBVIOUS
  <1>1. WinnerInv
    BY DEF Init, WinnerInv, Blamed, Won, Winner
  <1>2. HomeInv
    BY DEF Init, HomeInv, Preparing, Foreign
  <1>3. (\A w \in Workers : Entry(w)) /\ SlotsHeld
    BY DEF Init, Entry, Doomed, SlotsHeld
  <1> QED BY <1>1, <1>2, <1>3 DEF SlotInv

\* No path through commit() leaks a reservation or releases one twice: while no store fails and no
\* process has crashed, the ledger of every process reserves exactly the sum of what its calls in
\* flight hold, and every reserved slot of the grant store has a call that holds it.
THEOREM NothingLeaks == Spec => []NoLeak
  <1>1. LedgerInv /\ SlotInv => NoLeak
    BY DEF LedgerInv, SlotInv, NoLeak, Calm, Sharers, SlotsHeld
  <1> QED BY <1>1, AlwaysBalanced, SlotInit, SlotNext, ReservationsAreExclusive, AlwaysShaped, PTL
      DEF Spec
=============================================================================
