---------------------------- MODULE CommitEngine ----------------------------
(***************************************************************************)
(* KarmaSakshiEngine: the calls that take a manifest from prepare to a     *)
(* verified, failed, revoked or recovered effect, run by concurrent        *)
(* threads (Workers) of one or several engine processes (Engines) over     *)
(* shared durable stores.                                                  *)
(*                                                                         *)
(* A call is a sequence of steps, one per operation on a store, a ledger,  *)
(* the in-memory lifecycle record or the outside world: each such          *)
(* operation is atomic in the code (it runs under the store's lock or in   *)
(* one SQL statement or Lua script) and other calls run between them.      *)
(* pc[w] names the operation that worker w performs next.                  *)
(*                                                                         *)
(* Left to other modules: the stateless gates of commit() (signatures,     *)
(* expiry, policy, envelope, plan, audience), which only ever refuse the   *)
(* call before its first effect, delegation and compensation.  A refused   *)
(* call changes nothing, so here it is a call that is not begun.           *)
(***************************************************************************)
EXTENDS Lifecycle, Integers, FiniteSets, Functions

CONSTANTS
    Engines,            \* engine processes
    Workers,            \* threads that make engine calls
    EngineOf,           \* the process a thread belongs to
    Manifests, Grants, Keys,
    ManifestOf,         \* grant.manifest_hash
    KeyOf,              \* manifest.idempotency_key
    MaxUses,            \* grant.max_uses
    Budgeted,           \* grants with an authority_budget_id
    Cost,               \* amount a commit of the manifest takes from the budget
    BudgetLimit,        \* limit of the (one) authority budget
    HasLifecycleStore,  \* EngineContext.lifecycle_store is configured
    HasOutbox,          \* EngineContext.outbox_store is configured
    StoresFail,         \* a store or the audit journal may raise
    AmbiguousReturn,    \* the adapter reports a lost answer as success=False
    MaxCrashes          \* bound on the number of process crashes

ASSUME ConstantsAssumption ==
    /\ IsFiniteSet(Workers) /\ IsFiniteSet(Manifests)
    /\ EngineOf \in [Workers -> Engines]
    /\ ManifestOf \in [Grants -> Manifests]
    /\ KeyOf \in [Manifests -> Keys]
    /\ MaxUses \in [Grants -> Nat \ {0}]
    /\ Budgeted \subseteq Grants
    /\ Cost \in [Manifests -> Nat \ {0}]
    /\ BudgetLimit \in Nat
    /\ HasLifecycleStore \in BOOLEAN
    /\ HasOutbox \in BOOLEAN
    /\ StoresFail \in BOOLEAN
    /\ AmbiguousReturn \in BOOLEAN
    /\ MaxCrashes \in Nat

Absent == "absent"      \* no row, no record, no entry

VARIABLES
    \* in the memory of each engine process, lost in a crash
    mem,        \* engine -> manifest -> state of the cached LifecycleRecord
    reserved,   \* engine -> amount reserved in its budget ledger
    consumed,   \* engine -> amount consumed in its budget ledger
    \* durable stores
    stored,     \* manifest -> state in the lifecycle store
    uses,       \* grant -> uses counted in its slot of the grant store
    revoked,    \* grants whose slot is revoked
    inflight,   \* grants whose slot is reserved
    outcome,    \* keys with an outcome in the idempotency ledger
    outbox,     \* key -> status of its outbox entry
    bound,      \* key -> grant its outbox entry is bound to
    \* the outside world and what callers hold
    world,      \* key -> what the provider did: nothing, settled or failed
    invoked,    \* manifest -> number of adapter.commit invocations
    held,       \* manifest -> what callers hold of it (see Held)
    issued,     \* grants returned to a caller
    \* the calls in progress
    pc,         \* worker -> the operation its call performs next
    man, gr,    \* the manifest and the grant of the call
    tgt, from,  \* target of its lifecycle transition, and the state it saw before
    fault,      \* why its commit is being undone
    crashes

ledger == <<reserved, consumed>>
slots == <<uses, revoked, inflight>>
entries == <<outbox, bound>>
stores == <<stored, slots, outcome, entries>>
outside == <<world, invoked, held, issued>>
vars == <<mem, reserved, consumed, stored, uses, revoked, inflight, outcome,
          outbox, bound, world, invoked, held, issued,
          pc, man, gr, tgt, from, fault, crashes>>

OutboxStatus == {Absent, "pending", "confirmed", "abandoned"}
WorldState == {"none", "settled", "failed"}

\* A caller can only pass on what an earlier call returned: the manifest from
\* prepare, the sealed manifest from seal, the CommitResult from commit.
Held == {"nothing", "manifest", "sealed", "result"}

\* The operation a call performs next; "move" and "persist" are the two
\* halves of _transition, used by every call.
Pc == {"idle", "move", "persist",
       "budget", "reserve", "outbox", "lookup", "preconditions", "adapter",
       "settle_budget", "confirm", "finalize",
       "release_grant", "release_budget", "abandon",
       "revoke_check",
       "probe", "backfill", "recover_get", "recover_confirm", "recover_state"}

\* Why a commit is being undone ("replay": it is not, it reuses an outcome).
Fault == {"none", "replay", "exhausted", "denied", "stale", "error", "failed"}

\* The stores, the ledgers and the world.
GlobalTypes ==
    /\ mem \in [Engines -> [Manifests -> LifecycleState \cup {Absent}]]
    /\ reserved \in [Engines -> Int]
    /\ consumed \in [Engines -> Int]
    /\ stored \in [Manifests -> LifecycleState \cup {Absent}]
    /\ uses \in [Grants -> Nat]
    /\ revoked \subseteq Grants
    /\ inflight \subseteq Grants
    /\ outcome \subseteq Keys
    /\ outbox \in [Keys -> OutboxStatus]
    /\ bound \in [Keys -> Grants \cup {Absent}]
    /\ world \in [Keys -> WorldState]
    /\ invoked \in [Manifests -> Nat]
    /\ held \in [Manifests -> Held]
    /\ issued \subseteq Grants
    /\ crashes \in Nat

\* The calls in progress.
LocalTypes ==
    /\ pc \in [Workers -> Pc]
    /\ man \in [Workers -> Manifests \cup {Absent}]
    /\ gr \in [Workers -> Grants \cup {Absent}]
    /\ tgt \in [Workers -> LifecycleState \cup {Absent}]
    /\ from \in [Workers -> LifecycleState \cup {Absent}]
    /\ fault \in [Workers -> Fault]

\* Every variable has its type.
TypeOK == GlobalTypes /\ LocalTypes

Init ==
    /\ mem = [e \in Engines |-> [m \in Manifests |-> Absent]]
    /\ reserved = [e \in Engines |-> 0]
    /\ consumed = [e \in Engines |-> 0]
    /\ stored = [m \in Manifests |-> Absent]
    /\ uses = [g \in Grants |-> 0]
    /\ revoked = {}
    /\ inflight = {}
    /\ outcome = {}
    /\ outbox = [k \in Keys |-> Absent]
    /\ bound = [k \in Keys |-> Absent]
    /\ world = [k \in Keys |-> "none"]
    /\ invoked = [m \in Manifests |-> 0]
    /\ held = [m \in Manifests |-> "nothing"]
    /\ issued = {}
    /\ pc = [w \in Workers |-> "idle"]
    /\ man = [w \in Workers |-> Absent]
    /\ gr = [w \in Workers |-> Absent]
    /\ tgt = [w \in Workers |-> Absent]
    /\ from = [w \in Workers |-> Absent]
    /\ fault = [w \in Workers |-> "none"]
    /\ crashes = 0

-----------------------------------------------------------------------------
(* Control: how the call of worker w proceeds, begins and returns.         *)

Eng(w) == EngineOf[w]
Key(w) == KeyOf[man[w]]

At(w, p) == pc[w] = p

Begin(w, p, m, g, t) ==
    /\ pc' = [pc EXCEPT ![w] = p]
    /\ man' = [man EXCEPT ![w] = m]
    /\ gr' = [gr EXCEPT ![w] = g]
    /\ tgt' = [tgt EXCEPT ![w] = t]
    /\ from' = [from EXCEPT ![w] = Absent]
    /\ fault' = [fault EXCEPT ![w] = "none"]

Return(w) == Begin(w, "idle", Absent, Absent, Absent)

Goto(w, p) == pc' = [pc EXCEPT ![w] = p] /\ UNCHANGED <<man, gr, tgt, from, fault>>

MoveTo(w, t) ==
    /\ pc' = [pc EXCEPT ![w] = "move"]
    /\ tgt' = [tgt EXCEPT ![w] = t]
    /\ UNCHANGED <<man, gr, from, fault>>

Undo(w, p, why) ==
    /\ pc' = [pc EXCEPT ![w] = p]
    /\ fault' = [fault EXCEPT ![w] = why]
    /\ UNCHANGED <<man, gr, tgt, from>>

-----------------------------------------------------------------------------
(* _transition: the in-memory record moves first (Move), then the durable  *)
(* store by compare-and-set, then the audit event (Persist).               *)

\* _get_record: the cached record, else the durable state, else PROPOSED.
GetRecord(e, m) ==
    IF mem[e][m] # Absent THEN mem[e][m]
    ELSE IF HasLifecycleStore /\ stored[m] # Absent THEN stored[m]
    ELSE "proposed"

\* What an exception out of _transition does to the call that made it: only
\* the transition to COMMITTING is guarded, by the release of the grant and
\* of the budget.
RaisedWithoutRelease(w) == Return(w)     \* mutant
Raised(w) ==
    IF tgt[w] = "committing" THEN Undo(w, "release_grant", "denied")
    ELSE Return(w)

Move(w) ==
    /\ At(w, "move")
    /\ LET current == GetRecord(Eng(w), man[w]) IN
       IF IsLegalTransition(current, tgt[w])
       THEN /\ mem' = [mem EXCEPT ![Eng(w)][man[w]] = tgt[w]]
            /\ pc' = [pc EXCEPT ![w] = "persist"]
            /\ from' = [from EXCEPT ![w] = current]
            /\ UNCHANGED <<man, gr, tgt, fault>>
       ELSE /\ mem' = [mem EXCEPT ![Eng(w)][man[w]] = current]
            /\ Raised(w)
    /\ UNCHANGED <<ledger, stores, outside, crashes>>

\* _persist_lifecycle succeeds: a missing row stands for PROPOSED.
SetBlindly(m, expected) == TRUE     \* mutant
CompareAndSet(m, expected) ==
    IF stored[m] = Absent THEN expected = "proposed" ELSE stored[m] = expected

Advance(w) ==
    /\ HasLifecycleStore => CompareAndSet(man[w], from[w])
    /\ stored' = IF HasLifecycleStore
                 THEN [stored EXCEPT ![man[w]] = tgt[w]] ELSE stored

\* What the call returns to its caller once the audit event is written.
Gives(t) ==
    CASE t = "prepared" -> "manifest"
      [] t = "sealed" -> "sealed"
      [] t \in {"committed", "failed"} -> "result"

Moved(w) ==
    /\ IF tgt[w] = "committing" THEN Goto(w, "outbox") ELSE Return(w)
    /\ held' = IF tgt[w] \in {"prepared", "sealed", "committed"}
                  \/ fault[w] = "failed"
               THEN [held EXCEPT ![man[w]] = Gives(tgt[w])] ELSE held
    /\ issued' = IF tgt[w] = "authorized" THEN issued \cup {gr[w]} ELSE issued

Persist(w) ==
    /\ At(w, "persist")
    /\ Advance(w)
    /\ Moved(w)
    /\ UNCHANGED <<mem, ledger, slots, outcome, entries, world, invoked, crashes>>

\* The compare-and-set fails or the store raises: the record is put back to
\* the state this call saw and the call raises.
PersistRefused(w) ==
    /\ At(w, "persist")
    /\ HasLifecycleStore
    /\ StoresFail \/ ~CompareAndSet(man[w], from[w])
    /\ mem' = [mem EXCEPT ![Eng(w)][man[w]] = from[w]]
    /\ Raised(w)
    /\ UNCHANGED <<ledger, stores, outside, crashes>>

\* The audit write fails after the record and the store have advanced.
AuditRefused(w) ==
    /\ At(w, "persist")
    /\ StoresFail
    /\ Advance(w)
    /\ Raised(w)
    /\ UNCHANGED <<mem, ledger, slots, outcome, entries, outside, crashes>>

-----------------------------------------------------------------------------
(* prepare, seal, authorize and verify: one transition each.               *)

Prepare(w, m) ==
    /\ At(w, "idle")
    /\ held[m] = "nothing"
    /\ \A v \in Workers : man[v] # m
    /\ Begin(w, "move", m, Absent, "prepared")
    /\ UNCHANGED <<mem, ledger, stores, outside, crashes>>

Seal(w, m) ==
    /\ At(w, "idle")
    /\ held[m] # "nothing"
    /\ Begin(w, "move", m, Absent, "sealed")
    /\ UNCHANGED <<mem, ledger, stores, outside, crashes>>

\* Each call signs a fresh grant; it reaches the caller only in Persist.
Authorize(w, g) ==
    /\ At(w, "idle")
    /\ held[ManifestOf[g]] \in {"sealed", "result"}
    /\ g \notin issued
    /\ \A v \in Workers : gr[v] # g
    /\ Begin(w, "move", ManifestOf[g], g, "authorized")
    /\ UNCHANGED <<mem, ledger, stores, outside, crashes>>

\* adapter.verify only observes; the transition does not depend on what it saw.
Verify(w, m) ==
    /\ At(w, "idle")
    /\ held[m] = "result"
    /\ Begin(w, "move", m, Absent, "verified")
    /\ UNCHANGED <<mem, ledger, stores, outside, crashes>>

-----------------------------------------------------------------------------
(* commit *)

Commit(w, g) ==
    /\ At(w, "idle")
    /\ g \in issued
    /\ g \notin revoked
    /\ Begin(w, "budget", ManifestOf[g], g, Absent)
    /\ UNCHANGED <<mem, ledger, stores, outside, crashes>>

\* The amount this call reserves, releases or commits: none without a budget.
Amount(w) == IF gr[w] \in Budgeted THEN Cost[man[w]] ELSE 0

\* budget_ledger.reserve
AffordsIgnoringReserved(e, amount) == amount <= BudgetLimit - consumed[e]     \* mutant
Affords(e, amount) == amount <= BudgetLimit - consumed[e] - reserved[e]

ReserveBudget(w) ==
    /\ At(w, "budget")
    /\ IF gr[w] \in Budgeted => Affords(Eng(w), Amount(w))
       THEN /\ reserved' = [reserved EXCEPT ![Eng(w)] = @ + Amount(w)]
            /\ Goto(w, "reserve")
       ELSE Return(w) /\ UNCHANGED reserved
    /\ UNCHANGED <<mem, consumed, stores, outside, crashes>>

\* grant_store.reserve
CanReserve(g) == g \notin revoked \cup inflight /\ uses[g] < MaxUses[g]

ReserveGrantWaiting(w) ==     \* mutant: waits for the slot instead of refusing
    /\ At(w, "reserve")
    /\ CanReserve(gr[w])
    /\ inflight' = inflight \cup {gr[w]}
    /\ MoveTo(w, "committing")
    /\ UNCHANGED <<mem, ledger, stored, uses, revoked, outcome, entries, outside, crashes>>
ReserveGrant(w) ==
    /\ At(w, "reserve")
    /\ IF CanReserve(gr[w])
       THEN /\ inflight' = inflight \cup {gr[w]}
            /\ MoveTo(w, "committing")
       ELSE Undo(w, "release_budget", "exhausted") /\ UNCHANGED inflight
    /\ UNCHANGED <<mem, ledger, stored, uses, revoked, outcome, entries, outside, crashes>>

\* outbox.record_pending: a key bound to another grant, or already confirmed or
\* abandoned, is a conflict.  (A grant is bound to one manifest, so the entry's
\* grant tells its manifest.)
Owner(w) == gr[w]
AnyPending(w) == outbox[Key(w)] = "pending"     \* mutant
SameIntent(w) == outbox[Key(w)] = "pending" /\ bound[Key(w)] = Owner(w)

RecordPending(w) ==
    /\ At(w, "outbox")
    /\ IF HasOutbox /\ outbox[Key(w)] = Absent
       THEN /\ outbox' = [outbox EXCEPT ![Key(w)] = "pending"]
            /\ bound' = [bound EXCEPT ![Key(w)] = Owner(w)]
            /\ Goto(w, "lookup")
       ELSE /\ IF HasOutbox => SameIntent(w)
               THEN Goto(w, "lookup")
               ELSE Undo(w, "release_grant", "denied")
            /\ UNCHANGED entries
    /\ UNCHANGED <<mem, ledger, stored, slots, outcome, outside, crashes>>

\* A recorded outcome is replayed: the adapter is not called.
Lookup(w) ==
    /\ At(w, "lookup")
    /\ IF Key(w) \in outcome
       THEN Undo(w, "settle_budget", "replay")
       ELSE Goto(w, "preconditions")
    /\ UNCHANGED <<mem, ledger, stores, outside, crashes>>

\* The adapter finds the prepared state unchanged, or finds it stale or raises.
ValidatePreconditions(w) ==
    /\ At(w, "preconditions")
    /\ \/ Goto(w, "adapter")
       \/ Undo(w, "release_grant", "stale")
    /\ UNCHANGED <<mem, ledger, stores, outside, crashes>>

\* adapter.commit, for a provider that is idempotent on the key.  Each disjunct
\* is an answer: success; a clean failure; a lost answer reported as a failure;
\* an exception before or after the effect.
AdapterCommit(w) ==
    /\ At(w, "adapter")
    /\ invoked' = [invoked EXCEPT ![man[w]] = @ + 1]
    /\ \/ /\ world[Key(w)] # "failed"
          /\ world' = [world EXCEPT ![Key(w)] = "settled"]
          /\ Goto(w, "settle_budget")
       \/ /\ world[Key(w)] # "settled"
          /\ world' = [world EXCEPT ![Key(w)] = "failed"]
          /\ Undo(w, "release_grant", "failed")
       \/ /\ AmbiguousReturn
          /\ world[Key(w)] = "none"
          /\ world' = [world EXCEPT ![Key(w)] = "settled"]
          /\ Undo(w, "release_grant", "failed")
       \/ /\ \/ UNCHANGED world
             \/ /\ world[Key(w)] = "none"
                /\ world' = [world EXCEPT ![Key(w)] = "settled"]
          /\ Undo(w, "release_grant", "error")
    /\ UNCHANGED <<mem, ledger, stores, held, issued, crashes>>

\* A new effect consumes the reserved budget, a replay gives it back.
ChargeAlways(w) == Amount(w)     \* mutant
Charge(w) == IF fault[w] = "replay" THEN 0 ELSE Amount(w)

SettleBudget(w) ==
    /\ At(w, "settle_budget")
    /\ reserved' = [reserved EXCEPT ![Eng(w)] = @ - Amount(w)]
    /\ consumed' = [consumed EXCEPT ![Eng(w)] = @ + Charge(w)]
    /\ Goto(w, "confirm")
    /\ UNCHANGED <<mem, stores, outside, crashes>>

\* outbox.mark_confirmed and mark_abandoned: idempotent, and a conflict on an
\* entry already resolved the other way.
Mark(k, status) == outbox' = [outbox EXCEPT ![k] = status] /\ UNCHANGED bound

ConfirmOutbox(w) ==
    /\ At(w, "confirm")
    /\ IF ~HasOutbox
       THEN Goto(w, "finalize") /\ UNCHANGED entries
       ELSE IF outbox[Key(w)] \in {"pending", "confirmed"}
       THEN Goto(w, "finalize") /\ Mark(Key(w), "confirmed")
       ELSE Return(w) /\ UNCHANGED entries
    /\ UNCHANGED <<mem, ledger, stored, slots, outcome, outside, crashes>>

\* grant_store.commit, then the transition to COMMITTED.
Finalize(w) ==
    /\ At(w, "finalize")
    /\ IF gr[w] \in inflight
       THEN /\ uses' = [uses EXCEPT ![gr[w]] = @ + 1]
            /\ inflight' = inflight \ {gr[w]}
            /\ outcome' = outcome \cup {Key(w)}
            /\ MoveTo(w, "committed")
       ELSE Return(w) /\ UNCHANGED <<uses, inflight, outcome>>
    /\ UNCHANGED <<mem, ledger, stored, revoked, entries, outside, crashes>>

\* The undo path: grant, budget, outbox, FAILED, in this order.
ReleaseGrant(w) ==
    /\ At(w, "release_grant")
    /\ inflight' = inflight \ {gr[w]}
    /\ Goto(w, "release_budget")
    /\ UNCHANGED <<mem, ledger, stored, uses, revoked, outcome, entries, outside, crashes>>

\* Failures after which the outbox entry is abandoned; after an exception out of
\* adapter.commit it stays pending.
AlwaysAbandoned == {"stale", "failed", "error"}     \* mutant
Abandoned == {"stale", "failed"}

ReleaseBudget(w) ==
    /\ At(w, "release_budget")
    /\ reserved' = [reserved EXCEPT ![Eng(w)] = @ - Amount(w)]
    /\ CASE fault[w] \in {"exhausted", "denied"} -> Return(w)
         [] fault[w] \in Abandoned /\ HasOutbox -> Goto(w, "abandon")
         [] OTHER -> MoveTo(w, "failed")
    /\ UNCHANGED <<mem, consumed, stores, outside, crashes>>

AbandonOutbox(w) ==
    /\ At(w, "abandon")
    /\ IF outbox[Key(w)] \in {"pending", "abandoned"}
       THEN MoveTo(w, "failed") /\ Mark(Key(w), "abandoned")
       ELSE Return(w) /\ UNCHANGED entries
    /\ UNCHANGED <<mem, ledger, stored, slots, outcome, outside, crashes>>

-----------------------------------------------------------------------------
(* revoke *)

Revoke(w, g) ==
    /\ At(w, "idle")
    /\ g \in issued
    /\ revoked' = revoked \cup {g}
    /\ Begin(w, "revoke_check", ManifestOf[g], g, Absent)
    /\ UNCHANGED <<mem, ledger, stored, uses, inflight, outcome, entries, outside, crashes>>

\* Past the safe checkpoint the effect is left alone.
RevokeCheck(w) ==
    /\ At(w, "revoke_check")
    /\ LET current == GetRecord(Eng(w), man[w]) IN
       /\ mem' = [mem EXCEPT ![Eng(w)][man[w]] = current]
       /\ IF IsRevocable(current) THEN MoveTo(w, "revoked") ELSE Return(w)
    /\ UNCHANGED <<ledger, stores, outside, crashes>>

-----------------------------------------------------------------------------
(* recover_ambiguous_commit *)

Recover(w, m) ==
    /\ At(w, "idle")
    /\ held[m] # "nothing"
    /\ Begin(w, "probe", m, Absent, Absent)
    /\ UNCHANGED <<mem, ledger, stores, outside, crashes>>

\* adapter.verify asks the provider about the key.
NotFailed(k) == world[k] # "failed"     \* mutant
Evidence(k) == world[k] = "settled"

Probe(w) ==
    /\ At(w, "probe")
    /\ IF Evidence(Key(w)) THEN Goto(w, "backfill") ELSE Return(w)
    /\ UNCHANGED <<mem, ledger, stores, outside, crashes>>

Backfill(w) ==
    /\ At(w, "backfill")
    /\ outcome' = outcome \cup {Key(w)}
    /\ Goto(w, "recover_get")
    /\ UNCHANGED <<mem, ledger, stored, slots, entries, outside, crashes>>

RecoverGet(w) ==
    /\ At(w, "recover_get")
    /\ IF HasOutbox /\ outbox[Key(w)] = "pending"
       THEN Goto(w, "recover_confirm") ELSE Goto(w, "recover_state")
    /\ UNCHANGED <<mem, ledger, stores, outside, crashes>>

RecoverConfirm(w) ==
    /\ At(w, "recover_confirm")
    /\ IF outbox[Key(w)] \in {"pending", "confirmed"}
       THEN Goto(w, "recover_state") /\ Mark(Key(w), "confirmed")
       ELSE Return(w) /\ UNCHANGED entries
    /\ UNCHANGED <<mem, ledger, stored, slots, outcome, outside, crashes>>

\* Only FAILED has RECOVERED_COMMITTED as a legal target.
RecoverState(w) ==
    /\ At(w, "recover_state")
    /\ LET current == GetRecord(Eng(w), man[w]) IN
       /\ mem' = [mem EXCEPT ![Eng(w)][man[w]] = current]
       /\ IF IsLegalTransition(current, "recovered_committed")
          THEN MoveTo(w, "recovered_committed") ELSE Return(w)
    /\ UNCHANGED <<ledger, stores, outside, crashes>>

-----------------------------------------------------------------------------
(* Failures *)

\* Steps of a call that reach a durable store or the provider's query.
StoreSteps == {"move", "reserve", "outbox", "lookup", "confirm", "finalize",
               "release_grant", "abandon", "revoke_check", "probe", "backfill",
               "recover_get", "recover_confirm", "recover_state"}

\* The store raises StoreUnavailableError before it changed anything.  Only the
\* transition to COMMITTING and record_pending are guarded; anywhere else the
\* exception leaves the call as it is.
StoreRaises(w) ==
    /\ StoresFail
    /\ pc[w] \in StoreSteps
    /\ pc[w] \in {"move", "revoke_check", "recover_state"} =>
          HasLifecycleStore /\ mem[Eng(w)][man[w]] = Absent
    /\ pc[w] \in {"outbox", "confirm", "recover_get"} => HasOutbox
    /\ CASE At(w, "move") -> Raised(w)
         [] At(w, "outbox") -> Undo(w, "release_grant", "denied")
         [] OTHER -> Return(w)
    /\ UNCHANGED <<mem, ledger, stores, outside, crashes>>

\* A process dies and restarts: its calls, its records and its budget ledger
\* are lost; the stores and the world are not.
Crash(e) ==
    /\ crashes < MaxCrashes
    /\ crashes' = crashes + 1
    /\ mem' = [mem EXCEPT ![e] = [m \in Manifests |-> Absent]]
    /\ reserved' = [reserved EXCEPT ![e] = 0]
    /\ consumed' = [consumed EXCEPT ![e] = 0]
    /\ LET Dies(f, v) == [w \in Workers |-> IF EngineOf[w] = e THEN v ELSE f[w]] IN
       /\ pc' = Dies(pc, "idle")
       /\ man' = Dies(man, Absent)
       /\ gr' = Dies(gr, Absent)
       /\ tgt' = Dies(tgt, Absent)
       /\ from' = Dies(from, Absent)
       /\ fault' = Dies(fault, "none")
    /\ UNCHANGED <<stores, outside>>

-----------------------------------------------------------------------------
CommitStep(w) ==
    \/ ReserveBudget(w) \/ ReserveGrant(w) \/ RecordPending(w) \/ Lookup(w)
    \/ ValidatePreconditions(w) \/ AdapterCommit(w)
    \/ SettleBudget(w) \/ ConfirmOutbox(w) \/ Finalize(w)
    \/ ReleaseGrant(w) \/ ReleaseBudget(w) \/ AbandonOutbox(w)

TransitionStep(w) == Move(w) \/ Persist(w) \/ PersistRefused(w)

RecoverStep(w) ==
    \/ Probe(w) \/ Backfill(w) \/ RecoverGet(w) \/ RecoverConfirm(w) \/ RecoverState(w)

\* The steps a thread takes by itself once its call has begun.
Step(w) == CommitStep(w) \/ TransitionStep(w) \/ RevokeCheck(w) \/ RecoverStep(w)

Failure(w) == AuditRefused(w) \/ StoreRaises(w)

Begins(w) ==
    \/ \E m \in Manifests : Prepare(w, m) \/ Seal(w, m) \/ Verify(w, m) \/ Recover(w, m)
    \/ \E g \in Grants : Authorize(w, g) \/ Commit(w, g) \/ Revoke(w, g)

Next ==
    \/ \E w \in Workers : Step(w) \/ Failure(w) \/ Begins(w)
    \/ \E e \in Engines : Crash(e)

Spec == Init /\ [][Next]_vars

\* A thread that is inside a call keeps running: no step of a call waits for
\* another call.
FairSpec == Spec /\ \A w \in Workers : WF_vars(Step(w))

-----------------------------------------------------------------------------
(* Properties *)

\* The call holds the reservation of its grant.
Holding(w) ==
    \/ pc[w] \in {"outbox", "lookup", "preconditions", "adapter",
                      "settle_budget", "confirm", "finalize", "release_grant"}
    \/ pc[w] \in {"move", "persist"} /\ tgt[w] = "committing"

\* The call holds a reservation in the budget ledger.
HoldingBudget(w) ==
    \/ Holding(w) /\ pc[w] \notin {"confirm", "finalize"}
    \/ pc[w] \in {"reserve", "release_budget"}

\* Two calls never hold the same grant at once, and a call that holds a grant
\* finds its slot reserved: nobody else's release or commit takes it away.
ReservationExclusive ==
    \A v, w \in Workers :
        Holding(v) =>
            /\ gr[v] \in inflight
            /\ Holding(w) /\ gr[w] = gr[v] => v = w

\* A grant is never used more often than it allows, the use in flight included.
UsesWithinLimit ==
    \A g \in Grants : uses[g] + (IF g \in inflight THEN 1 ELSE 0) <= MaxUses[g]

\* With a durable lifecycle store, racing authorize() calls, in one process or
\* in several, hand out at most one grant for a manifest.
AtMostOneGrant ==
    HasLifecycleStore =>
        \A g, h \in issued : ManifestOf[g] = ManifestOf[h] => g = h

\* With a durable lifecycle store the adapter is invoked at most once for a
\* manifest, whatever crashes, retries and processes there are.
AtMostOneInvocation ==
    HasLifecycleStore => \A m \in Manifests : invoked[m] <= 1

\* With the outbox, at most one of the manifests that share an idempotency key
\* ever reaches the adapter, and its intent was recorded first.
OutboxOwnsInvocation ==
    HasOutbox =>
        \A m \in Manifests : invoked[m] > 0 =>
            /\ outbox[KeyOf[m]] # Absent
            /\ ManifestOf[bound[KeyOf[m]]] = m

\* A revoked manifest was never executed, and never will be.
RevokedNeverExecuted ==
    HasLifecycleStore => \A m \in Manifests : stored[m] = "revoked" => invoked[m] = 0

\* Nothing in the stores claims an effect the provider did not perform, and a
\* manifest is COMMITTED (or later) only once its outcome is in the ledger.
ClaimsAreTrue ==
    /\ \A k \in outcome : world[k] = "settled"
    /\ \A k \in Keys : outbox[k] = "confirmed" => world[k] = "settled"
    /\ \A m \in Manifests :
          stored[m] \in {"committed", "verified", "recovered_committed"} => KeyOf[m] \in outcome

\* The budget is never overdrawn by effects in flight and effects done.
BudgetNotOverdrawn ==
    \A e \in Engines : consumed[e] + reserved[e] <= BudgetLimit

\* When no store fails, what the ledger reserves is exactly what the calls in
\* flight hold, and a slot is reserved exactly while a call holds it: no path
\* through commit() leaks a reservation or releases one twice.
NoLeak ==
    ~StoresFail /\ crashes = 0 =>
        /\ \A e \in Engines :
              reserved[e] =
                  SumFunctionOnSet([w \in Workers |-> Amount(w)],
                                   {w \in Workers : Eng(w) = e /\ HoldingBudget(w)})
        /\ \A g \in inflight :
              \E w \in Workers : Holding(w) /\ gr[w] = g

\* With a durable lifecycle store and an adapter that raises when the answer is
\* lost, a settled effect always has a pending or a confirmed outbox entry:
\* recovery can find it, and no call undoing its own failure abandons it.
SettledNeverAbandoned ==
    HasLifecycleStore /\ HasOutbox /\ ~AmbiguousReturn =>
        \A k \in Keys : world[k] = "settled" => outbox[k] \in {"pending", "confirmed"}

\* The durable state of a manifest moves only along the transition table.
DurableState(m) == IF stored[m] = Absent THEN "proposed" ELSE stored[m]
DurableMovesLegal ==
    [][\A m \in Manifests :
          stored'[m] # stored[m] => IsLegalTransition(DurableState(m), stored'[m])]_vars

\* A revoked grant gets no new reservation and no invocation begins under it
\* once no call holds it.
RevokedStaysUnused ==
    [][\A g \in revoked \ inflight : g \in revoked' /\ g \notin inflight']_vars

\* The budget is charged only for invocations of the adapter: a replay of a
\* recorded outcome costs nothing.
ChargedPerInvocation ==
    \A e \in Engines :
        consumed[e] <= SumFunction([m \in Manifests |-> invoked[m] * Cost[m]])

\* Every call returns.
CallsReturn == \A w \in Workers : pc[w] # "idle" ~> pc[w] = "idle"

-----------------------------------------------------------------------------
(* Implementation of EffectOnce: a manifest is claimed by the durable      *)
(* compare-and-set to COMMITTING.                                          *)

\* The states a manifest can only be in once a commit call has claimed it.
ClaimedStates == {"committing", "committed", "verified", "failed",
                  "recovered_committed", "compensating", "compensated"}

Phase(m) ==
    IF invoked[m] > 0 THEN "executed"
    ELSE IF stored[m] \in ClaimedStates THEN "claimed"
    ELSE IF stored[m] = "revoked" THEN "void"
    ELSE "open"

Abstract == INSTANCE EffectOnce WITH phase <- [m \in Manifests |-> Phase(m)]

\* With a durable lifecycle store the engine implements EffectOnce.
ImplementsEffectOnce == Abstract!Spec
=============================================================================
