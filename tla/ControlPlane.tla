---------------------------- MODULE ControlPlane ----------------------------
(***************************************************************************)
(* The HTTP control plane (api/routes.py, api/state.py) over the engine    *)
(* and the SQLite row adapter: manifests of row effects, their grants and  *)
(* executions, compensations, the artifacts grants are bound to, and the   *)
(* kill switch.                                                            *)
(*                                                                         *)
(* The dictionaries of ApiState are memory: a restart empties them and     *)
(* disengages the kill switch.  The lifecycle, the grant slots and the row *)
(* are files.  A handler runs in a worker thread; the two handlers that    *)
(* reach an adapter are several steps of a thread, every other handler     *)
(* touches one dictionary or one store and is one step.  The commit path   *)
(* of the engine is in CommitEngine at full detail; here it is what it     *)
(* does to the row, the slot and the lifecycle.  Clients give every        *)
(* request an idempotency key of its own.                                  *)
(***************************************************************************)
EXTENDS Lifecycle, LedgerRow, FiniteSets

CONSTANTS
    Forward,        \* manifests of row effects
    Comps,          \* compensation manifests
    Threads,        \* worker threads
    Balances,       \* balances a client asks for
    BundleIds,      \* policy bundle ids: one namespace for three kinds of bundle
    Approvers,      \* principals who sign approval statements
    Required,       \* approvals an approval bundle requires
    MaxUses,        \* max_uses of every grant
    MaxMinted,      \* bound: bundles, envelopes and graphs made
    MaxRestarts,    \* bound: restarts of the process
    None            \* an entry that is not there

Ids == Forward \cup Comps

ASSUME ControlPlaneAssumption ==
    /\ None \notin Ids \cup {"ok", "failed", "match", "mismatch"}
    /\ Forward \cap Comps = {}
    /\ MaxUses \in Nat \ {0} /\ Required \in Nat \ {0}

VARIABLES
    row,            \* ledger.db
    life,           \* lifecycle.db
    slot,           \* grants.db: manifest -> the slot of its grant
    made,           \* the content of each manifest that was sealed
    known,          \* sealed_manifests
    grants,         \* grants and grants_by_manifest: a manifest has at most one
    results,        \* commit_results: manifest -> None, "ok" or "failed"
    proofs,         \* outcome_proofs: manifest -> None, "match" or "mismatch"
    undone,         \* compensation_results: manifest -> None, "ok" or "failed"
    kill,           \* kill_switch_engaged
    bundles,        \* policy_bundles: id -> None or a bundle
    envelope,       \* decision_envelopes, with one id: 0 or the hash of the envelope
    graphs,         \* causal_graphs: hashes, because every graph gets a new id
    statements,     \* approval_statements: the last of each approver about each bundle
    thread,         \* worker thread -> what it is doing
    minted,         \* hashes given out
    restarts,       \* restarts so far
    generation,     \* history: inserts of the row so far
    undid,          \* history: calls of adapter.compensate
    applied,        \* history: successful calls of adapter.commit
    ran,            \* history: commits that passed the gates, with what was shown
    caught          \* history: threads that were past the check when kill was engaged

stores  == <<row, life, slot>>
memory  == <<known, grants, results, proofs, undone, kill, bundles, envelope, graphs, statements>>
history == <<generation, undid, applied, ran, caught>>
plane   == <<stores, made, memory, thread, minted, restarts, history>>

Decisions == {"approve", "dissent"}

Idle == [at |-> "idle"]

FreeSlot == [uses |-> 0, reserved |-> FALSE, revoked |-> FALSE]

\* What a client shows at an execute, or what a grant is bound to: hashes, 0
\* for nothing.
Nothing == [policy |-> 0, envelope |-> 0, graph |-> 0]

\* _transition, where the table of the lifecycle decides; the two branches of
\* a caller are Moves and its negation.
Moves(id, target) == IsLegalTransition(life[id], target)

-----------------------------------------------------------------------------
(* prepare_manifest: engine.prepare and engine.seal.                       *)

PrepareManifest(m, operation, new) ==
    /\ life[m] = "proposed"
    /\ made' = [made EXCEPT ![m] =
                   [effect |-> PrepareRow(operation, new, row), of |-> None, saw |-> generation]]
    /\ life' = [life EXCEPT ![m] = "sealed"]
    /\ known' = known \cup {m}
    /\ UNCHANGED <<row, slot, grants, results, proofs, undone, kill, bundles, envelope, graphs,
                   statements, thread, minted, restarts, history>>

\* A mutant of Shows: something is shown where the grant wants something.
ShowsSomething(grant, shown) ==
    \A k \in DOMAIN Nothing : grant[k] # 0 => shown[k] # 0

\* What the commit gate asks of the artifacts a grant is bound to: the same
\* hash, whatever the dictionary holds under the id by now.
Shows(grant, shown) ==
    \A k \in DOMAIN Nothing : grant[k] # 0 => shown[k] = grant[k]

\* The hash stored under a bundle id, 0 for no id and for an id nobody stored.
HashOf(b) == IF b = None THEN 0 ELSE IF bundles[b] = None THEN 0 ELSE bundles[b].hash

\* A grant's record: register_grant after the engine moved the manifest.
Register(m, binding) ==
    /\ life' = [life EXCEPT ![m] = "authorized"]
    /\ grants' = [grants EXCEPT ![m] = binding]
    /\ UNCHANGED <<row, slot, made, known, results, proofs, undone, kill, bundles, envelope, graphs,
                   statements, thread, minted, restarts, history>>

\* approve_manifest: at most one of envelope and graph; a policy bundle may be
\* of any kind, because only the quorum and the duty gates ask for a kind (the
\* duty gate is EnforceSeparationOfDuty of Authority).
ApproveManifest(m, b, withEnvelope, graph) ==
    /\ m \in known
    /\ ~(withEnvelope /\ graph # 0)
    /\ b # None => bundles[b] # None
    /\ withEnvelope => envelope # 0
    /\ graph # 0 => graph \in graphs
    /\ Moves(m, "authorized")
    /\ Register(m, [policy   |-> HashOf(b),
                    envelope |-> IF withEnvelope THEN envelope ELSE 0,
                    graph    |-> graph, quorum |-> 0])

\* The console's form: a grant that is bound to nothing.
ConsoleApprove(m) == ApproveManifest(m, None, FALSE, 0)

\* evaluate_quorum over the stored statements about exactly this bundle: the
\* last one of each approver counts, and any dissent vetoes.
Quorum(m, hash) ==
    LET about == {s \in statements : s.manifest = m /\ s.hash = hash}
    IN  /\ Cardinality({s.by : s \in about}) >= Required
        /\ \A s \in about : s.decision = "approve"

\* approve_with_quorum
ApproveWithQuorum(m, a, b) ==
    /\ m \in known
    /\ bundles[a] # None /\ bundles[a].kind = "approval"
    /\ b # None => bundles[b] # None
    /\ Moves(m, "authorized")
    /\ Quorum(m, bundles[a].hash)
    /\ Register(m, [policy |-> HashOf(b), envelope |-> 0, graph |-> 0,
                    quorum |-> bundles[a].hash])

\* revoke_grant: the slot at once, the lifecycle if it is still revocable.
RevokeGrant(id) ==
    /\ grants[id] # None
    /\ slot' = [slot EXCEPT ![id].revoked = TRUE]
    /\ life' = IF IsRevocable(life[id]) THEN [life EXCEPT ![id] = "revoked"] ELSE life
    /\ UNCHANGED <<row, made, memory, thread, minted, restarts, history>>

-----------------------------------------------------------------------------
(* The artifacts.                                                          *)

\* The three kinds of bundle share one dictionary: an id that is in use, by a
\* bundle of any kind, now names the new bundle.
StoreBundle(b, kind) ==
    /\ minted < MaxMinted
    /\ minted' = minted + 1
    /\ bundles' = [bundles EXCEPT ![b] = [kind |-> kind, hash |-> minted + 1]]
    /\ UNCHANGED <<stores, made, known, grants, results, proofs, undone, kill, envelope, graphs,
                   statements, thread, restarts, history>>

CreatePolicyBundle(b) == StoreBundle(b, "risk")

CreateApprovalPolicyBundle(b) == StoreBundle(b, "approval")

CreateSeparationPolicyBundle(b) == StoreBundle(b, "separation")

\* create_decision_envelope
CreateEnvelope ==
    /\ minted < MaxMinted
    /\ minted' = minted + 1
    /\ envelope' = minted + 1
    /\ UNCHANGED <<stores, made, known, grants, results, proofs, undone, kill, bundles, graphs,
                   statements, thread, restarts, history>>

\* create_causal_graph, over manifests the process knows.
CreateGraph(m) ==
    /\ minted < MaxMinted
    /\ m \in known
    /\ minted' = minted + 1
    /\ graphs' = graphs \cup {minted + 1}
    /\ UNCHANGED <<stores, made, known, grants, results, proofs, undone, kill, bundles, envelope,
                   statements, thread, restarts, history>>

\* submit_approval: about the bundle that the id names now, of whatever kind.
SubmitApproval(m, b, who, decision) ==
    /\ m \in known /\ bundles[b] # None
    /\ LET s == [manifest |-> m, by |-> who, hash |-> bundles[b].hash, decision |-> decision]
       IN  /\ s \notin statements
           /\ statements' = {t \in statements :
                                ~(t.manifest = m /\ t.by = who /\ t.hash = s.hash)} \cup {s}
    /\ UNCHANGED <<stores, made, known, grants, results, proofs, undone, kill, bundles, envelope, graphs,
                   thread, minted, restarts, history>>

-----------------------------------------------------------------------------
(* execute_manifest and engine.commit.                                     *)

\* A thread is done: it answers, and no longer counts as caught.
Answer(t) ==
    /\ thread' = [thread EXCEPT ![t] = Idle]
    /\ caught' = caught \ {t}

\* A mutant of KillSwitchOff: nobody looks.
SwitchIgnored == TRUE

\* Both handlers look at the switch once, first.
KillSwitchOff == ~kill

\* The handler: the switch, then the dictionaries.
Execute(t, m, shown) ==
    /\ thread[t] = Idle
    /\ KillSwitchOff
    /\ m \in known /\ grants[m] # None
    /\ shown.policy # 0 => \E b \in BundleIds : HashOf(b) = shown.policy
    /\ shown.envelope # 0 => shown.envelope = envelope
    /\ shown.graph # 0 => shown.graph \in graphs
    /\ thread' = [thread EXCEPT ![t] = [at |-> "entered", id |-> m, shown |-> shown,
                                        grant |-> grants[m]]]
    /\ UNCHANGED <<stores, made, memory, minted, restarts, history>>

\* The gates; an effect type the registry does not declare stops a
\* compensation manifest here.
Admitted(job) ==
    /\ Shows(job.grant, job.shown)
    /\ job.id \in Forward
    /\ ~slot[job.id].revoked

\* grant_store.reserve
Reservable(id) == ~slot[id].revoked /\ ~slot[id].reserved /\ slot[id].uses < MaxUses

\* Gates, reservation and the move to COMMITTING; a refusal leaves no trace
\* but the audit event, and gives the slot back.
CommitEnter(t) ==
    LET job == thread[t] IN
    /\ job.at = "entered"
    /\ IF Admitted(job) /\ Reservable(job.id) /\ Moves(job.id, "committing")
       THEN /\ slot' = [slot EXCEPT ![job.id].reserved = TRUE]
            /\ life' = [life EXCEPT ![job.id] = "committing"]
            /\ thread' = [thread EXCEPT ![t].at = "committing"]
            /\ ran' = ran \cup {[id |-> job.id, grant |-> job.grant, shown |-> job.shown]}
            /\ UNCHANGED caught
       ELSE Answer(t) /\ UNCHANGED <<slot, life, ran>>
    /\ UNCHANGED <<row, made, memory, minted, restarts, generation, undid, applied>>

\* An exception ends the attempt: release, FAILED, and no result is stored.
Failed(t) ==
    /\ slot' = [slot EXCEPT ![thread[t].id].reserved = FALSE]
    /\ life' = [life EXCEPT ![thread[t].id] = "failed"]
    /\ Answer(t)

\* validate_preconditions: StaleManifestError ends the attempt.
CommitCheck(t) ==
    LET job == thread[t] IN
    /\ job.at = "committing"
    /\ IF Satisfied(made[job.id].effect, row)
       THEN thread' = [thread EXCEPT ![t].at = "checked"] /\ UNCHANGED <<slot, life, caught>>
       ELSE Failed(t)
    /\ UNCHANGED <<row, made, memory, minted, restarts, generation, undid, applied, ran>>

\* adapter.commit; it may raise, before its statement or after it.
CommitCall(t) ==
    LET job == thread[t]
        done == CommitRow(made[job.id].effect, row)
    IN
    /\ job.at = "checked"
    /\ \/ /\ Failed(t)
          /\ UNCHANGED <<row, generation, applied>>
       \/ /\ row' = done.row
          /\ generation' = IF done.row.here /\ ~row.here THEN generation + 1 ELSE generation
          /\ applied' = IF done.success
                        THEN applied \cup {[id |-> job.id, found |-> row, in |-> generation]}
                        ELSE applied
          /\ \/ done.success /\ Failed(t)
             \/ /\ thread' = [thread EXCEPT ![t] = [at |-> "called", id |-> job.id,
                                                    ok |-> done.success]]
                /\ UNCHANGED <<life, slot, caught>>
    /\ UNCHANGED <<made, memory, minted, restarts, undid, ran>>

\* The slot, the lifecycle and commit_results.
CommitFinish(t) ==
    LET job == thread[t] IN
    /\ job.at = "called"
    /\ slot' = [slot EXCEPT ![job.id].reserved = FALSE,
                            ![job.id].uses = IF job.ok THEN @ + 1 ELSE @]
    /\ life' = [life EXCEPT ![job.id] = IF job.ok THEN "committed" ELSE "failed"]
    /\ results' = [results EXCEPT ![job.id] = IF job.ok THEN "ok" ELSE "failed"]
    /\ Answer(t)
    /\ UNCHANGED <<row, made, known, grants, proofs, undone, kill, bundles, envelope, graphs, statements,
                   minted, restarts, generation, undid, applied, ran>>

\* verify_manifest: VERIFIED says that the row was read, not what was read,
\* and the registry refuses it to a compensation manifest.
VerifyManifest(m) ==
    /\ m \in known \cap Forward /\ results[m] # None
    /\ Moves(m, "verified")
    /\ life' = [life EXCEPT ![m] = "verified"]
    /\ proofs' = [proofs EXCEPT ![m] = IF Matches(made[m].effect, row) THEN "match" ELSE "mismatch"]
    /\ UNCHANGED <<row, slot, made, known, grants, results, undone, kill, bundles, envelope, graphs,
                   statements, thread, minted, restarts, history>>

-----------------------------------------------------------------------------
(* Compensation: a manifest of its own, bound to the original's hash.      *)

\* build_compensation_manifest: bound to the original, with no row operation.
CompensationOf(o) == [effect |-> None, of |-> o, saw |-> 0]

\* engine.prepare_compensation and engine.seal
SealCompensation(o, c) ==
    /\ life[c] = "proposed"
    /\ made' = [made EXCEPT ![c] = CompensationOf(o)]
    /\ life' = [life EXCEPT ![c] = "sealed"]

\* prepare_compensation: whatever the state of the original.
PrepareCompensation(o, c) ==
    /\ o \in known
    /\ SealCompensation(o, c)
    /\ known' = known \cup {c}
    /\ UNCHANGED <<row, slot, grants, results, proofs, undone, kill, bundles, envelope, graphs,
                   statements, thread, minted, restarts, history>>

\* A mutant of BindsOriginal: any compensation manifest will do.
BindsAnything(c, o) == made[c].of # None

\* assert_compensation_binds_original
BindsOriginal(c, o) == made[c].of = o

\* engine.authorize_compensation: the binding, then authorize.
CompensationAuthorizable(o, c) == BindsOriginal(c, o) /\ Moves(c, "authorized")

\* authorize_compensation.  The plain approve handler also accepts a
\* compensation manifest, without the binding.
AuthorizeCompensation(o, c) ==
    /\ {o, c} \subseteq known
    /\ CompensationAuthorizable(o, c)
    /\ Register(c, [policy |-> 0, envelope |-> 0, graph |-> 0, quorum |-> 0])

\* execute_compensation: the switch and the dictionaries.
ExecuteCompensation(t, o, c) ==
    /\ thread[t] = Idle
    /\ KillSwitchOff
    /\ {o, c} \subseteq known /\ grants[c] # None
    /\ results[o] # None
    /\ thread' = [thread EXCEPT ![t] = [at |-> "asked", id |-> c, of |-> o, grant |-> grants[c]]]
    /\ UNCHANGED <<stores, made, memory, minted, restarts, history>>

\* The gates of commit_compensation: the handler shows no policy bundle, so a
\* grant that is bound to one is refused.
CompensationAdmitted(job) ==
    /\ BindsOriginal(job.id, job.of)
    /\ job.grant.policy = 0
    /\ ~slot[job.id].revoked

\* The reservation; then the original goes to COMPENSATING if it was VERIFIED,
\* and any other state of it is let through.
CompensateEnter(t) ==
    LET job == thread[t] IN
    /\ job.at = "asked"
    /\ IF CompensationAdmitted(job) /\ Reservable(job.id)
       THEN /\ slot' = [slot EXCEPT ![job.id].reserved = TRUE]
            /\ life' = IF life[job.of] = "verified"
                       THEN [life EXCEPT ![job.of] = "compensating"] ELSE life
            /\ thread' = [thread EXCEPT ![t] = [at |-> "reserved", id |-> job.id, of |-> job.of,
                                                was |-> life[job.of]]]
            /\ UNCHANGED caught
       ELSE Answer(t) /\ UNCHANGED <<slot, life>>
    /\ UNCHANGED <<row, made, memory, minted, restarts, generation, undid, applied, ran>>

\* The compensation goes to COMMITTING.  When it cannot, the slot is released,
\* the compensation goes to FAILED if its table allows that, and the original
\* stays COMPENSATING.
CompensateCommitting(t) ==
    LET job == thread[t] IN
    /\ job.at = "reserved"
    /\ IF Moves(job.id, "committing")
       THEN /\ life' = [life EXCEPT ![job.id] = "committing"]
            /\ thread' = [thread EXCEPT ![t].at = "compensating"]
            /\ UNCHANGED <<slot, caught>>
       ELSE /\ slot' = [slot EXCEPT ![job.id].reserved = FALSE]
            /\ life' = IF Moves(job.id, "failed") THEN [life EXCEPT ![job.id] = "failed"] ELSE life
            /\ Answer(t)
    /\ UNCHANGED <<row, made, memory, minted, restarts, generation, undid, applied, ran>>

\* What adapter.compensate does: a compensation manifest has no operation to
\* undo, and the adapter raises.
Undo(o) ==
    IF made[o].effect = None
    THEN [attempted |-> FALSE, succeeded |-> FALSE, row |-> row]
    ELSE CompensateRow(made[o].effect, row)

\* adapter.compensate and grant_store.commit.  Either may raise: the adapter
\* without touching the row, the store after the adapter has.
CompensateCall(t) ==
    LET job == thread[t]
        done == Undo(job.of)
        call == [by |-> job.id, on |-> job.of, ok |-> done.succeeded,
                 from |-> life[job.of], nth |-> Cardinality({u \in undid : u.by = job.id})]
    IN
    /\ job.at = "compensating"
    /\ \/ /\ Failed(t)
          /\ UNCHANGED <<row, undid>>
       \/ /\ made[job.of].effect # None
          /\ row' = done.row
          /\ undid' = undid \cup {call}
          /\ \/ Failed(t)
             \/ /\ slot' = [slot EXCEPT ![job.id].reserved = FALSE, ![job.id].uses = @ + 1]
                /\ thread' = [thread EXCEPT ![t] = [at |-> "undone", id |-> job.id, of |-> job.of,
                                                    was |-> job.was, ok |-> done.succeeded]]
                /\ UNCHANGED <<life, caught>>
    /\ UNCHANGED <<made, memory, minted, restarts, generation, applied, ran>>

\* The lifecycles.  The original's move to COMPENSATED is refused when it was
\* not VERIFIED: the handler answers 409 and stores no result, after the effect.
CompensateFinish(t) ==
    LET job == thread[t]
        target == IF job.ok THEN "compensated" ELSE "failed"
        claimed == job.ok \/ job.was = "verified"
        legal == claimed => Moves(job.of, target)
    IN
    /\ job.at = "undone"
    /\ life' = [life EXCEPT ![job.id] = IF job.ok THEN "committed" ELSE "failed",
                            ![job.of] = IF claimed /\ legal THEN target ELSE @]
    /\ results' = IF legal
                  THEN [results EXCEPT ![job.id] = IF job.ok THEN "ok" ELSE "failed"]
                  ELSE results
    /\ undone' = IF legal
                 THEN [undone EXCEPT ![job.of] = IF job.ok THEN "ok" ELSE "failed"]
                 ELSE undone
    /\ Answer(t)
    /\ UNCHANGED <<row, slot, made, known, grants, proofs, kill, bundles, envelope, graphs, statements,
                   minted, restarts, generation, undid, applied, ran>>

-----------------------------------------------------------------------------
(* Passports: what the process says of a manifest it knows.                *)

\* build_passport: the facts, from the dictionaries and the stores.
BuildPassport(id) ==
    [state        |-> life[id],
     granted      |-> grants[id] # None,
     revoked      |-> grants[id] # None /\ slot[id].revoked,
     answer       |-> results[id],
     observed     |-> proofs[id],
     compensation |-> undone[id]]

\* A mutant of DeriveOutcomeStatus that takes an answer for a success.
OutcomeByAnswer(p) ==
    CASE p.revoked \/ p.state = "revoked" -> "revoked"
      [] p.answer # None                  -> "committed_unverified"
      [] OTHER                            -> "unknown"

\* derive_outcome_status: a compensation outranks the observation, which
\* outranks the lifecycle and the answer of the commit.
DeriveOutcomeStatus(p) ==
    IF p.revoked \/ p.state = "revoked" THEN "revoked"
    ELSE IF p.compensation = "ok" THEN "compensation_verified"
    ELSE IF p.compensation = "failed" THEN "compensation_attempted"
    ELSE IF p.observed = "match" THEN "verified_match"
    ELSE IF p.observed = "mismatch" THEN "verified_mismatch"
    ELSE IF p.state = "failed" \/ p.answer = "failed" THEN "failed"
    ELSE IF p.answer = "ok" THEN "committed_unverified"
    ELSE IF p.granted THEN "authorized_not_committed"
    ELSE "unknown"

\* upgrade_passport_v1_to_v2
UpgradePassport(p) == [facts |-> p, outcome |-> DeriveOutcomeStatus(p)]

\* get_passport, version v2
GetPassport(id) == UpgradePassport(BuildPassport(id))

\* derive_compensation_status: the handler gives no adapter result, and no
\* outcome proof can exist, because the registry refuses the verification.
DeriveCompensationStatus(answer, proof) ==
    IF proof = "match" THEN "verified"
    ELSE IF answer = "ok" THEN "attempted" ELSE "refused"

\* get_compensation_passport and build_compensation_passport
CompensationPassport(o, c) ==
    [binds  |-> BindsOriginal(c, o),
     status |-> DeriveCompensationStatus(results[c], proofs[c])]

-----------------------------------------------------------------------------
(* The switch and the process.                                             *)

KillSwitchEngage ==
    /\ ~kill
    /\ kill' = TRUE
    /\ caught' = {t \in Threads : thread[t] # Idle}
    /\ UNCHANGED <<stores, made, known, grants, results, proofs, undone, bundles, envelope, graphs, statements,
                   thread, minted, restarts, generation, undid, applied, ran>>

KillSwitchDisengage ==
    /\ kill
    /\ kill' = FALSE
    /\ caught' = {}
    /\ UNCHANGED <<stores, made, known, grants, results, proofs, undone, bundles, envelope, graphs, statements,
                   thread, minted, restarts, generation, undid, applied, ran>>

\* build_default_state: files stay, dictionaries and threads do not, and the
\* switch is off.
FreshMemory ==
    /\ known = {} /\ grants = [id \in Ids |-> None] /\ results = [id \in Ids |-> None]
    /\ proofs = [id \in Ids |-> None] /\ undone = [id \in Ids |-> None]
    /\ kill = FALSE
    /\ bundles = [b \in BundleIds |-> None] /\ envelope = 0 /\ graphs = {} /\ statements = {}

RestartPlane ==
    /\ restarts < MaxRestarts
    /\ restarts' = restarts + 1
    /\ known' = {} /\ grants' = [id \in Ids |-> None] /\ results' = [id \in Ids |-> None]
    /\ proofs' = [id \in Ids |-> None] /\ undone' = [id \in Ids |-> None]
    /\ kill' = FALSE
    /\ bundles' = [b \in BundleIds |-> None] /\ envelope' = 0 /\ graphs' = {}
    /\ statements' = {}
    /\ thread' = [t \in Threads |-> Idle]
    /\ caught' = {}
    /\ UNCHANGED <<stores, made, minted, generation, undid, applied, ran>>

\* A new deployment, whose ledger may already hold the row.
InitPlane ==
    /\ row \in {Absent} \cup {Row(b, 0) : b \in Balances}
    /\ life = [id \in Ids |-> "proposed"]
    /\ slot = [id \in Ids |-> FreeSlot]
    /\ made = [id \in Ids |-> None]
    /\ FreshMemory
    /\ thread = [t \in Threads |-> Idle]
    /\ minted = 0 /\ restarts = 0
    /\ generation = 0 /\ undid = {} /\ applied = {} /\ ran = {} /\ caught = {}

-----------------------------------------------------------------------------
(* Properties.                                                             *)

\* An update or a deletion is carried out only over the balance its manifest
\* was prepared on, as long as the row was not inserted again in between: the
\* version column stands for the content of the row, compensations included
\* (adapters/sqlite_db.py, the WHERE clauses of commit and compensate).
UpdatesBuildOnWhatTheyRead ==
    \A a \in applied :
        LET m == made[a.id] IN
        m.effect.operation # "insert" /\ m.saw = a.in => a.found.balance = m.effect.previous

\* Compensations are honest: each compensation manifest calls the adapter at
\* most once, through crashes, retries and concurrent requests, and only on the
\* effect it is bound to; an original is COMPENSATED only if such a call
\* succeeded (engine/core.py, commit_compensation).
CompensationIsHonest ==
    /\ \A u \in undid : made[u.by].of = u.on /\ u.nth = 0
    /\ \A o \in Ids : life[o] = "compensated" => \E u \in undid : u.on = o /\ u.ok

\* A commit shows the very policy bundle, envelope and graph its grant was
\* bound to, although a bundle or an envelope with the same id may have
\* replaced it since; and a quorum's grant rests on enough approvals of the
\* bundle it names (api/routes.py, the dictionaries of artifacts).
GrantsStayBound ==
    /\ \A r \in ran : \A k \in DOMAIN Nothing : r.grant[k] \in {0, r.shown[k]}
    /\ \A m \in Forward :
        grants[m] # None /\ grants[m].quorum # 0
        => Cardinality({s.by : s \in {x \in statements : x.manifest = m
                                            /\ x.hash = grants[m].quorum}}) >= Required

\* What a manifest stands for was done: on the row, or as a compensation.
Happened(id) ==
    \/ \E a \in applied : a.id = id
    \/ \E u \in undid : u.by = id /\ u.ok

\* Passports are honest: one that says committed or verified is about an effect
\* that was carried out, one that says compensated about an effect whose
\* compensation succeeded, and a compensation's own passport says attempted
\* only if the adapter undid the original it is bound to, whatever crashed,
\* raced or was refused before (passports/v2.py and compensation/passport.py).
PassportsAreHonest ==
    \A id \in known :
        LET outcome == GetPassport(id).outcome IN
        /\ outcome \in {"committed_unverified", "verified_match", "verified_mismatch",
                        "compensation_verified"} => Happened(id)
        /\ outcome = "compensation_verified" => \E u \in undid : u.on = id /\ u.ok
        /\ \A c \in known \cap Comps :
            LET passport == CompensationPassport(id, c) IN
            passport.binds /\ passport.status # "refused"
            => \E u \in undid : u.by = c /\ u.on = id /\ u.ok

\* While the switch is engaged the only adapter calls are those of requests
\* that had passed its check before it was engaged: a request that arrives
\* later reaches no adapter, and a thread gets through once at most
\* (api/routes.py, execute_manifest and execute_compensation).
KillSwitchDrains ==
    [][kill /\ <<undid, applied>>' # <<undid, applied>>
       => \E t \in caught : thread'[t] # thread[t]]_plane

\* "Illegal transitions raise and never perform the external effect": an
\* adapter is asked to compensate only an effect whose lifecycle may still
\* become COMPENSATED (state_machine/states.py, the module's comment).
NoEffectOnIllegalMove ==
    \A u \in undid : IsLegalTransition(u.from, "compensated")
=============================================================================
