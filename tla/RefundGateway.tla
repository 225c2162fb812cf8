--------------------------- MODULE RefundGateway ---------------------------
(***************************************************************************)
(* The refund journey of the gateway (gateway/refunds.py): propose,        *)
(* approve, deny, execute, verify, recover and compensate, and the         *)
(* activation of a risk policy, for the refunds of one organization.       *)
(*                                                                         *)
(* A handler runs in a thread of the server's pool.  It reads and writes   *)
(* dictionaries in memory (mem), then writes the same items one by one to  *)
(* gateway.db (db), from which a new process rebuilds the dictionaries.    *)
(* The engine's lifecycle and audit journal are durable; the ledger of the *)
(* payment simulator is not.  Handlers interleave between their steps, and *)
(* a restart cuts all of them off.  A request that is refused before it    *)
(* changes anything is not a step.  Every refund has its own idempotency   *)
(* key; CommitEngine has the case of a shared one, and the stores' faults. *)
(***************************************************************************)
EXTENDS Lifecycle, Naturals, Sequences, FiniteSets, SequencesExt

CONSTANTS
    Members,        \* users of the organization, each with a session
    Refunds,        \* refund manifests, like all others of one amount
    Threads,        \* threads of the server
    BundleIds,      \* names of risk policies
    Required,       \* human approvals the assessment of a refund asks for
    Funds,          \* how many refunds the source account can pay
    MaxActivations, \* bound on policy activations
    MaxRestarts     \* bound on process restarts

ASSUME RefundAssumption ==
    /\ Required \in Nat \ {0} /\ Funds \in Nat
    /\ MaxActivations \in Nat /\ MaxRestarts \in Nat

\* A sealed policy bundle is known by its hash, a number; NoHash is None.
NoHash == 0
Hashes == 1..MaxActivations

\* A grant: the policy it is bound to and the approvers of its quorum; asked is
\* history, the policy its approver asked for instead of the one on record.
Grant(bound, asked, voters) == [bound |-> bound, asked |-> asked, voters |-> voters]
NoGrant == Grant(NoHash, NoHash, {})
NoBundle == "none"

\* CommitResult: "ambiguous" is success=False with the word in its detail.
CommitResults == {"none", "success", "failed", "ambiguous"}
OutcomeProofs == {"none", "match", "mismatch"}

VARIABLES
    mem, db,        \* the dictionaries of ApiState, in memory and in gateway.db
    life,           \* the engine's lifecycle state of each refund
    denied,         \* refunds with an authorization_denied event in the journal
    ledger,         \* refunds the simulator has a settled payment for
    others,         \* payments of other refunds from the same account
    balance,        \* refund -> the balance its manifest was prepared against
    task,           \* thread -> the request it handles
    paid,           \* refund -> the grants its money moved under, ever
    scored,         \* refund -> the policy that assessed it
    torn,           \* refunds proposed by a handler that a restart cut off
                    \* before the row of the policy that assessed them
    activations, restarts

refund == <<life, denied, ledger, others, balance, paid, scored, torn>>
stores == <<mem, db>>
vars == <<stores, refund, task, activations, restarts>>

Idle == [pc |-> "idle"]

\* A handler between two of its steps: what it does next (pc), the refund it
\* is about, the grant it carries and the word (a user or a result) it
\* remembers, and the rows it still has to write.
Task(pc, r, grant, word, save) ==
    [pc |-> pc, refund |-> r, grant |-> grant, word |-> word, save |-> save]

\* A handler that only has rows to write before it answers.
Done(save) == [pc |-> "done", save |-> save]

Item(bucket, key, value) == <<bucket, key, value>>

Empty ==
    [sealed     |-> [r \in Refunds |-> FALSE],
     assessment |-> [r \in Refunds |-> FALSE],
     quorum     |-> [r \in Refunds |-> FALSE],
     frozen     |-> [r \in Refunds |-> NoHash],
     statements |-> [r \in Refunds |-> << >>],
     grant      |-> [r \in Refunds |-> NoGrant],
     index      |-> [r \in Refunds |-> FALSE],
     commit     |-> [r \in Refunds |-> "none"],
     proof      |-> [r \in Refunds |-> "none"],
     bundle     |-> [b \in BundleIds |-> NoHash],
     active     |-> [k \in {"id"} |-> NoBundle]]

Init ==
    /\ mem = Empty /\ db = Empty
    /\ life = [r \in Refunds |-> "proposed"]
    /\ denied = {} /\ ledger = {} /\ others = 0
    /\ balance = [r \in Refunds |-> 0]
    /\ task = [t \in Threads |-> Idle]
    /\ paid = [r \in Refunds |-> << >>]
    /\ scored = [r \in Refunds |-> NoHash]
    /\ torn = {}
    /\ activations = 0 /\ restarts = 0

-----------------------------------------------------------------------------
(* The engine and the simulator as the handlers call them.                 *)

Move(r, from, to) ==
    /\ life[r] = from /\ IsLegalTransition(from, to)
    /\ life' = [life EXCEPT ![r] = to]

Balance == Funds - Cardinality(ledger) - others

\* evaluate_quorum counts the approvers, whatever the number of statements.
QuorumOfStatements(statements) == Len(statements) >= Required     \* mutant
QuorumMet(statements) == Cardinality(ToSet(statements)) >= Required

\* What a re-observation of the provider shows.
Observed(r) == IF r \in ledger THEN "match" ELSE "mismatch"

-----------------------------------------------------------------------------
(* Steps common to the handlers.                                           *)

Free(t) == task[t] = Idle

At(t, pc) == task[t].pc = pc /\ task[t].save = << >>

Ends(t) == task' = [task EXCEPT ![t] = Idle]

Goes(t, pc) == task' = [task EXCEPT ![t].pc = pc]

\* put_refund_state, the next one the handler makes.  The value is the one
\* dumped when the handler reached this call.
Put(t) ==
    /\ task[t] # Idle /\ task[t].save # << >>
    /\ LET i == Head(task[t].save) rest == Tail(task[t].save) IN
       /\ db' = [db EXCEPT ![i[1]][i[2]] = i[3]]
       /\ task' = [task EXCEPT ![t] = IF rest = << >> /\ @.pc = "done" THEN Idle
                                      ELSE [@ EXCEPT !.save = rest]]
    /\ UNCHANGED <<mem, refund, activations, restarts>>

\* The engine refuses with a KarmaSakshiError: an expired statement, grant or
\* bundle, a quorum not met, a lifecycle that has moved on.
Refuse(t) ==
    /\ At(t, "authorize") \/ At(t, "commit")
    /\ Ends(t)
    /\ UNCHANGED <<stores, refund, activations, restarts>>

-----------------------------------------------------------------------------
(* activate_policy                                                         *)

ActivatePolicy(t, b) ==
    /\ Free(t)
    /\ activations < MaxActivations
    /\ activations' = activations + 1
    /\ mem' = [mem EXCEPT !.bundle[b] = activations', !.active["id"] = b]
    /\ task' = [task EXCEPT ![t] =
                  Done(<<Item("bundle", b, activations'), Item("active", "id", b)>>)]
    /\ UNCHANGED <<db, refund, restarts>>

\* The bundle that assesses a proposal.
ActiveBundle == IF mem.active["id"] = NoBundle THEN NoHash ELSE mem.bundle[mem.active["id"]]

-----------------------------------------------------------------------------
(* propose_refund: prepare, seal and assess, then four rows in this order, *)
(* the last one only if a policy is active.                                *)

ProposeRefund(t, r) ==
    /\ Free(t)
    /\ life[r] = "proposed"
    /\ life' = [life EXCEPT ![r] = "sealed"]
    /\ balance' = [balance EXCEPT ![r] = Balance]
    /\ scored' = [scored EXCEPT ![r] = ActiveBundle]
    /\ mem' = [mem EXCEPT !.sealed[r] = TRUE, !.assessment[r] = TRUE,
                          !.quorum[r] = TRUE, !.frozen[r] = ActiveBundle]
    /\ task' = [task EXCEPT ![t] = Done(
                  <<Item("sealed", r, TRUE), Item("assessment", r, TRUE),
                    Item("quorum", r, TRUE)>>
                  \o IF ActiveBundle = NoHash THEN << >>
                     ELSE <<Item("frozen", r, ActiveBundle)>>)]
    /\ UNCHANGED <<db, denied, ledger, others, paid, torn,
                   activations, restarts>>

-----------------------------------------------------------------------------
(* approve_refund: the checks, the statement, its row, the count, the      *)
(* engine call, the dictionaries, two rows.                                *)

\* The policy the grant will be bound to: the one the approver names, or the
\* one that assessed the refund.
BoundToActive(r, b) == IF b = NoBundle THEN ActiveBundle ELSE mem.bundle[b]     \* mutant
BoundPolicy(r, b) == IF b = NoBundle THEN mem.frozen[r] ELSE mem.bundle[b]

\* The policy the approver names, where it is not the one on record.
NamedPolicy(r, b) ==
    IF b # NoBundle /\ mem.bundle[b] # mem.frozen[r] THEN mem.bundle[b] ELSE NoHash

\* Neither denied nor already authorized.
Undecided(r) == r \notin denied /\ ~ mem.index[r]

ApproveRefund(t, u, r, b) ==
    /\ Free(t)
    /\ mem.sealed[r]
    /\ Undecided(r)
    /\ mem.assessment[r] /\ mem.quorum[r]
    /\ u \notin ToSet(mem.statements[r])
    /\ b # NoBundle => mem.bundle[b] # NoHash
    /\ task' = [task EXCEPT ![t] =
                  Task("sign", r, Grant(BoundPolicy(r, b), NamedPolicy(r, b), {}), u, << >>)]
    /\ UNCHANGED <<stores, life, denied, ledger, others, balance, paid, scored, torn,
                   activations, restarts>>

\* statements.append, and the dump of the list for its row.
RecordStatement(t) ==
    /\ At(t, "sign")
    /\ LET r == task[t].refund  list == Append(mem.statements[r], task[t].word) IN
       /\ mem' = [mem EXCEPT !.statements[r] = list]
       /\ task' = [task EXCEPT ![t] = Task("count", r, @.grant, "none",
                                           <<Item("statements", r, list)>>)]
    /\ UNCHANGED <<db, refund, activations, restarts>>

\* The audit event and the comparison of the live list's length.
CountStatements(t) ==
    /\ At(t, "count")
    /\ IF Len(mem.statements[task[t].refund]) < Required THEN Ends(t) ELSE Goes(t, "authorize")
    /\ UNCHANGED <<stores, refund, activations, restarts>>

\* authorize_with_quorum over the live list.
AuthorizeWithQuorum(t) ==
    LET r == task[t].refund
        grant == [task[t].grant EXCEPT !.voters = ToSet(mem.statements[r])] IN
    /\ At(t, "authorize")
    /\ QuorumMet(mem.statements[r])
    /\ Move(r, "sealed", "authorized")
    /\ task' = [task EXCEPT ![t] = Task("register", r, grant, "none", << >>)]
    /\ UNCHANGED <<stores, denied, ledger, others, balance, paid, scored, torn,
                   activations, restarts>>

\* register_grant, and persist_grant_and_index to come.
GrantRowOnly(r, grant) == <<Item("grant", r, grant)>>     \* mutant
GrantRows(r, grant) == <<Item("grant", r, grant), Item("index", r, TRUE)>>

RegisterGrant(t) ==
    /\ At(t, "register")
    /\ LET r == task[t].refund IN
       /\ mem' = [mem EXCEPT !.grant[r] = task[t].grant, !.index[r] = TRUE]
       /\ task' = [task EXCEPT ![t] = Done(GrantRows(r, @.grant))]
    /\ UNCHANGED <<db, refund, activations, restarts>>

-----------------------------------------------------------------------------
(* deny_refund: the checks, then the audit event.                          *)

DenyRefund(t, r) ==
    /\ Free(t)
    /\ mem.sealed[r]
    /\ Undecided(r)
    /\ life[r] = "sealed"
    /\ task' = [task EXCEPT ![t] = Task("deny", r, NoGrant, "none", << >>)]
    /\ UNCHANGED <<stores, refund, activations, restarts>>

RecordDenial(t) ==
    /\ At(t, "deny")
    /\ denied' = denied \cup {task[t].refund}
    /\ Ends(t)
    /\ UNCHANGED <<stores, life, ledger, others, balance, paid, scored, torn,
                   activations, restarts>>

-----------------------------------------------------------------------------
(* execute_refund: the bundle of the grant, looked up by its hash, the     *)
(* engine's commit, the dictionary and its row.                            *)

PolicyBundleByHash(h) == h = NoHash \/ \E b \in BundleIds : mem.bundle[b] = h

ExecuteRefund(t, r) ==
    /\ Free(t)
    /\ mem.sealed[r] /\ mem.grant[r] # NoGrant
    /\ PolicyBundleByHash(mem.grant[r].bound)
    /\ task' = [task EXCEPT ![t] = Task("commit", r, mem.grant[r], "none", << >>)]
    /\ UNCHANGED <<stores, refund, activations, restarts>>

\* The grant is reserved and the lifecycle moves.
CommitAnyState(r) == life[r] \in {"authorized", "committing", "failed"} /\ life' = [life EXCEPT ![r] = "committing"]     \* mutant
BeginCommit(r) == Move(r, "authorized", "committing")

StartCommit(t) ==
    /\ At(t, "commit")
    /\ BeginCommit(task[t].refund)
    /\ Goes(t, "validate")
    /\ UNCHANGED <<stores, denied, ledger, others, balance, paid, scored, torn,
                   activations, restarts>>

\* validate_preconditions: the balance must be the one of the preparation;
\* if not the lifecycle fails and the handler answers 409 without a result.
ValidatePreconditions(t) ==
    LET r == task[t].refund IN
    /\ At(t, "validate")
    /\ IF Balance = balance[r] /\ Balance > 0
       THEN Goes(t, "pay") /\ UNCHANGED life
       ELSE Ends(t) /\ Move(r, "committing", "failed")
    /\ UNCHANGED <<stores, denied, ledger, others, balance, paid, scored, torn,
                   activations, restarts>>

\* submit_payment: settles, and then its answer may be lost (the handler of
\* inject_payment_simulator_ambiguity arms that at any time), or fails for
\* lack of money.
SubmitPayment(t) ==
    LET r == task[t].refund IN
    /\ At(t, "pay")
    /\ \/ /\ Balance > 0
          /\ ledger' = ledger \cup {r}
          /\ paid' = [paid EXCEPT ![r] = Append(@, task[t].grant)]
          /\ \E result \in {"success", "ambiguous"} :
                task' = [task EXCEPT ![t] = Task("finish", r, NoGrant, result, << >>)]
       \/ /\ Balance = 0
          /\ task' = [task EXCEPT ![t] = Task("finish", r, NoGrant, "failed", << >>)]
          /\ UNCHANGED <<ledger, paid>>
    /\ UNCHANGED <<stores, life, denied, others, balance, scored, torn,
                   activations, restarts>>

\* Refunds other than the ones modelled draw on the account.  A payment before
\* the first proposal is a smaller Funds.
OtherPayment ==
    /\ \E r \in Refunds : life[r] # "proposed"
    /\ Balance > 0
    /\ others' = others + 1
    /\ UNCHANGED <<stores, life, denied, ledger, balance, paid, scored, torn, task,
                   activations, restarts>>

\* The engine records the outcome; the handler stores the result.
FinishCommit(t) ==
    LET r == task[t].refund  result == task[t].word IN
    /\ At(t, "finish")
    /\ Move(r, "committing", IF result = "success" THEN "committed" ELSE "failed")
    /\ mem' = [mem EXCEPT !.commit[r] = result]
    /\ task' = [task EXCEPT ![t] = Done(<<Item("commit", r, result)>>)]
    /\ UNCHANGED <<db, denied, ledger, others, balance, paid, scored, torn,
                   activations, restarts>>

-----------------------------------------------------------------------------
(* verify_refund and recover_refund: re-observe, keep the proof, persist.  *)

KeepProof(t, r, proof) ==
    /\ mem' = [mem EXCEPT !.proof[r] = proof]
    /\ task' = [task EXCEPT ![t] = Done(<<Item("proof", r, proof)>>)]
    /\ UNCHANGED <<db, denied, ledger, others, balance, paid, scored, torn,
                   activations, restarts>>

VerifyRefund(t, r) ==
    /\ Free(t)
    /\ mem.sealed[r] /\ mem.commit[r] # "none"
    /\ Move(r, "committed", "verified")
    /\ KeepProof(t, r, Observed(r))

\* recover_ambiguous_commit moves the lifecycle only on evidence and only if
\* the move is legal.
RecoveryOptimistic(r) == IF life[r] = "failed" THEN "match" ELSE Observed(r)     \* mutant
RecoveryProbe(r) == Observed(r)

RecoverRefund(t, r) ==
    /\ Free(t)
    /\ mem.sealed[r]
    /\ life' = IF RecoveryProbe(r) = "match" /\ IsLegalTransition(life[r], "recovered_committed")
               THEN [life EXCEPT ![r] = "recovered_committed"] ELSE life
    /\ KeepProof(t, r, RecoveryProbe(r))

-----------------------------------------------------------------------------
(* compensate_refund: a compensation manifest and a grant of its own, both *)
(* made here; a payment of the simulator is never reversed, so the attempt *)
(* fails.  It leaves an original that is not verified as it is, and is no  *)
(* step then.  The rows of the compensation are read by no handler here.   *)

CompensateRefund(t, u, r) ==
    /\ Free(t)
    /\ mem.sealed[r] /\ mem.commit[r] # "none"
    /\ u \in ToSet(mem.statements[r])
    /\ Move(r, "verified", "compensating")
    /\ task' = [task EXCEPT ![t] = Task("reverse", r, NoGrant, "none", << >>)]
    /\ UNCHANGED <<stores, denied, ledger, others, balance, paid, scored, torn,
                   activations, restarts>>

\* commit_compensation ends with the original failed.
FinishCompensation(t) ==
    /\ At(t, "reverse")
    /\ Move(task[t].refund, "compensating", "failed")
    /\ Ends(t)
    /\ UNCHANGED <<stores, denied, ledger, others, balance, paid, scored, torn,
                   activations, restarts>>

-----------------------------------------------------------------------------
(* A new process over the same files: rehydrate_refund_state.              *)

Restart ==
    /\ restarts < MaxRestarts
    /\ restarts' = restarts + 1
    /\ mem' = db
    /\ ledger' = {} /\ others' = 0
    /\ torn' = torn \cup {r \in Refunds : \E t \in Threads :
                   task[t] # Idle /\ \E i \in ToSet(task[t].save) : i[1] = "frozen" /\ i[2] = r}
    /\ task' = [t \in Threads |-> Idle]
    /\ UNCHANGED <<db, life, denied, balance, paid, scored, activations>>
-----------------------------------------------------------------------------
(* The read model: _refund_detail.                                         *)

DecisionStatus(r) ==
    IF r \in denied THEN "denied"
    ELSE IF mem.index[r] /\ mem.grant[r] # NoGrant THEN "approved" ELSE "pending"

VerificationStatus(r) ==
    CASE mem.proof[r] = "match" -> "verified_match"
      [] mem.proof[r] = "mismatch" -> "verified_mismatch"
      [] mem.proof[r] = "none" /\ mem.commit[r] = "ambiguous" -> "ambiguous"
      [] mem.proof[r] = "none" /\ mem.commit[r] = "none" -> "not_started"
      [] mem.proof[r] = "none" /\ mem.commit[r] = "success" -> "pending"
      [] mem.proof[r] = "none" /\ mem.commit[r] = "failed" -> "failed"

CanApprove(r) == life[r] = "sealed" /\ DecisionStatus(r) = "pending"

-----------------------------------------------------------------------------
Requests(t) ==
    \/ \E b \in BundleIds : ActivatePolicy(t, b)
    \/ \E r \in Refunds :
          \/ ProposeRefund(t, r)
          \/ \E u \in Members, b \in BundleIds \cup {NoBundle} : ApproveRefund(t, u, r, b)
          \/ DenyRefund(t, r)
          \/ ExecuteRefund(t, r)
          \/ VerifyRefund(t, r)
          \/ RecoverRefund(t, r)
          \/ \E u \in Members : CompensateRefund(t, u, r)

Continues(t) ==
    \/ Put(t) \/ Refuse(t)
    \/ RecordStatement(t) \/ CountStatements(t) \/ AuthorizeWithQuorum(t) \/ RegisterGrant(t)
    \/ RecordDenial(t)
    \/ StartCommit(t) \/ ValidatePreconditions(t) \/ SubmitPayment(t) \/ FinishCommit(t)
    \/ FinishCompensation(t)

Next ==
    \/ \E t \in Threads : Requests(t) \/ Continues(t)
    \/ OtherPayment
    \/ Restart

Spec == Init /\ [][Next]_vars
-----------------------------------------------------------------------------
(* Properties.                                                             *)

\* Money moves only behind a quorum: the grant that a payment was made under
\* was issued on the statements of as many different users of the organization
\* as the assessment asked for, whatever races and restarts came between
\* (approve_refund, evaluate_quorum, execute_refund).
PaidBehindQuorum ==
    \A r \in Refunds : \A g \in ToSet(paid[r]) :
        Cardinality(g.voters) >= Required

\* The money of a refund moves at most once, through duplicate requests, lost
\* answers, recovery and restarts that lose the simulator's own ledger
\* (execute_refund: "Commit exactly once").
PaidAtMostOnce == \A r \in Refunds : Len(paid[r]) <= 1

\* The status page does not lie about money: verified_match is shown only for
\* a payment that was made and failed only for one that was not, with the
\* results of handlers stored in any order (_verification_status).
StatusIsHonest ==
    \A r \in Refunds :
        /\ VerificationStatus(r) = "verified_match" => paid[r] # << >>
        /\ VerificationStatus(r) = "failed" => paid[r] = << >>

\* No silent rebinding: a grant is bound to the policy that assessed the refund,
\* however the active policy changed and whatever was restarted between proposal
\* and approval, unless its approver asked for another; it is bound to none only
\* if none was active at the proposal.  The exception is what the code loses: a
\* refund whose proposal was cut off between the rows of refunds.py:547-550 can be
\* approved under no policy at all (approve_refund, assessment_policy_bundles).
BoundRightly(r, g) ==
    IF g.asked # NoHash THEN g.bound = g.asked
    ELSE g.bound = scored[r] \/ (r \in torn /\ g.bound = NoHash)

NoSilentRebinding ==
    \A r \in Refunds : mem.grant[r] # NoGrant => BoundRightly(r, mem.grant[r])

\* Whenever no request is in flight, a restart would rebuild every decision the
\* memory holds: manifests, grants with their index, results (write-through of
\* refund_state.py).  Statements, bundles, the active policy and outcome proofs
\* are left out: two requests may write them to the database in the other order.
DecisionsAreDurable ==
    (\A t \in Threads : task[t] = Idle) =>
        \A f \in {"sealed", "assessment", "quorum", "frozen", "grant", "index", "commit"} :
            mem[f] = db[f]
=============================================================================
