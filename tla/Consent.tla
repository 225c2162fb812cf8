------------------------------ MODULE Consent ------------------------------
(***************************************************************************)
(* Who has to agree, and who has to have seen it: approval quorums         *)
(* (approval/), separation of duties (duty/), witness quorums (witness/)   *)
(* and the quality of evidence (evidence/).                                *)
(*                                                                         *)
(* A batch of statements is a set: the code promises that their order does *)
(* not matter, and the identifiers that break ties are part of a statement. *)
(***************************************************************************)
EXTENDS Trust, FiniteSetsExt

\* max(group, key = (signed_at, statement_id)).
Latest(group) ==
    CHOOSE s \in group : \A t \in group : s.at > t.at \/ (s.at = t.at /\ s.id >= t.id)

\* A mutant of SelectAuthoritative that counts every statement.
SelectAll(statements) == statements

Signers(statements) == {s.by.id : s \in statements}

\* One statement for every identifier under which one was made, the most recent.
SelectAuthoritative(statements) ==
    {Latest({s \in statements : s.by.id = id}) : id \in Signers(statements)}

-----------------------------------------------------------------------------
(* Approval.                                                               *)

ValidApprovalPolicy(p) == p.required >= 1 /\ p.max >= p.required /\ p.cooling >= 0

\* sign_approval_statement.
SignApprovalStatement(s) == MayIssue(s.by) /\ s.until > s.at

\* verify_approval_statement_signature and _time_window: signed_at is not read.
VerifyStatement(s, keyring, now) == Verifies(keyring, s.key) /\ now <= s.until

\* The negation of _reject_reason.
Counts(s, policy, manifest, bundle, keyring, proposer, subject, now) ==
    /\ s.manifest = manifest
    /\ s.policy = bundle
    /\ s.by.type # "agent"
    /\ policy.forbidProposer => s.by.id # proposer.id
    /\ policy.forbidSubject => s.by.id # subject.id
    /\ VerifyStatement(s, keyring, now)

Approving(statements) == {s \in statements : s.decision = "approve"}
Dissenting(statements) == {s \in statements : s.decision = "dissent"}

MissingRoles(approving, policy) == policy.roles \ UNION {s.role : s \in approving}

CooledOff(approving, policy, now) ==
    \A s \in approving : now >= Min({t.at : t \in approving}) + policy.cooling

\* evaluate_quorum; a batch over the bound is refused before it is looked at.
EvaluateQuorum(statements, policy, manifest, bundle, keyring, proposer, subject, now) ==
    LET survivors == {s \in statements :
                        Counts(s, policy, manifest, bundle, keyring, proposer, subject, now)}
        authoritative == SelectAuthoritative(survivors)
        approving == Approving(authoritative)
    IN  [approving |-> Signers(approving),
         satisfied |->
            /\ Cardinality(statements) <= policy.max
            /\ Cardinality(approving) >= policy.required
            /\ MissingRoles(approving, policy) = {}
            /\ policy.veto => Dissenting(authoritative) = {}
            /\ CooledOff(approving, policy, now)]

-----------------------------------------------------------------------------
(* Separation of duties: an assignment is a set of pairs of a role and a   *)
(* principal's identifier.                                                 *)

ProtocolRole ==
    {"proposer", "resolver", "assessor", "sealer", "approver", "executor",
     "verifier", "witness", "compensator", "auditor"}

PrincipalsFor(assignment, role) == {a[2] : a \in {b \in assignment : b[1] = role}}

BaseRoleAssignment(proposer, executor, approvers) ==
    {<<"proposer", proposer>>, <<"executor", executor>>} \cup ({"approver"} \X approvers)

Merge(assignment, other) == assignment \cup other

ValidSeparationPolicy(pairs) ==
    \A pair \in pairs : pair \subseteq ProtocolRole /\ Cardinality(pair) = 2

DefaultForbiddenPairs ==
    {{"sealer", "approver"}, {"proposer", "approver"}, {"approver", "executor"}}

\* A forbidden pair is a set of two roles: its order does not matter.
CheckSeparationOfDuty(assignment, pairs) ==
    \A pair \in pairs : \A a, b \in pair :
        a # b => PrincipalsFor(assignment, a) \cap PrincipalsFor(assignment, b) = {}

-----------------------------------------------------------------------------
(* Witnesses.                                                              *)

SignWitnessStatement(s) == MayIssue(s.by) /\ s.until > s.at

WitnessCounts(s, policy, manifest, digest, keyring, actor, subject, now) ==
    /\ s.manifest = manifest
    /\ s.policy = policy
    /\ s.digest = digest
    /\ policy.matched => s.matched
    /\ s.by.type # "agent"
    /\ policy.forbidActor => s.by.id # actor.id
    /\ policy.forbidSubject => s.by.id # subject.id
    /\ VerifyStatement(s, keyring, now)

EvaluateWitnessQuorum(statements, policy, manifest, digest, keyring, actor, subject, now) ==
    LET authoritative == SelectAuthoritative({s \in statements :
            WitnessCounts(s, policy, manifest, digest, keyring, actor, subject, now)})
    IN  [accepted |-> Signers(authoritative),
         satisfied |-> /\ Cardinality(statements) <= policy.max
                       /\ Cardinality(authoritative) >= policy.required]

-----------------------------------------------------------------------------
(* Evidence.                                                               *)

EvidenceKindRank ==
    [unattributed |-> 0, provider_claim |-> 1, adapter_reobserve |-> 2,
     independent_ledger |-> 3, witness_attestation |-> 4]

\* evidence_from_outcome_proof: collected now, or when the proof says it was.
EvidenceFromOutcomeProof(id, manifest, proof, kind, now) ==
    [id |-> id, manifest |-> manifest, kind |-> kind, digest |-> proof.digest,
     observed |-> proof.at, collected |-> Max({now, proof.at})]

\* The negation of _reject_reason; a source system is never empty.
EvidenceCounts(r, policy, manifest, digest, now) ==
    /\ r.manifest = manifest
    /\ policy.rejectUnattributed => r.kind # "unattributed"
    /\ policy.requireDigest => r.digest # Nothing /\ (digest # Nothing => r.digest = digest)
    /\ r.observed <= now /\ now <= r.observed + policy.maxAge
    /\ EvidenceKindRank[r.kind] >= EvidenceKindRank[policy.minKind]

\* Every survivor meets the least kind by itself: one of them is enough.
EvaluateEvidenceQuality(records, policy, manifest, digest, now) ==
    LET survivors == {r \in records : EvidenceCounts(r, policy, manifest, digest, now)}
    IN  [accepted |-> {r.id : r \in survivors},
         acceptable |-> Cardinality(records) <= policy.max /\ survivors # {}]
=============================================================================
