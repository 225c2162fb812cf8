-------------------------- MODULE Authority_proofs --------------------------
(***************************************************************************)
(* What the engine's decisions promise, for every request, statement,      *)
(* envelope, profile and grant: independent judges, envelopes that only    *)
(* narrow, risks that only grow, revocations that reach every descendant,  *)
(* and commits that stay within their chain.                               *)
(***************************************************************************)
EXTENDS Authority, Sums_proofs

(***************************************************************************)
(* The last word.  A finite set of statements has a most recent one.       *)
(***************************************************************************)
Later(s, t) == s.at > t.at \/ (s.at = t.at /\ s.id >= t.id)

Dated(group) == \A s \in group : s.at \in Nat /\ s.id \in Nat

LEMMA SomeLatest ==
    ASSUME NEW G, IsFiniteSet(G), G # {}, Dated(G)
    PROVE  \E s \in G : \A t \in G : Later(s, t)
  <1> DEFINE Has(u) == \E s \in u : \A t \in u : Later(s, t)
             Bad == {u \in SUBSET G : u # {} /\ ~ Has(u)}
  <1> SUFFICES ASSUME Bad # {} PROVE FALSE
    OBVIOUS
  <1>1. PICK T \in Bad : \A U \in Bad : U \subseteq T => U = T
    <2> HIDE DEF Bad
    <2>1. Bad \subseteq SUBSET G
      BY DEF Bad
    <2> QED BY <2>1, MinimalSubset
  <1>2. PICK x \in T : TRUE
    BY <1>1
  <1>3. CASE T = {x}
    BY <1>1, <1>3 DEF Later, Dated
  <1>4. CASE T # {x}
    <2>1. T \ {x} \in SUBSET G /\ T \ {x} # {} /\ T \ {x} # T
      BY <1>1, <1>2, <1>4
    <2>2. Has(T \ {x})
      BY <1>1, <2>1
    <2>3. PICK y \in T \ {x} : \A t \in T \ {x} : Later(y, t)
      BY <2>2
    <2>a. \A t \in T : t.at \in Nat /\ t.id \in Nat
      BY <1>1 DEF Dated
    <2>b. x \in T /\ y \in T /\ \A t \in T : t = x \/ Later(y, t)
      BY <1>2, <2>3
    <2> HIDE DEF Bad, Has
    <2>4. Later(x, y) \/ Later(y, x)
      BY <2>a, <2>b DEF Later
    <2>5. Later(x, y) => \A t \in T : Later(x, t)
      BY <2>a, <2>b DEF Later
    <2>6. Later(y, x) => \A t \in T : Later(y, t)
      BY <2>b
    <2> QED BY <1>1, <2>b, <2>4, <2>5, <2>6 DEF Bad, Has
  <1> QED BY <1>3, <1>4

LEMMA LatestIsLast ==
    ASSUME NEW G, IsFiniteSet(G), G # {}, Dated(G)
    PROVE  Latest(G) \in G /\ \A t \in G : t.at <= Latest(G).at
  <1>1. Latest(G) = CHOOSE s \in G : \A t \in G : Later(s, t)
    BY Zenon DEF Latest, Later
  <1>2. \E s \in G : \A t \in G : Later(s, t)
    BY SomeLatest
  <1>3. Latest(G) \in G /\ \A t \in G : Later(Latest(G), t)
    BY <1>1, <1>2, Zenon
  <1> QED BY <1>3 DEF Later, Dated

\* One statement for every identifier, its last word.
LEMMA Authoritative ==
    ASSUME NEW S, IsFiniteSet(S), Dated(S)
    PROVE  /\ SelectAuthoritative(S) \subseteq S
           /\ \A a, b \in SelectAuthoritative(S) : a.by.id = b.by.id => a = b
           /\ \A a \in SelectAuthoritative(S) : \A t \in S : t.by.id = a.by.id => t.at <= a.at
           /\ \A s \in S : \E a \in SelectAuthoritative(S) : a.by.id = s.by.id
  <1> DEFINE Of(id) == {s \in S : s.by.id = id}
  <1>1. SelectAuthoritative(S) = {Latest(Of(id)) : id \in Signers(S)}
    BY Zenon DEF SelectAuthoritative
  <1>2. \A id \in Signers(S) : IsFiniteSet(Of(id)) /\ Of(id) # {} /\ Dated(Of(id))
    <2> SUFFICES ASSUME NEW id \in Signers(S) PROVE IsFiniteSet(Of(id)) /\ Of(id) # {} /\ Dated(Of(id))
      OBVIOUS
    <2>1. Of(id) \in SUBSET S
      OBVIOUS
    <2> QED BY <2>1, FS_Subset DEF Signers, Dated
  <1>3. \A id \in Signers(S) : Latest(Of(id)) \in Of(id) /\ \A t \in Of(id) : t.at <= Latest(Of(id)).at
    <2> HIDE DEF Of
    <2> QED BY <1>2, LatestIsLast
  <1> HIDE DEF Of
  <1>4. \A a \in SelectAuthoritative(S) : a \in S /\ a.by.id \in Signers(S) /\ a = Latest(Of(a.by.id))
    BY <1>1, <1>3 DEF Of
  <1>5. \A a \in SelectAuthoritative(S) : \A t \in S : t.by.id = a.by.id => t.at <= a.at
    <2> SUFFICES ASSUME NEW a \in SelectAuthoritative(S), NEW t \in S, t.by.id = a.by.id
                 PROVE  t.at <= a.at
      OBVIOUS
    <2>1. t \in Of(a.by.id)
      BY DEF Of
    <2> QED BY <1>3, <1>4, <2>1
  <1>6. \A s \in S : \E a \in SelectAuthoritative(S) : a.by.id = s.by.id
    <2> SUFFICES ASSUME NEW s \in S PROVE \E a \in SelectAuthoritative(S) : a.by.id = s.by.id
      OBVIOUS
    <2>1. s.by.id \in Signers(S)
      BY DEF Signers
    <2>2. Latest(Of(s.by.id)) \in SelectAuthoritative(S)
      BY <1>1, <2>1
    <2>3. Latest(Of(s.by.id)) \in Of(s.by.id)
      BY <1>3, <2>1
    <2> QED BY <2>2, <2>3 DEF Of
  <1> QED BY <1>4, <1>5, <1>6

LEMMA FiniteSigners ==
    ASSUME NEW A, IsFiniteSet(A) PROVE IsFiniteSet(Signers(A))
  <1> DEFINE f == [a \in A |-> a.by.id]
  <1>1. f \in Surjection(A, Signers(A))
    BY DEF Surjection, Signers
  <1> QED BY <1>1, FS_Surjection

\* As many identifiers as statements, when nobody made two.
LEMMA CountSigners ==
    ASSUME NEW A, IsFiniteSet(A), \A a, b \in A : a.by.id = b.by.id => a = b
    PROVE  IsFiniteSet(Signers(A)) /\ Cardinality(Signers(A)) = Cardinality(A)
  <1> DEFINE f == [a \in A |-> a.by.id]
  <1>1. f \in Bijection(A, Signers(A))
    BY DEF Bijection, Injection, Surjection, IsInjective, Signers
  <1>2. ExistsBijection(A, Signers(A))
    BY <1>1, Zenon DEF ExistsBijection
  <1> QED BY <1>2, FS_Bijection

(***************************************************************************)
(* Quorums.                                                                *)
(***************************************************************************)
Question(m, batch, bundle, separation, roles, x, y) ==
    [manifest |-> m, batch |-> batch, bundle |-> bundle, separation |-> separation, roles |-> roles,
     parties |-> {x.id, y.id}]

LEMMA QuorumOfOthers ==
    ASSUME NEW m, NEW batch, batch \subseteq Statements, NEW bundle \in ApprovalBundles,
           NEW separation, NEW roles, NEW x, NEW y,
           bundle.payload.forbidProposer, bundle.payload.forbidSubject,
           EvaluateQuorum(batch, bundle.payload, m, bundle, keyring, x, y, now).satisfied,
           NEW result,
           result = EvaluateQuorum(batch, bundle.payload, m, bundle, keyring, x, y, now).approving,
           {"approver"} \X result \subseteq roles,
           EnforceSeparationOfDuty(separation, roles)
    PROVE  ApprovedByOthers(Question(m, batch, bundle, separation, roles, x, y), result)
  <1> DEFINE policy == bundle.payload
             Party == {x.id, y.id}
             S == {s \in batch : Counts(s, policy, m, bundle, keyring, x, y, now)}
             A == SelectAuthoritative(S)
             Y == Approving(A)
             Yes == {id \in Signers(batch) : LastWordIs(id, "approve", batch, m, bundle)}
  <1>1. /\ result = Signers(Y)
        /\ Cardinality(Y) >= policy.required
        /\ MissingRoles(Y, policy) = {}
        /\ policy.veto => Dissenting(A) = {}
    BY DEF EvaluateQuorum
  <1>2. IsFiniteSet(batch) /\ IsFiniteSet(S) /\ Dated(S)
    <2>1. IsFiniteSet(batch)
      BY JudgesAssumption, FS_Subset
    <2>2. S \in SUBSET batch
      OBVIOUS
    <2> QED BY <2>1, <2>2, JudgesAssumption, FS_Subset DEF Dated
  <1>3. \A s \in batch : s \in S <=> /\ s.by.id \notin Party /\ MayIssue(s.by)
                                     /\ s.manifest = m /\ s.policy = bundle
                                     /\ VerifyStatement(s, keyring, now)
    BY DEF Counts, MayIssue
  <1> HIDE DEF S
  <1>4. /\ A \subseteq S
        /\ \A a, b \in A : a.by.id = b.by.id => a = b
        /\ \A a \in A : \A t \in S : t.by.id = a.by.id => t.at <= a.at
        /\ \A s \in S : \E a \in A : a.by.id = s.by.id
    BY <1>2, Authoritative
  <1> HIDE DEF A
  <1>5. S \subseteq batch
    BY DEF S
  <1>6. \A s \in S : Standing(s.by.id, batch, m, bundle) = {t \in S : t.by.id = s.by.id}
    BY <1>3, <1>5 DEF Standing
  <1>7. ASSUME NEW a \in A PROVE LastWordIs(a.by.id, a.decision, batch, m, bundle)
    <2>1. a \in Standing(a.by.id, batch, m, bundle)
      BY <1>4, <1>6
    <2>2. \A t \in Standing(a.by.id, batch, m, bundle) : t.at <= a.at
      BY <1>4, <1>6
    <2> QED BY <2>1, <2>2 DEF LastWordIs
  <1>8. Y \subseteq A /\ \A a \in Y : a.decision = "approve"
    BY DEF Approving
  <1>9. Signers(Y) \subseteq Yes \ Party
    BY <1>3, <1>4, <1>5, <1>7, <1>8 DEF Signers
  <1>10. Cardinality(Yes \ Party) >= policy.required
    <2>1. IsFiniteSet(A) /\ IsFiniteSet(Y)
      <3>1. IsFiniteSet(A)
        BY <1>2, <1>4, FS_Subset
      <3> QED BY <1>8, <3>1, FS_Subset
    <2>2. IsFiniteSet(Signers(Y)) /\ Cardinality(Signers(Y)) = Cardinality(Y)
      BY <1>4, <1>8, <2>1, CountSigners
    <2>3. IsFiniteSet(Yes \ Party)
      <3>1. IsFiniteSet(Signers(batch))
        BY <1>2, FiniteSigners
      <3>2. (Yes \ Party) \in SUBSET Signers(batch)
        OBVIOUS
      <3> QED BY <3>1, <3>2, FS_Subset
    <2>4. Cardinality(Signers(Y)) <= Cardinality(Yes \ Party)
      BY <1>9, <2>3, FS_Subset
    <2>5. Cardinality(Y) \in Nat /\ Cardinality(Yes \ Party) \in Nat
      BY <2>1, <2>3, FS_CardinalityType
    <2> QED BY <1>1, <2>2, <2>4, <2>5, JudgesAssumption
  <1>11. result \cap Party = {}
    BY <1>1, <1>9
  <1>12. \A role \in policy.roles : \E s \in batch :
            s.by.id \in result /\ s.role = Just(role) /\ s.decision = "approve"
    <2> SUFFICES ASSUME NEW role \in policy.roles
                 PROVE  \E s \in batch : s.by.id \in result /\ s.role = Just(role) /\ s.decision = "approve"
      OBVIOUS
    <2>1. PICK s \in Y : role \in s.role
      BY <1>1 DEF MissingRoles
    <2>2. s \in batch /\ s \in Statements
      BY <1>4, <1>5, <1>8
    <2>3. s.role = Just(role)
      BY <2>1, <2>2, JudgesAssumption DEF AtMostOne, Just
    <2> QED BY <1>1, <1>8, <2>1, <2>2, <2>3 DEF Signers
  <1>13. ASSUME policy.veto, NEW id \in Signers(batch) \ Party,
                LastWordIs(id, "dissent", batch, m, bundle)
         PROVE  id \in Yes
    <2>1. PICK s \in batch : s \in Standing(id, batch, m, bundle)
      BY <1>13 DEF LastWordIs, Standing
    <2>2. s \in S /\ s.by.id = id
      BY <1>3, <1>13, <2>1 DEF Standing
    <2>3. PICK a \in A : a.by.id = id
      BY <1>4, <2>2
    <2>4. a.decision \in {"approve", "dissent"} /\ a \notin Dissenting(A)
      BY <1>1, <1>4, <1>5, <1>13, JudgesAssumption
    <2>5. a.decision = "approve"
      BY <2>4 DEF Dissenting
    <2> QED BY <1>7, <1>13, <2>3, <2>5
  <1>14. ASSUME NEW b \in separation, {"sealer", "approver"} \in b.payload
         PROVE  PrincipalsFor(roles, "sealer") \cap result = {}
    <2>1. CheckSeparationOfDuty(roles, b.payload)
      BY <1>14 DEF EnforceSeparationOfDuty
    <2>2. PrincipalsFor(roles, "sealer") \cap PrincipalsFor(roles, "approver") = {}
      BY <1>14, <2>1 DEF CheckSeparationOfDuty
    <2>3. result \subseteq PrincipalsFor(roles, "approver")
      <3> SUFFICES ASSUME NEW z \in result PROVE z \in PrincipalsFor(roles, "approver")
        OBVIOUS
      <3>1. <<"approver", z>> \in {c \in roles : c[1] = "approver"}
        OBVIOUS
      <3>2. <<"approver", z>>[2] = z
        OBVIOUS
      <3> QED BY <3>1, <3>2, Zenon DEF PrincipalsFor
    <2> QED BY <2>2, <2>3
  <1> QED BY <1>10, <1>11, <1>12, <1>13, <1>14 DEF ApprovedByOthers, Question

Inquiry(m, batch, policy, digest, x, y) ==
    [manifest |-> m, batch |-> batch, policy |-> policy, digest |-> digest,
     parties |-> {x.id, y.id}]

LEMMA WitnessesAreOthers ==
    ASSUME NEW m, NEW batch, batch \subseteq WitnessStatements, NEW policy \in WitnessPolicies, NEW digest, NEW x, NEW y,
           policy.forbidActor, policy.forbidSubject, policy.matched,
           EvaluateWitnessQuorum(batch, policy, m, digest, keyring, x, y, now).satisfied,
           NEW result,
           result = EvaluateWitnessQuorum(batch, policy, m, digest, keyring, x, y, now).accepted
    PROVE  WitnessedByOthers(Inquiry(m, batch, policy, digest, x, y), result)
  <1> DEFINE S == {s \in batch : WitnessCounts(s, policy, m, digest, keyring, x, y, now)}
             A == SelectAuthoritative(S)
  <1>1. result = Signers(A) /\ Cardinality(A) >= policy.required
    BY DEF EvaluateWitnessQuorum
  <1>2. IsFiniteSet(S) /\ Dated(S)
    <2>1. IsFiniteSet(batch)
      BY JudgesAssumption, FS_Subset
    <2>2. S \in SUBSET batch
      OBVIOUS
    <2> QED BY <2>1, <2>2, JudgesAssumption, FS_Subset DEF Dated
  <1>3. \A s \in S : /\ s \in batch /\ s.by.id \notin {x.id, y.id} /\ MayIssue(s.by)
                     /\ s.matched /\ s.digest = digest
    BY DEF WitnessCounts, MayIssue
  <1> HIDE DEF S
  <1>4. A \subseteq S /\ \A a, b \in A : a.by.id = b.by.id => a = b
    BY <1>2, Authoritative
  <1> HIDE DEF A
  <1>5. Cardinality(result) = Cardinality(A)
    <2>1. IsFiniteSet(A)
      BY <1>2, <1>4, FS_Subset
    <2> QED BY <1>1, <1>4, <2>1, CountSigners
  <1>6. \A id \in result : \E s \in A : s.by.id = id
    BY <1>1 DEF Signers
  <1> QED BY <1>1, <1>3, <1>4, <1>5, <1>6 DEF WitnessedByOthers, Inquiry

\* The answers that the step may leave behind, and what they are about.
LEMMA Answers ==
    ASSUME [Next]_vars
    PROVE  \/ answer' = answer /\ now' = now /\ keyring' = keyring
           \/ answer' = Nothing
           \/ \E m \in Manifests, r \in Requests, bundle \in ApprovalBundles, proposer, subject \in Parties :
                 \E batch \in Batches(Statements) : AuthorizeWithQuorum(m, r, bundle, batch, proposer, subject)
           \/ \E m \in Manifests, policy \in WitnessPolicies, digest \in {"after", "other"}, actor, subject \in Parties :
                 \E batch \in Batches(WitnessStatements) :
                    ProveWithWitnessQuorum(m, policy, digest, batch, actor, subject)
           \/ \E m \in Manifests, policy \in EvidencePolicies, digest \in Options({"after", "other"}) :
                 \E records \in Batches(EvidenceRecords) : AssertEvidenceQuality(m, policy, digest, records)
           \/ \E profile \in Profiles : AssessEffect(profile)
           \/ \E pair \in EnvelopePairs : NarrowEnvelope(pair)
           \/ \E pair \in EnvelopePairs : pair.child = pair.parent
                 /\ \E m \in Candidates : Substitute(pair.child, m.parameters)
  <1>1. CASE UNCHANGED vars
    BY <1>1 DEF vars
  <1>2. CASE WorldStep
    BY <1>2 DEF WorldStep, Tick, RemoveKey, DistrustAdapter, RegisterAgain
  <1>3. CASE PureStep
    BY <1>3 DEF PureStep
  <1>4. ASSUME NEW m \in Manifests, Prepare(m) \/ SealManifest(m)
        PROVE  answer' = Nothing
    BY <1>4 DEF Prepare, SealManifest
  <1>5. ASSUME NEW m \in Manifests, AuthorizeStep(m)
        PROVE  \/ answer' = Nothing
               \/ \E r \in Requests, bundle \in ApprovalBundles, proposer, subject \in Parties :
                     \E batch \in Batches(Statements) : AuthorizeWithQuorum(m, r, bundle, batch, proposer, subject)
    BY <1>5 DEF AuthorizeStep, Authorize, AuthorizeWithEnvelope, AuthorizePlan
  <1>6. ASSUME NEW g \in grants, GrantStep(g)
        PROVE  answer' = Nothing
    BY <1>6 DEF GrantStep, Delegate, RecordRoot, Revoke
  <1>7. CASE CommitStep
    <2>1. CASE CheckAncestors \/ Execute
      BY <2>1 DEF CheckAncestors, Execute
    <2>2. ASSUME NEW m, NEW g, NEW a, NEW policy, NEW envelope, NEW plan,
                 BeginCommit(m, g, a, policy, envelope, plan)
          PROVE  answer' = Nothing
      BY <2>2 DEF BeginCommit
    <2> QED BY <1>7, <2>1, <2>2 DEF CommitStep
  <1>8. CASE \E m \in Manifests : ProofStep(m)
    BY <1>8 DEF ProofStep
  <1> QED BY <1>1, <1>2, <1>3, <1>4, <1>5, <1>6, <1>7, <1>8 DEF Next

LEMMA BatchesAreSubsets ==
    ASSUME NEW S, NEW batch \in Batches(S) PROVE batch \subseteq S
  BY DEF Batches, kSubset

\* The judgement of a question depends on the state only through the clock and the keys.
LEMMA JudgementStays ==
    ASSUME now' = now, keyring' = keyring, NEW q, NEW result
    PROVE  /\ ApprovedByOthers(q, result)' <=> ApprovedByOthers(q, result)
           /\ WitnessedByOthers(q, result)' <=> WitnessedByOthers(q, result)
  BY DEF ApprovedByOthers, WitnessedByOthers, LastWordIs, Standing

LEMMA JudgedNext == JudgedByOthers /\ [Next]_vars => JudgedByOthers'
  <1> SUFFICES ASSUME JudgedByOthers, [Next]_vars PROVE JudgedByOthers'
    OBVIOUS
  <1>1. CASE answer' = answer /\ now' = now /\ keyring' = keyring
    BY <1>1, JudgementStays DEF JudgedByOthers
  <1>2. CASE answer' = Nothing
    BY <1>2 DEF JudgedByOthers, Nothing
  <1>3. ASSUME NEW m \in Manifests, NEW r \in Requests, NEW bundle \in ApprovalBundles,
               NEW batch \in Batches(Statements), NEW x, NEW y, AuthorizeWithQuorum(m, r, bundle, batch, x, y)
        PROVE  JudgedByOthers'
    <2> DEFINE quorum == EvaluateQuorum(batch, bundle.payload, m, bundle, keyring, x, y, now)
               roles == Merge(BaseRoleAssignment(x.id, y.id, quorum.approving), r.roles)
               q == Question(m, batch, bundle, r.separation, roles, x, y)
    <2>1. /\ quorum.satisfied /\ EnforceSeparationOfDuty(r.separation, roles)
          /\ answer' = Just([asked |-> "quorum", about |-> q, result |-> quorum.approving])
          /\ now' = now /\ keyring' = keyring
      BY <1>3, Zenon DEF AuthorizeWithQuorum, Question, world
    <2>2. batch \subseteq Statements
      BY BatchesAreSubsets
    <2>3. {"approver"} \X quorum.approving \subseteq roles
      BY DEF Merge, BaseRoleAssignment
    <2>4. ApprovedByOthers(q, quorum.approving)
      <3>1. CASE bundle.payload.forbidProposer /\ bundle.payload.forbidSubject
        BY <2>1, <2>2, <2>3, <3>1, QuorumOfOthers
      <3>2. CASE ~ (bundle.payload.forbidProposer /\ bundle.payload.forbidSubject)
        BY <3>2 DEF ApprovedByOthers, Question
      <3> QED BY <3>1, <3>2
    <2> HIDE DEF quorum, roles, q
    <2>5. PICK u, v : u = q /\ v = quorum.approving
      OBVIOUS
    <2>6. ApprovedByOthers(u, v)'
      BY <2>1, <2>4, <2>5, JudgementStays
    <2>7. answer' = {[asked |-> "quorum", about |-> u, result |-> v]}
      BY <2>1, <2>5 DEF Just
    <2> QED BY <2>6, <2>7 DEF JudgedByOthers
  <1>4. ASSUME NEW m \in Manifests, NEW policy \in WitnessPolicies, NEW digest \in {"after", "other"},
               NEW batch \in Batches(WitnessStatements), NEW x, NEW y,
               ProveWithWitnessQuorum(m, policy, digest, batch, x, y)
        PROVE  JudgedByOthers'
    <2> DEFINE quorum == EvaluateWitnessQuorum(batch, policy, m, digest, keyring, x, y, now)
               q == Inquiry(m, batch, policy, digest, x, y)
    <2>1. /\ quorum.satisfied
          /\ answer' = Just([asked |-> "witness", about |-> q, result |-> quorum.accepted])
          /\ now' = now /\ keyring' = keyring
      BY <1>4, Zenon DEF ProveWithWitnessQuorum, Inquiry, world
    <2>2. batch \subseteq WitnessStatements
      BY BatchesAreSubsets
    <2>3. WitnessedByOthers(q, quorum.accepted)
      <3>1. CASE policy.forbidActor /\ policy.forbidSubject /\ policy.matched
        BY <2>1, <2>2, <3>1, WitnessesAreOthers
      <3>2. CASE ~ (policy.forbidActor /\ policy.forbidSubject /\ policy.matched)
        BY <3>2 DEF WitnessedByOthers, Inquiry
      <3> QED BY <3>1, <3>2
    <2> HIDE DEF quorum, q
    <2>4. PICK u, v : u = q /\ v = quorum.accepted
      OBVIOUS
    <2>5. WitnessedByOthers(u, v)'
      BY <2>1, <2>3, <2>4, JudgementStays
    <2>6. answer' = {[asked |-> "witness", about |-> u, result |-> v]}
      BY <2>1, <2>4 DEF Just
    <2> QED BY <2>5, <2>6 DEF JudgedByOthers
  <1>5. ASSUME NEW m, NEW policy, NEW digest, NEW records, AssertEvidenceQuality(m, policy, digest, records)
        PROVE  JudgedByOthers'
    BY <1>5 DEF AssertEvidenceQuality, JudgedByOthers, Just
  <1>6. ASSUME NEW profile, AssessEffect(profile) PROVE JudgedByOthers'
    BY <1>6 DEF AssessEffect, JudgedByOthers, Just
  <1>7. ASSUME NEW pair, NarrowEnvelope(pair) PROVE JudgedByOthers'
    BY <1>7 DEF NarrowEnvelope, JudgedByOthers, Just
  <1>8. ASSUME NEW e, NEW choices, Substitute(e, choices) PROVE JudgedByOthers'
    BY <1>8 DEF Substitute, JudgedByOthers, Just
  <1> QED BY <1>1, <1>2, <1>3, <1>4, <1>5, <1>6, <1>7, <1>8, Answers

\* A grant by quorum and a proof by witnesses rest on enough different people, none of them an agent or
\* a party the caller named, each with the last word that counts, whatever statements were signed,
\* superseded, expired or presented and whoever was named (approval/quorum.py, witness/quorum.py).
\* The code does not ask that the parties it was named be the manifest's own, nor does this theorem.
THEOREM JudgesAreOthers == Spec => []JudgedByOthers
  <1>1. Init => JudgedByOthers
    BY DEF Init, JudgedByOthers, Nothing
  <1> QED BY <1>1, JudgedNext, PTL DEF Spec

(***************************************************************************)
(* Envelopes: a narrower constraint accepts only what the wider one does,  *)
(* once the numbers are read as numbers.                                   *)
(***************************************************************************)
LEMMA EqualTransitive ==
    ASSUME NEW u, NEW v, NEW w, Equal(u, v), Equal(v, w) PROVE Equal(u, w)
  <1>1. {u.type, v.type} = {"int", "bool"} => u.type \in {"int", "bool"} /\ v.type \in {"int", "bool"}
    OBVIOUS
  <1>2. {v.type, w.type} = {"int", "bool"} => v.type \in {"int", "bool"} /\ w.type \in {"int", "bool"}
    OBVIOUS
  <1>3. u.type \in {"int", "bool"} /\ w.type \in {"int", "bool"} => u.type = w.type \/ {u.type, w.type} = {"int", "bool"}
    OBVIOUS
  <1> QED BY <1>1, <1>2, <1>3 DEF Equal

\* A value as the constraint c has to read it.
ReadBy(c, v) == IF c.kind \in Ranges /\ v.type = "bool" THEN Value("int", v.id) ELSE v

LEMMA NarrowerAcceptsLess ==
    ASSUME NEW child, NEW parent, NEW v,
           parent.kind \in {"exact", "enum"} \cup Ranges, child.kind \in {"exact", "enum"} \cup Ranges,
           child.min \cup child.max \subseteq Int, parent.min \cup parent.max \subseteq Int,
           v.type \in {"int", "bool"} => v.id \in Int,
           ConstraintNarrower(child, parent), Accepts(child, v)
    PROVE  Accepts(parent, ReadBy(parent, v))
  <1> USE DEF Ranges
  <1>1. CASE child.kind \in {"exact", "enum"}
    <2>1. PICK w \in child.values : Equal(v, w)
      BY <1>1 DEF Accepts, In
    <2>2. Accepts(parent, w)
      BY <1>1 DEF ConstraintNarrower
    <2>3. CASE parent.kind \in Ranges
      <3>1. IsInt(w) /\ InBounds(w.id, parent)
        BY <2>2, <2>3 DEF Accepts
      <3>2. v.id = w.id /\ v.type \in {"int", "bool"}
        BY <2>1, <3>1 DEF Equal, IsInt
      <3>3. ReadBy(parent, v).type = "int" /\ ReadBy(parent, v).id = w.id
        BY <2>3, <3>2 DEF ReadBy, Value
      <3> QED BY <2>3, <3>1, <3>3 DEF Accepts, IsInt
    <2>4. CASE parent.kind \notin Ranges
      <3>1. PICK x \in parent.values : Equal(w, x)
        BY <2>2, <2>4 DEF Accepts, In
      <3>2. Equal(v, x)
        BY <2>1, <3>1, EqualTransitive
      <3> QED BY <2>4, <3>2 DEF Accepts, In, ReadBy
    <2> QED BY <2>3, <2>4
  <1>2. CASE child.kind \in Ranges
    <2>1. IsInt(v) /\ InBounds(v.id, child)
      BY <1>2 DEF Accepts
    <2>2. parent.kind = child.kind /\ BoundsNarrower(child, parent)
      BY <1>2 DEF ConstraintNarrower
    <2>3. v.id \in Int /\ ReadBy(parent, v) = v
      BY <2>1 DEF IsInt, ReadBy
    <2>4. InBounds(v.id, parent)
      BY <2>1, <2>2, <2>3 DEF InBounds, BoundsNarrower, Nothing
    <2> QED BY <1>2, <2>1, <2>2, <2>3, <2>4 DEF Accepts
  <1> QED BY <1>1, <1>2

\* The cap of a narrower envelope is within the cap of the wider one.
LEMMA NarrowerCostsLess ==
    ASSUME NEW child, NEW parent, NEW m, EnvelopeNarrower(child, parent), Fits(m, child),
           NumericAmounts(m.cost), NumericAmounts(child.cost), NumericAmounts(parent.cost)
    PROVE  \A cap \in parent.cost :
             m.cost # Nothing /\ \A c \in m.cost : c.currency = cap.currency /\ c.units <= cap.units
  BY DEF EnvelopeNarrower, Fits, NumericAmounts, Nothing

LEMMA NarrowerFitsLess ==
    ASSUME NEW pair \in EnvelopePairs, NEW m \in Candidates,
           EnvelopeNarrower(pair.child, pair.parent), Fits(m, pair.child)
    PROVE  Fits(AsNumbers(CutTo(m, pair.parent), pair.parent), pair.parent)
  <1> DEFINE child == pair.child  parent == pair.parent
             names == DOMAIN m.parameters \cap DOMAIN parent.constraints
             read == [n \in names |-> ReadBy(parent.constraints[n], m.parameters[n])]
             cut == AsNumbers(CutTo(m, parent), parent)
  <1>1. /\ {"effect", "adapter", "target", "parameters", "cost"} \subseteq DOMAIN m
        /\ NumericAmounts(m.cost) /\ NumericEnvelope(child) /\ NumericEnvelope(parent)
        /\ \A n \in DOMAIN m.parameters : m.parameters[n].type \in {"int", "bool"} => m.parameters[n].id \in Int
    BY EnvelopesAssumption
  <1>2. CutTo(m, parent) = [m EXCEPT !.parameters = [n \in names |-> m.parameters[n]]]
    BY DEF CutTo
  <1>3. /\ CutTo(m, parent).parameters = [n \in names |-> m.parameters[n]]
        /\ DOMAIN CutTo(m, parent) = DOMAIN m
        /\ CutTo(m, parent).effect = m.effect /\ CutTo(m, parent).adapter = m.adapter
        /\ CutTo(m, parent).target = m.target /\ CutTo(m, parent).cost = m.cost
    BY <1>1, <1>2
  <1>4. cut = [CutTo(m, parent) EXCEPT !.parameters =
                 [n \in DOMAIN CutTo(m, parent).parameters |->
                     ReadBy(parent.constraints[n], CutTo(m, parent).parameters[n])]]
    BY DEF AsNumbers, ReadBy
  <1>5. cut = [CutTo(m, parent) EXCEPT !.parameters = read]
    BY <1>3, <1>4
  <1>6. /\ cut.effect = m.effect /\ cut.adapter = m.adapter /\ cut.target = m.target
        /\ cut.cost = m.cost /\ cut.parameters = read
    BY <1>1, <1>3, <1>5
  <1>7. ASSUME NEW name \in names
        PROVE  Accepts(parent.constraints[name], read[name])
    <2>1. name \in DOMAIN child.constraints
          /\ ConstraintNarrower(child.constraints[name], parent.constraints[name])
      BY DEF EnvelopeNarrower
    <2>2. Accepts(child.constraints[name], m.parameters[name])
      BY <2>1 DEF Fits
    <2> QED BY <1>1, <2>1, <2>2, NarrowerAcceptsLess DEF NumericEnvelope
  <1>8. \A cap \in parent.cost :
            m.cost # Nothing /\ \A c \in m.cost : c.currency = cap.currency /\ c.units <= cap.units
    BY <1>1, NarrowerCostsLess DEF NumericEnvelope
  <1>9. parent.complete => DOMAIN parent.constraints \subseteq names
    BY DEF EnvelopeNarrower, Fits
  <1>10. m.effect = parent.effect /\ m.adapter = parent.adapter /\ m.target \in parent.targets
    BY DEF EnvelopeNarrower, Fits
  <1> HIDE DEF cut, read, child, parent
  <1>11. DOMAIN read = names
    BY DEF read
  <1> QED BY <1>6, <1>7, <1>8, <1>9, <1>10, <1>11 DEF Fits, cut, child, parent

LEMMA SubstitutedFits ==
    ASSUME NEW pair \in EnvelopePairs, NEW e, e = pair.child, NEW choices, Substitutable(e, choices),
           NEW m \in Candidates, Fits(m, e)
    PROVE  Fits([m EXCEPT !.parameters = SubstituteParameters(e, choices)], e)
  <1> DEFINE filled == SubstituteParameters(e, choices)
             new == [m EXCEPT !.parameters = filled]
  <1>1. {"effect", "adapter", "target", "parameters", "cost"} \subseteq DOMAIN m
        /\ NumericEnvelope(e) /\ ValidEnvelope(e)
    BY EnvelopesAssumption
  <1>2. DOMAIN filled = DOMAIN e.constraints
    BY DEF SubstituteParameters
  <1>3. ASSUME NEW name \in DOMAIN e.constraints PROVE Accepts(e.constraints[name], filled[name])
    <2> DEFINE c == e.constraints[name]
    <2>1. CASE c.kind = "exact"
      <3>1. ValidShape(c)
        BY <1>1 DEF ValidEnvelope
      <3>2. Cardinality(c.values) = 1
        BY <2>1, <3>1 DEF ValidShape, Ranges
      <3>3. c.values # {}
        BY <3>2, FS_EmptySet
      <3>4. filled[name] \in c.values
        BY <2>1, <3>3 DEF SubstituteParameters
      <3> QED BY <2>1, <3>4 DEF Accepts, In, Equal, Ranges
    <2>2. CASE c.kind # "exact"
      BY <2>2 DEF Substitutable, SubstituteParameters
    <2> QED BY <2>1, <2>2
  <1> HIDE DEF filled
  <1>4. /\ new.effect = m.effect /\ new.adapter = m.adapter /\ new.target = m.target
        /\ new.cost = m.cost /\ new.parameters = filled
    BY <1>1
  <1> HIDE DEF new
  <1>5. Fits(new, e)
    BY <1>2, <1>3, <1>4 DEF Fits
  <1> QED BY <1>5 DEF new, filled

\* An envelope accepted as narrower lets through nothing that the wider one refuses, and what
\* substitute_parameters fills in fits the envelope it was filled in for: for every pair of envelopes
\* with every kind of constraint, and every manifest (envelope/constraints.py, envelope/model.py).
THEOREM EnvelopesNarrow == Spec => []EnvelopesOnlyNarrow
  <1>1. Init => EnvelopesOnlyNarrow
    BY DEF Init, EnvelopesOnlyNarrow, Nothing
  <1>2. EnvelopesOnlyNarrow /\ [Next]_vars => EnvelopesOnlyNarrow'
    <2> SUFFICES ASSUME EnvelopesOnlyNarrow, [Next]_vars PROVE EnvelopesOnlyNarrow'
      OBVIOUS
    <2> USE DEF EnvelopesOnlyNarrow, Just, Nothing
    <2>1. CASE answer' = answer \/ answer' = Nothing
      BY <2>1
    <2>2. ASSUME NEW m, NEW r, NEW bundle, NEW batch, NEW x, NEW y,
                 AuthorizeWithQuorum(m, r, bundle, batch, x, y)
          PROVE  EnvelopesOnlyNarrow'
      BY <2>2 DEF AuthorizeWithQuorum
    <2>3. ASSUME NEW m, NEW policy, NEW digest, NEW batch, NEW x, NEW y,
                 ProveWithWitnessQuorum(m, policy, digest, batch, x, y)
          PROVE  EnvelopesOnlyNarrow'
      BY <2>3 DEF ProveWithWitnessQuorum
    <2>4. ASSUME NEW m, NEW policy, NEW digest, NEW records, AssertEvidenceQuality(m, policy, digest, records)
          PROVE  EnvelopesOnlyNarrow'
      BY <2>4 DEF AssertEvidenceQuality
    <2>5. ASSUME NEW profile, AssessEffect(profile) PROVE EnvelopesOnlyNarrow'
      BY <2>5 DEF AssessEffect
    <2>6. ASSUME NEW pair \in EnvelopePairs, NarrowEnvelope(pair) PROVE EnvelopesOnlyNarrow'
      BY <2>6, NarrowerFitsLess DEF NarrowEnvelope
    <2>7. ASSUME NEW pair \in EnvelopePairs, NEW choices, Substitute(pair.child, choices)
          PROVE  EnvelopesOnlyNarrow'
      BY <2>7, SubstitutedFits DEF Substitute
    <2> QED BY <2>1, <2>2, <2>3, <2>4, <2>5, <2>6, <2>7, Answers
  <1> QED BY <1>1, <1>2, PTL DEF Spec

(***************************************************************************)
(* The walk over the recorded lineage (delegation/revocation.py).  When it *)
(* ends with "clear", what it has seen is a set of recorded grants that is *)
(* closed under the recorded parents and holds none that is revoked.       *)
(***************************************************************************)
Start(g) == [verdict |-> "clear", depth |-> 0, seen |-> {g.id}, next |-> g.parent]

Turn(w, rows, gone, limit) == IF w.next = Nothing THEN w ELSE Walk(w, rows, gone, limit)

\* f holds the state of the walk after each of its first N turns.
WalkOf(f, N, g, rows, gone, limit) ==
    f = [n \in 0..N |-> IF n = 0 THEN Start(g) ELSE Turn(f[n - 1], rows, gone, limit)]

LEMMA AncestorsUnfold ==
    ASSUME NEW g, NEW rows, NEW gone, NEW limit
    PROVE  Ancestors(g, rows, gone, limit)
             = (CHOOSE f : WalkOf(f, limit + 1, g, rows, gone, limit))[limit + 1].verdict
  BY Zenon DEF Ancestors, WalkOf, Start, Turn

LEMMA WalkExists ==
    ASSUME NEW g, NEW rows, NEW gone, NEW limit, NEW N \in Nat
    PROVE  \E f : WalkOf(f, N, g, rows, gone, limit)
  <1> DEFINE Has(n) == \E f : WalkOf(f, n, g, rows, gone, limit)
             Bad == {n \in Nat : ~ Has(n)}
  <1> SUFFICES ASSUME Bad # {} PROVE FALSE
    OBVIOUS
  <1>1. PICK n \in Bad : \A k \in Bad : n <= k
    <2>1. Bad \subseteq Nat
      OBVIOUS
    <2> HIDE DEF Bad
    <2> QED BY <2>1, LeastNumber
  <1>2. CASE n = 0
    <2> DEFINE f == [k \in 0..0 |-> Start(g)]
    <2>1. WalkOf(f, 0, g, rows, gone, limit)
      BY DEF WalkOf
    <2> QED BY <1>1, <1>2, <2>1
  <1>3. CASE n # 0
    <2>1. n - 1 \in Nat /\ n - 1 \notin Bad
      BY <1>1, <1>3
    <2>2. PICK f : WalkOf(f, n - 1, g, rows, gone, limit)
      BY <2>1
    <2> DEFINE h == [k \in 0..n |-> IF k = n THEN Turn(f[n - 1], rows, gone, limit) ELSE f[k]]
    <2>3. WalkOf(h, n, g, rows, gone, limit)
      <3> SUFFICES ASSUME NEW k \in 0..n
                   PROVE  h[k] = IF k = 0 THEN Start(g) ELSE Turn(h[k - 1], rows, gone, limit)
        BY DEF WalkOf
      <3>1. CASE k = n
        BY <1>1, <1>3, <3>1
      <3>2. CASE k # n
        <4>1. k \in 0..(n - 1)
          BY <1>1, <3>2
        <4>2. h[k] = f[k] /\ (k # 0 => h[k - 1] = f[k - 1])
          BY <1>1, <3>2
        <4>3. f[k] = IF k = 0 THEN Start(g) ELSE Turn(f[k - 1], rows, gone, limit)
          BY <2>2, <4>1 DEF WalkOf
        <4> QED BY <4>2, <4>3
      <3> QED BY <3>1, <3>2
    <2> QED BY <1>1, <2>3
  <1> QED BY <1>2, <1>3

\* What a walk that is still clear has established after n turns.
Progress(w, n, g, rows, gone, limit) ==
    /\ DOMAIN w = {"verdict", "depth", "seen", "next"}
    /\ w.verdict = "clear" =>
         LET T == w.seen \ {g.id} IN
         /\ g.id \in w.seen /\ AtMostOne(w.next)
         /\ w.next # {} => w.depth = n /\ n <= limit
         /\ g.parent \subseteq T \cup w.next
         /\ T \subseteq DOMAIN rows
         /\ \A id \in T : id \notin gone /\ rows[id] \subseteq T \cup w.next

LEMMA WalkProgress ==
    ASSUME NEW g, NEW rows, NEW gone, NEW limit \in Nat, NEW n \in Nat, NEW w,
           \A id \in DOMAIN rows : AtMostOne(rows[id]),
           Progress(w, n, g, rows, gone, limit)
    PROVE  Progress(Turn(w, rows, gone, limit), n + 1, g, rows, gone, limit)
  <1>1. CASE w.next = {}
    BY <1>1 DEF Turn, Progress, Nothing
  <1>2. CASE w.next # {}
    <2> DEFINE id == CHOOSE x \in w.next : TRUE
               v == Walk(w, rows, gone, limit)
    <2>1. id \in w.next /\ Turn(w, rows, gone, limit) = v
      BY <1>2 DEF Turn, Nothing
    <2>2. \/ v = [w EXCEPT !.verdict = "uncertain", !.next = Nothing]
          \/ v = [w EXCEPT !.verdict = "revoked", !.next = Nothing]
          \/ /\ ~ (w.depth + 1 > limit) /\ id \notin w.seen /\ id \notin gone /\ id \in DOMAIN rows
             /\ v = [w EXCEPT !.depth = @ + 1, !.seen = @ \cup {id}, !.next = GetParent(rows, id)]
      BY Zenon DEF Walk
    <2> HIDE DEF id, v
    <2>3. CASE v = [w EXCEPT !.verdict = "uncertain", !.next = Nothing]
      BY <2>1, <2>3 DEF Progress
    <2>4. CASE v = [w EXCEPT !.verdict = "revoked", !.next = Nothing]
      BY <2>1, <2>4 DEF Progress
    <2>5. CASE /\ ~ (w.depth + 1 > limit) /\ id \notin w.seen /\ id \notin gone /\ id \in DOMAIN rows
               /\ v = [w EXCEPT !.depth = @ + 1, !.seen = @ \cup {id}, !.next = GetParent(rows, id)]
      <3>1. /\ DOMAIN v = {"verdict", "depth", "seen", "next"}
            /\ v.verdict = w.verdict /\ v.depth = w.depth + 1
            /\ v.seen = w.seen \cup {id} /\ v.next = rows[id]
        BY <2>5 DEF Progress, GetParent
      <3>2. CASE w.verdict = "clear"
        <4>1. /\ g.id \in w.seen /\ AtMostOne(w.next) /\ w.depth = n
              /\ g.parent \subseteq (w.seen \ {g.id}) \cup w.next
              /\ (w.seen \ {g.id}) \subseteq DOMAIN rows
              /\ \A x \in w.seen \ {g.id} : x \notin gone /\ rows[x] \subseteq (w.seen \ {g.id}) \cup w.next
          BY <1>2, <3>2 DEF Progress
        <4>2. w.next = {id}
          BY <2>1, <4>1 DEF AtMostOne
        <4>3. v.seen \ {g.id} = (w.seen \ {g.id}) \cup {id}
          BY <2>5, <3>1, <4>1
        <4>4. n + 1 <= limit
          BY <2>5, <4>1
        <4> QED BY <2>1, <2>5, <3>1, <4>1, <4>2, <4>3, <4>4 DEF Progress
      <3>3. CASE w.verdict # "clear"
        BY <2>1, <3>1, <3>3 DEF Progress
      <3> QED BY <3>2, <3>3
    <2> QED BY <2>2, <2>3, <2>4, <2>5
  <1> QED BY <1>1, <1>2

LEMMA WalkClears ==
    ASSUME NEW g, NEW rows, NEW gone, NEW limit \in Nat,
           AtMostOne(g.parent), \A id \in DOMAIN rows : AtMostOne(rows[id]),
           Ancestors(g, rows, gone, limit) = "clear"
    PROVE  \E S : /\ g.parent \subseteq S /\ S \subseteq DOMAIN rows
                  /\ \A id \in S : id \notin gone /\ rows[id] \subseteq S
  <1> DEFINE W == CHOOSE f : WalkOf(f, limit + 1, g, rows, gone, limit)
  <1>1. WalkOf(W, limit + 1, g, rows, gone, limit)
    <2>1. \E f : WalkOf(f, limit + 1, g, rows, gone, limit)
      BY WalkExists
    <2> QED BY <2>1, Zenon
  <1>2. W[limit + 1].verdict = "clear"
    BY AncestorsUnfold
  <1> HIDE DEF W
  <1>3. W[0] = Start(g) /\ \A n \in 1..(limit + 1) : W[n] = Turn(W[n - 1], rows, gone, limit)
    BY <1>1 DEF WalkOf
  <1>4. \A n \in 0..(limit + 1) : Progress(W[n], n, g, rows, gone, limit)
    <2> DEFINE Bad == {n \in 0..(limit + 1) : ~ Progress(W[n], n, g, rows, gone, limit)}
    <2> SUFFICES ASSUME Bad # {} PROVE FALSE
      OBVIOUS
    <2>1. PICK n \in Bad : \A k \in Bad : n <= k
      <3>1. Bad \subseteq Nat
        OBVIOUS
      <3> HIDE DEF Bad
      <3> QED BY <3>1, LeastNumber
    <2>2. CASE n = 0
      <3>1. Progress(Start(g), 0, g, rows, gone, limit)
        BY DEF Progress, Start
      <3> QED BY <1>3, <2>1, <2>2, <3>1
    <2>3. CASE n # 0
      <3>1. n - 1 \in Nat /\ n \in 1..(limit + 1) /\ (n - 1) + 1 = n
        BY <2>1, <2>3
      <3>2. Progress(W[n - 1], n - 1, g, rows, gone, limit)
        BY <2>1, <3>1
      <3>3. Progress(Turn(W[n - 1], rows, gone, limit), (n - 1) + 1, g, rows, gone, limit)
        BY <3>1, <3>2, WalkProgress
      <3> QED BY <1>3, <2>1, <3>1, <3>3
    <2> QED BY <2>2, <2>3
  <1>5. Progress(W[limit + 1], limit + 1, g, rows, gone, limit)
    BY <1>4
  <1>6. W[limit + 1].next = {}
    BY <1>2, <1>5 DEF Progress
  <1> DEFINE S == W[limit + 1].seen \ {g.id}
  <1>7. /\ g.parent \subseteq S /\ S \subseteq DOMAIN rows
        /\ \A id \in S : id \notin gone /\ rows[id] \subseteq S
    BY <1>2, <1>5, <1>6 DEF Progress
  <1> QED BY <1>7

(***************************************************************************)
(* Revocation and attenuation.  The invariant: grants are numbered and     *)
(* narrower than the parent they were delegated from, the lineage holds    *)
(* the parents they were issued with, and a call that has passed the walk  *)
(* is under a set of ancestors, closed under parents, none of which was    *)
(* revoked when it began.  The walk read the lineage and the revocations   *)
(* of a later moment; the set is what is left of it for good.              *)
(***************************************************************************)
GrantFields ==
    {"id", "manifest", "policy", "approval", "envelope", "plan", "budget", "issuer", "subject",
     "audience", "effects", "scope", "from", "until", "uses", "parent", "key", "delegated"}

Shape(g) ==
    DOMAIN g = GrantFields /\ g.from \in Int /\ g.until \in Int /\ g.key = SealKey /\ AtMostOne(g.parent)

Derived(g, p) == g.parent = Just(p.id) /\ p.id < g.id /\ GrantNarrower(g, p)

NumberedInv ==
    /\ IsFiniteSet(grants) /\ Cardinality(grants) <= MaxGrants
    /\ {g.id : g \in grants} = 1..Cardinality(grants)
    /\ \A g, h \in grants : g.id = h.id => g = h

GrantsInv ==
    /\ NumberedInv
    /\ \A g \in grants : Shape(g) /\ (g.delegated => \E p \in grants : Derived(g, p))
    /\ \A id \in DOMAIN lineage : \E g \in grants : g.id = id /\ lineage[id] = g.parent

\* Every grant above g is in a set of grants that were not revoked.
Cleared(g, known) ==
    \E S : /\ g.parent \subseteq S /\ S \subseteq {h.id : h \in grants}
           /\ \A h \in grants : h.id \in S => h.id \notin known /\ h.parent \subseteq S

\* The gates of commit that read the grant.
Permitted(m, g, at, known) ==
    /\ g \in grants /\ g.id \notin known /\ at \in Nat
    /\ VerifyGrant(g, Keys, at, Leeway)
    /\ Content[m].effect \in g.effects /\ Content[m].adapter.id \in g.audience

CallFields == {"manifest", "grant", "at", "known", "step"}

CallInv ==
    \A c \in call : /\ DOMAIN c = CallFields /\ c.known \subseteq revoked
                    /\ Permitted(c.manifest, c.grant, c.at, c.known)
                    /\ c.step = "reserve" => Cleared(c.grant, c.known)

EffectsInv ==
    \A e \in effects : Permitted(e.manifest, e.grant, e.at, e.known) /\ Cleared(e.grant, e.known)

WorldInv == now \in Nat /\ keyring \subseteq Keys

CommitInv == WorldInv /\ GrantsInv /\ CallInv /\ EffectsInv

\* A step that issues the grant g.
Issues(g) ==
    /\ grants' = grants \cup {g} /\ g.id = NextGrant /\ NextGrant <= MaxGrants
    /\ Shape(g) /\ (g.delegated => \E p \in grants : Derived(g, p))
    /\ lineage' = lineage \/ lineage' = RecordLineage(lineage, g.id, g.parent)
    /\ UNCHANGED <<revoked, call, effects>>

LEMMA RequestedShape ==
    ASSUME NEW m, NEW r \in Requests, NEW g,
           \/ g = GrantFor(m, r) \/ \E x : g = [GrantFor(m, r) EXCEPT !.envelope = x]
           \/ \E x : g = [GrantFor(m, r) EXCEPT !.plan = x]
           \/ \E x, y : g = [GrantFor(m, r) EXCEPT !.approval = x, !.subject = y]
    PROVE  Shape(g) /\ g.id = NextGrant /\ ~ g.delegated /\ g.parent = r.parent
  <1>1. AtMostOne(r.parent) /\ r.from \in Int /\ r.until \in Int
    BY GrantsAssumption
  <1>2. /\ DOMAIN GrantFor(m, r) = GrantFields /\ GrantFor(m, r).from = r.from /\ GrantFor(m, r).until = r.until
        /\ GrantFor(m, r).key = SealKey /\ GrantFor(m, r).parent = r.parent /\ GrantFor(m, r).id = NextGrant
        /\ GrantFor(m, r).delegated = FALSE
    BY DEF GrantFor, GrantFields
  <1>3. /\ DOMAIN g = GrantFields /\ g.from = r.from /\ g.until = r.until
        /\ g.key = SealKey /\ g.parent = r.parent /\ g.id = NextGrant /\ g.delegated = FALSE
    BY <1>2 DEF GrantFields
  <1> QED BY <1>1, <1>3 DEF Shape

LEMMA AttenuatedShape ==
    ASSUME NEW parent, Shape(parent), NEW a \in Attenuations
    PROVE  LET g == Attenuated(parent, a) IN
           Shape(g) /\ g.id = NextGrant /\ g.parent = Just(parent.id)
  <1> DEFINE given(option, inherited) == IF option = Nothing THEN inherited ELSE CHOOSE x \in option : TRUE
             g == Attenuated(parent, a)
  <1>1. /\ DOMAIN g = DOMAIN parent
        /\ g.id = NextGrant /\ g.parent = Just(parent.id) /\ g.key = parent.key
        /\ g.from = given(a.from, parent.from) /\ g.until = given(a.until, parent.until)
    BY DEF Attenuated, Shape, GrantFields
  <1>2. \A option : option \subseteq Int => \A i \in Int : given(option, i) \in Int
    BY DEF Nothing
  <1>3. a.from \subseteq Int /\ a.until \subseteq Int
    BY GrantsAssumption
  <1>4. AtMostOne(g.parent)
    BY <1>1 DEF AtMostOne, Just
  <1> HIDE DEF given, g
  <1>5. g.from \in Int /\ g.until \in Int
    BY <1>1, <1>2, <1>3 DEF Shape
  <1>6. Shape(g) /\ g.id = NextGrant /\ g.parent = Just(parent.id)
    BY <1>1, <1>4, <1>5 DEF Shape
  <1> QED BY <1>6 DEF g

LEMMA RequestsIssue ==
    ASSUME NEW m, AuthorizeStep(m)
    PROVE  \E g : Issues(g)
  <1> USE DEF Issue, RecordGrantLineage, store
  <1>1. ASSUME NEW q \in Requests, Authorize(m, q) PROVE \E g : Issues(g)
    <2>1. PICK g : g = GrantFor(m, q)
      OBVIOUS
    <2>2. Shape(g) /\ g.id = NextGrant /\ ~ g.delegated
      BY <2>1, RequestedShape
    <2>3. Issues(g)
      BY <1>1, <2>1, <2>2 DEF Authorize, Issues
    <2> QED BY <2>3
  <1>2. ASSUME NEW q \in Requests, NEW e, AuthorizeWithEnvelope(m, q, e) PROVE \E g : Issues(g)
    <2>1. PICK g : g = [GrantFor(m, q) EXCEPT !.envelope = Just(e)]
      OBVIOUS
    <2>2. Shape(g) /\ g.id = NextGrant /\ ~ g.delegated
      BY <2>1, RequestedShape
    <2>3. Issues(g)
      BY <1>2, <2>1, <2>2 DEF AuthorizeWithEnvelope, Issues
    <2> QED BY <2>3
  <1>3. ASSUME NEW q \in Requests, NEW graph, AuthorizePlan(m, q, graph) PROVE \E g : Issues(g)
    <2>1. PICK g : g = [GrantFor(m, q) EXCEPT !.plan = Just(graph)]
      OBVIOUS
    <2>2. Shape(g) /\ g.id = NextGrant /\ ~ g.delegated
      BY <2>1, RequestedShape
    <2>3. Issues(g)
      BY <1>3, <2>1, <2>2 DEF AuthorizePlan, Issues
    <2> QED BY <2>3
  <1>4. ASSUME NEW q \in Requests, NEW bundle, NEW batch, NEW x, NEW y,
               AuthorizeWithQuorum(m, q, bundle, batch, x, y)
        PROVE  \E g : Issues(g)
    <2>1. PICK g : g = [GrantFor(m, q) EXCEPT !.approval = Just("counted"), !.subject = y]
      OBVIOUS
    <2>2. Shape(g) /\ g.id = NextGrant /\ ~ g.delegated
      BY <2>1, RequestedShape
    <2>3. Issues(g)
      BY <1>4, <2>1, <2>2 DEF AuthorizeWithQuorum, Issues
    <2> QED BY <2>3
  <1> QED BY <1>1, <1>2, <1>3, <1>4 DEF AuthorizeStep

LEMMA DelegationIssues ==
    ASSUME GrantsInv, NEW parent \in grants, NEW a \in Attenuations, Delegate(parent, a)
    PROVE  \E g : Issues(g)
  <1>1. PICK g : g = Attenuated(parent, a)
    OBVIOUS
  <1>2. Shape(g) /\ g.id = NextGrant /\ g.parent = Just(parent.id)
    BY <1>1, AttenuatedShape DEF GrantsInv
  <1>3. parent.id \in 1..Cardinality(grants) /\ Cardinality(grants) \in Nat
    BY FS_CardinalityType DEF GrantsInv, NumberedInv
  <1>4. Derived(g, parent)
    BY <1>1, <1>2, <1>3 DEF Delegate, Derived, NextGrant
  <1>5. Issues(g)
    BY <1>1, <1>2, <1>4 DEF Delegate, Issues, RecordGrantLineage
  <1> QED BY <1>5

\* What a step can do to the grants and to the commits under them.
LEMMA Steps ==
    ASSUME GrantsInv, WorldInv, [Next]_vars
    PROVE  /\ WorldInv'
           /\ \/ UNCHANGED <<grants, lineage, revoked, call, effects>>
              \/ \E g : Issues(g)
              \/ \E g \in grants : RecordRoot(g) \/ \E m : Revoke(g, m)
              \/ \E m \in Manifests, g \in grants : \E adapter, policy, envelope, plan :
                    BeginCommit(m, g, adapter, policy, envelope, plan)
              \/ CheckAncestors
              \/ Execute
  <1> USE DEF WorldInv, world, store
  <1>1. CASE UNCHANGED vars
    BY <1>1 DEF vars
  <1>2. CASE WorldStep
    BY <1>2 DEF WorldStep, Tick, RemoveKey, DistrustAdapter, RegisterAgain
  <1>3. CASE PureStep
    BY <1>3 DEF PureStep, AssessEffect, NarrowEnvelope, Substitute
  <1>4. ASSUME NEW m \in Manifests, Prepare(m) \/ SealManifest(m) \/ ProofStep(m)
        PROVE  WorldInv' /\ UNCHANGED <<grants, lineage, revoked, call, effects>>
    BY <1>4 DEF Prepare, SealManifest, ProofStep, ProveWithWitnessQuorum, AssertEvidenceQuality
  <1>5. ASSUME NEW m \in Manifests, AuthorizeStep(m) PROVE WorldInv' /\ \E g : Issues(g)
    <2>1. WorldInv'
      <3>1. ASSUME NEW q \in Requests, NEW bundle, NEW batch, NEW x, NEW y,
                   AuthorizeWithQuorum(m, q, bundle, batch, x, y)
            PROVE  UNCHANGED world
        BY <3>1, Zenon DEF AuthorizeWithQuorum
      <3>2. ASSUME NEW q \in Requests, NEW e,
                   Authorize(m, q) \/ AuthorizeWithEnvelope(m, q, e) \/ AuthorizePlan(m, q, e)
            PROVE  UNCHANGED world
        BY <3>2, Zenon DEF Authorize, AuthorizeWithEnvelope, AuthorizePlan
      <3>3. UNCHANGED world
        BY <1>5, <3>1, <3>2, Zenon DEF AuthorizeStep
      <3> QED BY <3>3
    <2> QED BY <1>5, <2>1, RequestsIssue
  <1>6. ASSUME NEW g \in grants, GrantStep(g)
        PROVE  WorldInv' /\ ((\E h : Issues(h)) \/ RecordRoot(g) \/ \E m : Revoke(g, m))
    <2>1. WorldInv'
      BY <1>6 DEF GrantStep, Delegate, RecordRoot, Revoke
    <2> QED BY <1>6, <2>1, DelegationIssues DEF GrantStep
  <1>7. CASE CommitStep
    <2>1. ASSUME NEW m, NEW g, NEW adapter, NEW policy, NEW envelope, NEW plan,
                 BeginCommit(m, g, adapter, policy, envelope, plan)
          PROVE  UNCHANGED <<now, keyring>>
      BY <2>1 DEF BeginCommit
    <2>2. CheckAncestors => UNCHANGED <<now, keyring>>
      BY DEF CheckAncestors
    <2>3. Execute => UNCHANGED <<now, keyring>>
      BY DEF Execute
    <2>4. WorldInv'
      BY <1>7, <2>1, <2>2, <2>3 DEF CommitStep
    <2> QED BY <1>7, <2>4 DEF CommitStep
  <1> QED BY <1>1, <1>2, <1>3, <1>4, <1>5, <1>6, <1>7 DEF Next

LEMMA IssuedGrantsInv ==
    ASSUME GrantsInv, NEW g, Issues(g)
    PROVE  GrantsInv'
  <1>1. /\ IsFiniteSet(grants) /\ Cardinality(grants) \in Nat
        /\ {h.id : h \in grants} = 1..Cardinality(grants)
        /\ \A h, k \in grants : h.id = k.id => h = k
    BY FS_CardinalityType DEF GrantsInv, NumberedInv
  <1>2. /\ grants' = grants \cup {g} /\ g.id = Cardinality(grants) + 1
        /\ Cardinality(grants) + 1 <= MaxGrants
    BY DEF Issues, NextGrant
  <1>3. \A h \in grants : h.id \in 1..Cardinality(grants)
    BY <1>1
  <1>4. g \notin grants
    BY <1>1, <1>2, <1>3
  <1>5. IsFiniteSet(grants') /\ Cardinality(grants') = Cardinality(grants) + 1
    BY <1>1, <1>2, <1>4, FS_AddElement
  <1>6. {h.id : h \in grants'} = 1..Cardinality(grants')
    <2>1. {h.id : h \in grants'} = {h.id : h \in grants} \cup {g.id}
      BY <1>2
    <2> QED BY <1>1, <1>2, <1>5, <2>1
  <1>7. \A h, k \in grants' : h.id = k.id => h = k
    BY <1>1, <1>2, <1>3
  <1>8. NumberedInv'
    BY <1>2, <1>5, <1>6, <1>7 DEF NumberedInv
  <1>9. \A h \in grants' : Shape(h) /\ (h.delegated => \E p \in grants' : Derived(h, p))
    BY <1>2 DEF Issues, GrantsInv
  <1>10. \A id \in DOMAIN lineage' : \E h \in grants' : h.id = id /\ lineage'[id] = h.parent
    <2>1. CASE lineage' = lineage
      BY <1>2, <2>1 DEF GrantsInv
    <2>2. CASE lineage' = RecordLineage(lineage, g.id, g.parent)
      BY <1>2, <2>2 DEF GrantsInv, RecordLineage
    <2> QED BY <2>1, <2>2 DEF Issues
  <1> QED BY <1>8, <1>9, <1>10 DEF GrantsInv

LEMMA GrantsNext ==
    ASSUME GrantsInv, WorldInv, [Next]_vars
    PROVE  GrantsInv'
  <1>1. ASSUME grants' = grants, lineage' = lineage PROVE GrantsInv'
    BY <1>1 DEF GrantsInv, NumberedInv
  <1>2. ASSUME NEW g \in grants, RecordRoot(g) PROVE GrantsInv'
    <2>1. NumberedInv' /\ grants' = grants
      BY <1>2 DEF RecordRoot, GrantsInv, NumberedInv
    <2>2. g.parent = Nothing /\ lineage' = RecordLineage(lineage, g.id, Nothing)
      BY <1>2 DEF RecordRoot
    <2>3. \A id \in DOMAIN lineage' : \E h \in grants : h.id = id /\ lineage'[id] = h.parent
      BY <2>2 DEF GrantsInv, RecordLineage
    <2> QED BY <2>1, <2>3 DEF GrantsInv
  <1>3. ASSUME NEW g, NEW m, Revoke(g, m) PROVE GrantsInv'
    BY <1>1, <1>3 DEF Revoke
  <1>4. ASSUME NEW m, NEW g, NEW adapter, NEW policy, NEW envelope, NEW plan,
               BeginCommit(m, g, adapter, policy, envelope, plan)
        PROVE  GrantsInv'
    BY <1>1, <1>4 DEF BeginCommit, store
  <1>5. CASE CheckAncestors \/ Execute
    BY <1>1, <1>5 DEF CheckAncestors, Execute, store
  <1> QED BY <1>1, <1>2, <1>3, <1>4, <1>5, Steps, IssuedGrantsInv

\* Grants that are issued later have no place among the ancestors of one that was there before.
LEMMA ClearedStays ==
    ASSUME GrantsInv, NEW g, grants' = grants \/ Issues(g), NEW h, NEW known, Cleared(h, known)
    PROVE  Cleared(h, known)'
  <1>1. PICK S : /\ h.parent \subseteq S /\ S \subseteq {k.id : k \in grants}
                 /\ \A k \in grants : k.id \in S => k.id \notin known /\ k.parent \subseteq S
    BY DEF Cleared
  <1>2. grants' = grants \/ (grants' = grants \cup {g} /\ g.id \notin S)
    <2>1. Cardinality(grants) \in Nat /\ {k.id : k \in grants} = 1..Cardinality(grants)
      BY FS_CardinalityType DEF GrantsInv, NumberedInv
    <2> QED BY <1>1, <2>1 DEF Issues, NextGrant
  <1>3. /\ h.parent \subseteq S /\ S \subseteq {k.id : k \in grants'}
        /\ \A k \in grants' : k.id \in S => k.id \notin known /\ k.parent \subseteq S
    BY <1>1, <1>2
  <1> QED BY <1>3 DEF Cleared

LEMMA PermittedStays ==
    ASSUME grants \subseteq grants', NEW m, NEW g, NEW at, NEW known, Permitted(m, g, at, known)
    PROVE  Permitted(m, g, at, known)'
  BY DEF Permitted

LEMMA GrantsGrow ==
    ASSUME GrantsInv, WorldInv, [Next]_vars
    PROVE  /\ grants \subseteq grants' /\ revoked \subseteq revoked'
           /\ \E g : grants' = grants \/ Issues(g)
  <1>1. ASSUME NEW g \in grants, RecordRoot(g) \/ \E m : Revoke(g, m)
        PROVE  grants' = grants /\ revoked \subseteq revoked'
    BY <1>1 DEF RecordRoot, Revoke
  <1>2. ASSUME NEW m, NEW g, NEW adapter, NEW policy, NEW envelope, NEW plan,
               BeginCommit(m, g, adapter, policy, envelope, plan)
        PROVE  grants' = grants /\ revoked' = revoked
    BY <1>2 DEF BeginCommit, store
  <1>3. CASE CheckAncestors \/ Execute
    BY <1>3 DEF CheckAncestors, Execute, store
  <1>4. ASSUME NEW g, Issues(g) PROVE grants \subseteq grants' /\ revoked' = revoked
    BY <1>4 DEF Issues
  <1> QED BY <1>1, <1>2, <1>3, <1>4, Steps

\* A walk that came back clear has found the ancestors of the grant.
LEMMA WalkMeansCleared ==
    ASSUME GrantsInv, NEW g \in grants, NEW known, known \subseteq revoked,
           Ancestors(g, lineage, revoked, MAX_DELEGATION_DEPTH) = "clear"
    PROVE  Cleared(g, known)
  <1>1. \A id \in DOMAIN lineage : \E h \in grants : h.id = id /\ lineage[id] = h.parent
    BY DEF GrantsInv
  <1>2. AtMostOne(g.parent) /\ \A id \in DOMAIN lineage : AtMostOne(lineage[id])
    BY <1>1 DEF GrantsInv, Shape
  <1>3. MAX_DELEGATION_DEPTH \in Nat
    BY DEF MAX_DELEGATION_DEPTH
  <1>4. PICK S : /\ g.parent \subseteq S /\ S \subseteq DOMAIN lineage
                 /\ \A id \in S : id \notin revoked /\ lineage[id] \subseteq S
    BY <1>2, <1>3, WalkClears
  <1>5. \A h, k \in grants : h.id = k.id => h = k
    BY DEF GrantsInv, NumberedInv
  <1>6. \A h \in grants : h.id \in S => h.id \notin known /\ h.parent \subseteq S
    BY <1>1, <1>4, <1>5
  <1>7. S \subseteq {h.id : h \in grants}
    BY <1>1, <1>4
  <1> QED BY <1>4, <1>6, <1>7 DEF Cleared

LEMMA StandingCalls ==
    ASSUME GrantsInv, WorldInv, CallInv, [Next]_vars, call' = call
    PROVE  CallInv'
  <1> SUFFICES ASSUME NEW c \in call
               PROVE  /\ DOMAIN c = CallFields /\ c.known \subseteq revoked'
                      /\ Permitted(c.manifest, c.grant, c.at, c.known)'
                      /\ c.step = "reserve" => Cleared(c.grant, c.known)'
    BY DEF CallInv
  <1>1. /\ DOMAIN c = CallFields /\ c.known \subseteq revoked
        /\ Permitted(c.manifest, c.grant, c.at, c.known)
        /\ c.step = "reserve" => Cleared(c.grant, c.known)
    BY DEF CallInv
  <1>2. PICK g : grants \subseteq grants' /\ revoked \subseteq revoked' /\ (grants' = grants \/ Issues(g))
    BY GrantsGrow
  <1>3. Permitted(c.manifest, c.grant, c.at, c.known)'
    BY <1>1, <1>2, PermittedStays
  <1>4. c.step = "reserve" => Cleared(c.grant, c.known)'
    BY <1>1, <1>2, ClearedStays
  <1> QED BY <1>1, <1>2, <1>3, <1>4

LEMMA CallNext ==
    ASSUME GrantsInv, WorldInv, CallInv, [Next]_vars
    PROVE  CallInv'
  <1>1. CASE call' = call
    BY <1>1, StandingCalls
  <1>2. CASE call' = Nothing
    BY <1>2 DEF CallInv, Nothing
  <1>3. ASSUME NEW m \in Manifests, NEW g \in grants, NEW adapter, NEW policy, NEW envelope, NEW plan,
               BeginCommit(m, g, adapter, policy, envelope, plan)
        PROVE  CallInv'
    <2>1. PICK t, known : t = now /\ known = revoked
      OBVIOUS
    <2> DEFINE c == [manifest |-> m, grant |-> g, at |-> t, known |-> known, step |-> "walk"]
    <2>2. call' = {c} /\ grants' = grants /\ revoked' = revoked
      BY <1>3, <2>1, Zenon DEF BeginCommit, Just, store
    <2>3. /\ VerifyGrant(g, keyring, now, Leeway) /\ g.id \notin revoked
          /\ Content[m].effect \in g.effects /\ Content[m].adapter.id \in g.audience
      BY <1>3, Zenon DEF BeginCommit
    <2>4. Permitted(m, g, t, known)
      BY <2>1, <2>3 DEF Permitted, VerifyGrant, Verifies, WorldInv
    <2>5. Permitted(m, g, t, known)'
      BY <2>2, <2>4, PermittedStays
    <2>6. /\ DOMAIN c = CallFields /\ c.step # "reserve" /\ c.manifest = m /\ c.grant = g
          /\ c.at = t /\ c.known = known
      BY DEF CallFields
    <2> QED BY <2>1, <2>2, <2>5, <2>6 DEF CallInv
  <1>4. CASE CheckAncestors
    <2>1. PICK c \in call : /\ c.step = "walk"
                            /\ call' = IF Ancestors(c.grant, lineage, revoked, MAX_DELEGATION_DEPTH) = "clear"
                                       THEN Just([c EXCEPT !.step = "reserve"]) ELSE Nothing
                            /\ grants' = grants /\ revoked' = revoked
      BY <1>4 DEF CheckAncestors, At, store
    <2>2. CASE Ancestors(c.grant, lineage, revoked, MAX_DELEGATION_DEPTH) = "clear"
      <3> DEFINE d == [c EXCEPT !.step = "reserve"]
      <3>1. call' = {d}
        BY <2>1, <2>2 DEF Just
      <3>2. DOMAIN c = CallFields /\ c.known \subseteq revoked /\ Permitted(c.manifest, c.grant, c.at, c.known)
        BY DEF CallInv
      <3>3. Cleared(c.grant, c.known)
        BY <2>2, <3>2, WalkMeansCleared DEF Permitted
      <3>4. Cleared(c.grant, c.known)'
        BY <2>1, <3>3, ClearedStays
      <3>5. Permitted(c.manifest, c.grant, c.at, c.known)'
        BY <2>1, <3>2, PermittedStays
      <3>6. /\ DOMAIN d = CallFields /\ d.manifest = c.manifest /\ d.grant = c.grant
            /\ d.at = c.at /\ d.known = c.known
        BY <3>2 DEF CallFields
      <3> QED BY <2>1, <3>1, <3>2, <3>4, <3>5, <3>6 DEF CallInv
    <2>3. CASE Ancestors(c.grant, lineage, revoked, MAX_DELEGATION_DEPTH) # "clear"
      BY <1>2, <2>1, <2>3
    <2> QED BY <2>2, <2>3
  <1>5. CASE Execute
    BY <1>2, <1>5 DEF Execute
  <1>6. ASSUME NEW g \in grants, RecordRoot(g) \/ \E m : Revoke(g, m)
        PROVE  call' = call
    BY <1>6 DEF RecordRoot, Revoke
  <1>7. ASSUME NEW g, Issues(g) PROVE call' = call
    BY <1>7 DEF Issues
  <1> QED BY <1>1, <1>3, <1>4, <1>5, <1>6, <1>7, Steps

LEMMA EffectsNext ==
    ASSUME GrantsInv, WorldInv, CallInv, EffectsInv, [Next]_vars
    PROVE  EffectsInv'
  <1>1. PICK g : grants \subseteq grants' /\ (grants' = grants \/ Issues(g))
    BY GrantsGrow
  <1>2. ASSUME NEW e \in effects
        PROVE  Permitted(e.manifest, e.grant, e.at, e.known)' /\ Cleared(e.grant, e.known)'
    <2>1. Permitted(e.manifest, e.grant, e.at, e.known) /\ Cleared(e.grant, e.known)
      BY DEF EffectsInv
    <2> QED BY <1>1, <2>1, PermittedStays, ClearedStays
  <1>3. CASE effects' = effects
    BY <1>2, <1>3 DEF EffectsInv
  <1>4. CASE Execute
    <2>1. PICK c \in call :
             /\ c.step = "reserve" /\ grants' = grants
             /\ \/ effects' = effects
                \/ effects' = effects \cup {[manifest |-> c.manifest, grant |-> c.grant,
                                             at |-> c.at, known |-> c.known]}
      BY <1>4, Zenon DEF Execute, At
    <2>2. Permitted(c.manifest, c.grant, c.at, c.known) /\ Cleared(c.grant, c.known)
      BY <2>1 DEF CallInv
    <2>3. Permitted(c.manifest, c.grant, c.at, c.known)' /\ Cleared(c.grant, c.known)'
      BY <2>1, <2>2, PermittedStays, ClearedStays
    <2> QED BY <1>2, <2>1, <2>3 DEF EffectsInv
  <1>5. ASSUME NEW h \in grants, RecordRoot(h) \/ \E m : Revoke(h, m) PROVE effects' = effects
    BY <1>5 DEF RecordRoot, Revoke
  <1>6. ASSUME NEW h, Issues(h) PROVE effects' = effects
    BY <1>6 DEF Issues
  <1>7. ASSUME NEW m, NEW h, NEW adapter, NEW policy, NEW envelope, NEW plan,
               BeginCommit(m, h, adapter, policy, envelope, plan)
        PROVE  effects' = effects
    BY <1>7 DEF BeginCommit
  <1>8. CASE CheckAncestors
    BY <1>3, <1>8 DEF CheckAncestors
  <1> QED BY <1>3, <1>4, <1>5, <1>6, <1>7, <1>8, Steps

LEMMA CommitInvAlways == Spec => []CommitInv
  <1>1. Init => CommitInv
    <2> SUFFICES ASSUME Init PROVE CommitInv
      OBVIOUS
    <2>1. WorldInv
      BY DEF Init, WorldInv
    <2>2. NumberedInv
      <3>1. IsFiniteSet({}) /\ Cardinality({}) = 0
        BY FS_EmptySet
      <3> QED BY <3>1, AuthorityAssumption DEF Init, NumberedInv
    <2>3. GrantsInv
      BY <2>2 DEF Init, GrantsInv
    <2> QED BY <2>1, <2>3 DEF Init, CommitInv, CallInv, EffectsInv, Nothing
  <1>2. CommitInv /\ [Next]_vars => CommitInv'
    BY Steps, GrantsNext, CallNext, EffectsNext DEF CommitInv
  <1> QED BY <1>1, <1>2, PTL DEF Spec

(***************************************************************************)
(* The chain of a grant, which the properties are stated over.             *)
(***************************************************************************)
Up(i) == CHOOSE p \in GrantOf(i).parent : TRUE

Link(f, i) == Append(IF Issued(GrantOf(i)) THEN f[Up(i)] ELSE << >>, GrantOf(i))

\* f holds the chains of the first N grants.
ChainsOf(f, N) == f = [i \in 0..N |-> IF i = 0 THEN << >> ELSE Link(f, i)]

LEMMA ChainUnfolds ==
    ASSUME NEW g
    PROVE  ChainOf(g) = (CHOOSE f : ChainsOf(f, MaxGrants))[g.id]
  BY Zenon DEF ChainOf, ChainsOf, Link, Up

LEMMA GrantOfNumber ==
    ASSUME GrantsInv, NEW g \in grants
    PROVE  GrantOf(g.id) = g /\ g.id \in 1..MaxGrants
  <1>1. \A h, k \in grants : h.id = k.id => h = k
    BY DEF GrantsInv, NumberedInv
  <1>2. GrantOf(g.id) = g
    BY <1>1 DEF GrantOf
  <1>3. g.id \in 1..Cardinality(grants) /\ Cardinality(grants) <= MaxGrants /\ MaxGrants \in Nat
    BY AuthorityAssumption DEF GrantsInv, NumberedInv
  <1>4. Cardinality(grants) \in Nat
    BY FS_CardinalityType DEF GrantsInv, NumberedInv
  <1> QED BY <1>2, <1>3, <1>4

\* A number without a grant has some grant's chain below it, if any.
LEMMA UpIsBelow ==
    ASSUME GrantsInv, NEW i \in Nat, i # 0, Issued(GrantOf(i))
    PROVE  Up(i) \in 1..(i - 1)
  <1>1. PICK k \in grants : GrantOf(i).parent = {k.id} /\ k.id < GrantOf(i).id
    BY DEF Issued, Just
  <1>2. Up(i) = k.id
    BY <1>1 DEF Up
  <1>3. Cardinality(grants) \in Nat /\ {h.id : h \in grants} = 1..Cardinality(grants)
    BY FS_CardinalityType DEF GrantsInv, NumberedInv
  <1>4. k.id \in 1..Cardinality(grants)
    BY <1>3
  <1>5. CASE i \in 1..Cardinality(grants)
    <2>1. PICK g \in grants : g.id = i
      BY <1>3, <1>5
    <2>2. GrantOf(i).id = i
      BY <2>1, GrantOfNumber
    <2> QED BY <1>1, <1>2, <1>4, <2>2
  <1>6. CASE i \notin 1..Cardinality(grants)
    BY <1>2, <1>3, <1>4, <1>6
  <1> QED BY <1>5, <1>6

LEMMA ChainsExist ==
    ASSUME GrantsInv, NEW N \in Nat
    PROVE  \E f : ChainsOf(f, N)
  <1> DEFINE Has(n) == \E f : ChainsOf(f, n)
             Bad == {n \in Nat : ~ Has(n)}
  <1> SUFFICES ASSUME Bad # {} PROVE FALSE
    OBVIOUS
  <1>1. PICK n \in Bad : \A k \in Bad : n <= k
    <2>1. Bad \subseteq Nat
      OBVIOUS
    <2> HIDE DEF Bad
    <2> QED BY <2>1, LeastNumber
  <1>2. CASE n = 0
    <2> DEFINE f == [k \in 0..0 |-> << >>]
    <2>1. ChainsOf(f, 0)
      BY DEF ChainsOf
    <2> QED BY <1>1, <1>2, <2>1
  <1>3. CASE n # 0
    <2>1. n - 1 \in Nat /\ n - 1 \notin Bad
      BY <1>1, <1>3
    <2>2. PICK f : ChainsOf(f, n - 1)
      BY <2>1
    <2> DEFINE h == [k \in 0..n |-> IF k = n THEN Link(f, n) ELSE f[k]]
    <2>3. \A k \in 1..n : Link(h, k) = Link(f, k)
      <3>1. ASSUME NEW k \in 1..n, Issued(GrantOf(k)) PROVE h[Up(k)] = f[Up(k)]
        <4>1. Up(k) \in 1..(k - 1)
          BY <3>1, UpIsBelow
        <4>2. Up(k) \in 0..n /\ Up(k) # n
          BY <1>1, <4>1
        <4> QED BY <4>2
      <3> HIDE DEF h
      <3> QED BY <3>1, Zenon DEF Link
    <2>4. ChainsOf(h, n)
      <3> SUFFICES ASSUME NEW k \in 0..n PROVE h[k] = IF k = 0 THEN << >> ELSE Link(h, k)
        BY Zenon DEF ChainsOf
      <3>1. CASE k = n
        BY <1>1, <1>3, <2>3, <3>1
      <3>2. CASE k # n
        <4>1. k \in 0..(n - 1) /\ h[k] = f[k]
          BY <1>1, <3>2
        <4>2. f[k] = IF k = 0 THEN << >> ELSE Link(f, k)
          BY <2>2, <4>1 DEF ChainsOf
        <4> QED BY <2>3, <4>1, <4>2
      <3> QED BY <3>1, <3>2
    <2> HIDE DEF h
    <2> QED BY <1>1, <2>4
  <1> QED BY <1>2, <1>3

\* The chain of a grant is its parent's and itself.
LEMMA ChainStep ==
    ASSUME GrantsInv, NEW g \in grants
    PROVE  /\ ~ Issued(g) => ChainOf(g) = Append(<< >>, g)
           /\ \A p \in grants : g.parent = Just(p.id) /\ p.id < g.id => ChainOf(g) = Append(ChainOf(p), g)
  <1> DEFINE F == CHOOSE f : ChainsOf(f, MaxGrants)
  <1>1. ChainsOf(F, MaxGrants)
    <2>1. \E f : ChainsOf(f, MaxGrants)
      BY ChainsExist, AuthorityAssumption
    <2> QED BY <2>1, Zenon
  <1>2. \A h \in grants : ChainOf(h) = F[h.id]
    BY ChainUnfolds
  <1> HIDE DEF F
  <1>3. GrantOf(g.id) = g /\ g.id \in 1..MaxGrants /\ MaxGrants \in Nat
    BY GrantOfNumber, AuthorityAssumption
  <1>4. F[g.id] = Link(F, g.id)
    BY <1>1, <1>3 DEF ChainsOf
  <1>5. ASSUME NEW p \in grants, g.parent = Just(p.id) /\ p.id < g.id
        PROVE  ChainOf(g) = Append(ChainOf(p), g)
    <2>1. Issued(g)
      BY <1>5 DEF Issued
    <2>2. Up(g.id) = p.id
      BY <1>3, <1>5 DEF Up, Just
    <2> QED BY <1>2, <1>3, <1>4, <2>1, <2>2 DEF Link
  <1> QED BY <1>2, <1>3, <1>4, <1>5 DEF Link

Closed(S) == \A h \in grants : h.id \in S => h.parent \subseteq S

\* a allows whatever h allows, as far as commit asks.
Allows(a, h) ==
    a.from <= h.from /\ h.until <= a.until /\ h.audience \subseteq a.audience /\ h.effects \subseteq a.effects

LongChain(C, g) ==
    /\ C \in Seq(grants) /\ Len(C) >= 1 /\ C[Len(C)] = g
    /\ \A i \in 1..(Len(C) - 1) : C[i + 1].parent = Just(C[i].id)
    /\ \A S : g.parent \subseteq S /\ Closed(S) => \A i \in 1..Len(C) : C[i] = g \/ C[i].id \in S

NarrowChain(C, g) ==
    (\A i \in 2..Len(C) : C[i].delegated) =>
        /\ \A i \in 1..(Len(C) - 1) : GrantNarrower(C[i + 1], C[i])
        /\ \A i \in 1..Len(C) : Allows(C[i], g)

LEMMA ChainGrows ==
    ASSUME GrantsInv, NEW g \in grants, NEW p \in grants, g.parent = Just(p.id), p.id < g.id,
           NEW D, LongChain(D, p), NarrowChain(D, p)
    PROVE  LongChain(Append(D, g), g) /\ NarrowChain(Append(D, g), g)
  <1> DEFINE C == Append(D, g)
  <1>1. D \in Seq(grants) /\ Len(D) \in Nat /\ Len(D) >= 1 /\ D[Len(D)] = p
    BY DEF LongChain
  <1>2. /\ C \in Seq(grants) /\ Len(C) = Len(D) + 1 /\ C[Len(D) + 1] = g
        /\ \A i \in 1..Len(D) : C[i] = D[i]
    BY <1>1
  <1> HIDE DEF C
  <1>3. \A i \in 1..(Len(C) - 1) : C[i + 1].parent = Just(C[i].id)
    <2> SUFFICES ASSUME NEW i \in 1..Len(D) PROVE C[i + 1].parent = Just(C[i].id)
      BY <1>1, <1>2
    <2>1. CASE i = Len(D)
      BY <1>1, <1>2, <2>1
    <2>2. CASE i # Len(D)
      <3>1. i \in 1..(Len(D) - 1) /\ i + 1 \in 1..Len(D)
        BY <1>1, <2>2
      <3> QED BY <1>2, <3>1 DEF LongChain
    <2> QED BY <2>1, <2>2
  <1>4. ASSUME NEW S, g.parent \subseteq S, Closed(S), NEW i \in 1..Len(C)
        PROVE  C[i] = g \/ C[i].id \in S
    <2>1. p.id \in S /\ p.parent \subseteq S
      BY <1>4 DEF Closed, Just
    <2>2. \A k \in 1..Len(D) : D[k] = p \/ D[k].id \in S
      BY <1>4, <2>1 DEF LongChain
    <2>3. i \in 1..Len(D) \/ i = Len(D) + 1
      BY <1>1, <1>2, <1>4
    <2> QED BY <1>2, <2>1, <2>2, <2>3
  <1>5. LongChain(C, g)
    <2>1. Len(C) >= 1 /\ C[Len(C)] = g
      BY <1>1, <1>2
    <2> QED BY <1>2, <1>3, <1>4, <2>1 DEF LongChain
  <1>6. ASSUME \A i \in 2..Len(C) : C[i].delegated
        PROVE  /\ \A i \in 1..(Len(C) - 1) : GrantNarrower(C[i + 1], C[i])
               /\ \A i \in 1..Len(C) : Allows(C[i], g)
    <2>1. g.delegated
      BY <1>1, <1>2, <1>6
    <2>2. PICK q \in grants : Derived(g, q)
      BY <2>1 DEF GrantsInv
    <2>3. q = p
      BY <2>2 DEF GrantsInv, NumberedInv, Derived, Just
    <2>4. GrantNarrower(g, p)
      BY <2>2, <2>3 DEF Derived
    <2>5. \A i \in 2..Len(D) : D[i].delegated
      BY <1>1, <1>2, <1>6
    <2>6. /\ \A i \in 1..(Len(D) - 1) : GrantNarrower(D[i + 1], D[i])
          /\ \A i \in 1..Len(D) : Allows(D[i], p)
      BY <2>5 DEF NarrowChain
    <2>7. ASSUME NEW i \in 1..Len(D) PROVE GrantNarrower(C[i + 1], C[i])
      <3>1. CASE i = Len(D)
        BY <1>1, <1>2, <2>4, <3>1
      <3>2. CASE i # Len(D)
        <4>1. i \in 1..(Len(D) - 1) /\ i + 1 \in 1..Len(D)
          BY <1>1, <3>2
        <4> QED BY <1>2, <2>6, <4>1
      <3> QED BY <3>1, <3>2
    <2>8. Allows(p, g)
      BY <2>4 DEF Allows, GrantNarrower, GrantsInv, Shape
    <2>9. \A h \in grants : h.from \in Int /\ h.until \in Int
      BY DEF GrantsInv, Shape
    <2>10. \A i \in 1..Len(D) : D[i] \in grants
      BY <1>1
    <2>11. \A i \in 1..Len(D) : Allows(D[i], g)
      BY <2>6, <2>8, <2>9, <2>10 DEF Allows
    <2>12. Allows(g, g)
      BY <2>9 DEF Allows
    <2>13. \A i \in 1..Len(C) : Allows(C[i], g)
      BY <1>1, <1>2, <2>11, <2>12
    <2> QED BY <1>1, <1>2, <2>7, <2>13
  <1>7. NarrowChain(C, g)
    BY <1>6 DEF NarrowChain
  <1> QED BY <1>5, <1>7 DEF C

LEMMA ChainFacts ==
    ASSUME GrantsInv, NEW g \in grants
    PROVE  LongChain(ChainOf(g), g) /\ NarrowChain(ChainOf(g), g)
  <1> DEFINE Good(h) == LongChain(ChainOf(h), h) /\ NarrowChain(ChainOf(h), h)
             Bad == {h.id : h \in {k \in grants : ~ Good(k)}}
  <1> SUFFICES ASSUME Bad # {} PROVE FALSE
    OBVIOUS
  <1>1. \A h \in grants : h.id \in Nat
    BY GrantOfNumber, AuthorityAssumption
  <1>2. PICK n \in Bad : \A k \in Bad : n <= k
    <2>1. Bad \subseteq Nat
      BY <1>1
    <2> HIDE DEF Bad
    <2> QED BY <2>1, LeastNumber
  <1>3. PICK h \in grants : h.id = n /\ ~ Good(h)
    BY <1>2
  <1>4. CASE Issued(h)
    <2>1. PICK p \in grants : h.parent = Just(p.id) /\ p.id < h.id
      BY <1>4 DEF Issued
    <2>2. Good(p)
      <3>1. ~ (n <= p.id)
        BY <1>1, <1>3, <2>1
      <3>2. p.id \notin Bad
        BY <1>2, <3>1
      <3> HIDE DEF Good
      <3> QED BY <3>2
    <2>3. ChainOf(h) = Append(ChainOf(p), h)
      BY <2>1, ChainStep
    <2> QED BY <1>3, <2>1, <2>2, <2>3, ChainGrows
  <1>5. CASE ~ Issued(h)
    <2>1. ChainOf(h) = Append(<< >>, h)
      BY <1>5, ChainStep
    <2> DEFINE C == ChainOf(h)
    <2>2. C \in Seq(grants) /\ Len(C) = 1 /\ C[1] = h
      BY <2>1
    <2> HIDE DEF C
    <2>3. Allows(h, h)
      BY DEF Allows, GrantsInv, Shape
    <2>4. \A i \in 1..1 : i = 1
      OBVIOUS
    <2>5. \A i \in 1..(1 - 1) : FALSE
      OBVIOUS
    <2>6. LongChain(C, h) /\ NarrowChain(C, h)
      BY <2>2, <2>3, <2>4, <2>5 DEF LongChain, NarrowChain
    <2> QED BY <1>3, <2>6 DEF C
  <1> QED BY <1>4, <1>5

LEMMA RevocationReaches == CommitInv => RevocationReachesDescendants
  <1> SUFFICES ASSUME CommitInv, NEW e \in effects, NEW i \in DOMAIN ChainOf(e.grant)
               PROVE  ChainOf(e.grant)[i].id \notin e.known
    BY DEF RevocationReachesDescendants
  <1>1. e.grant \in grants /\ e.grant.id \notin e.known /\ Cleared(e.grant, e.known) /\ GrantsInv
    BY DEF CommitInv, EffectsInv, Permitted
  <1>2. PICK S : /\ e.grant.parent \subseteq S
                 /\ \A h \in grants : h.id \in S => h.id \notin e.known /\ h.parent \subseteq S
    BY <1>1 DEF Cleared
  <1>3. LongChain(ChainOf(e.grant), e.grant)
    BY <1>1, ChainFacts
  <1> DEFINE C == ChainOf(e.grant)
  <1>4. C \in Seq(grants) /\ i \in 1..Len(C) /\ (C[i] = e.grant \/ C[i].id \in S)
    BY <1>2, <1>3 DEF LongChain, Closed
  <1>5. C[i] \in grants
    BY <1>4
  <1> QED BY <1>1, <1>2, <1>4, <1>5

LEMMA CommitIsWithin == CommitInv => CommitWithinChain
  <1> SUFFICES ASSUME CommitInv, NEW e \in effects
               PROVE  LET chain == ChainOf(e.grant) IN
                      chain[1].parent = Nothing /\ (\A i \in 2..Len(chain) : chain[i].delegated)
                      => /\ VerifyDelegationChain(chain, Keys, e.known, e.at, Leeway)
                         /\ \A i \in DOMAIN chain :
                               /\ Content[e.manifest].effect \in chain[i].effects
                               /\ Content[e.manifest].adapter.id \in chain[i].audience
                               /\ VerifyGrantTimeWindow(chain[i], e.at, Leeway)
    BY DEF CommitWithinChain
  <1>1. /\ GrantsInv /\ e.grant \in grants /\ e.at \in Nat /\ Leeway \in Nat
        /\ VerifyGrant(e.grant, Keys, e.at, Leeway)
        /\ Content[e.manifest].effect \in e.grant.effects /\ Content[e.manifest].adapter.id \in e.grant.audience
    BY AuthorityAssumption DEF CommitInv, EffectsInv, Permitted
  <1> DEFINE C == ChainOf(e.grant)
  <1>2. LongChain(C, e.grant) /\ NarrowChain(C, e.grant)
    BY <1>1, ChainFacts
  <1>3. \A i \in DOMAIN C : C[i].id \notin e.known
    BY RevocationReaches DEF RevocationReachesDescendants
  <1> HIDE DEF C
  <1> SUFFICES ASSUME C[1].parent = Nothing, \A i \in 2..Len(C) : C[i].delegated
               PROVE  /\ VerifyDelegationChain(C, Keys, e.known, e.at, Leeway)
                      /\ \A i \in DOMAIN C :
                            /\ Content[e.manifest].effect \in C[i].effects
                            /\ Content[e.manifest].adapter.id \in C[i].audience
                            /\ VerifyGrantTimeWindow(C[i], e.at, Leeway)
    BY DEF C
  <1>4. /\ C \in Seq(grants) /\ Len(C) >= 1 /\ DOMAIN C = 1..Len(C)
        /\ \A i \in 1..(Len(C) - 1) : C[i + 1].parent = Just(C[i].id) /\ GrantNarrower(C[i + 1], C[i])
        /\ \A i \in 1..Len(C) : C[i] \in grants /\ Allows(C[i], e.grant)
    BY <1>2 DEF LongChain, NarrowChain
  <1>5. ASSUME NEW i \in DOMAIN C
        PROVE  /\ Content[e.manifest].effect \in C[i].effects
               /\ Content[e.manifest].adapter.id \in C[i].audience
               /\ VerifyGrantTimeWindow(C[i], e.at, Leeway)
               /\ VerifyGrant(C[i], Keys, e.at, Leeway)
    <2>1. Allows(C[i], e.grant) /\ Shape(C[i]) /\ Shape(e.grant)
      BY <1>1, <1>4 DEF GrantsInv
    <2>2. VerifyGrantTimeWindow(C[i], e.at, Leeway)
      BY <1>1, <2>1 DEF Allows, Shape, VerifyGrant, VerifyGrantTimeWindow
    <2>3. Verifies(Keys, C[i].key)
      BY <2>1, AuthorityAssumption DEF Shape, Verifies
    <2> QED BY <1>1, <2>1, <2>2, <2>3 DEF Allows, VerifyGrant
  <1>6. C # << >>
    BY <1>4
  <1>7. VerifyDelegationChain(C, Keys, e.known, e.at, Leeway)
    BY <1>3, <1>4, <1>5, <1>6 DEF VerifyDelegationChain
  <1> QED BY <1>5, <1>7

\* No effect is ever executed under a grant with an ancestor, however far above it was delegated,
\* that had been revoked when the commit was called, for any number of grants and delegations and
\* wherever revocations fall between the gates, the walk over the recorded lineage and the
\* reservation (delegation/revocation.py, engine/core.py commit).
THEOREM RevocationReachesAll == Spec => []RevocationReachesDescendants
  BY CommitInvAlways, RevocationReaches, PTL

\* Whatever commit executes under a chain of delegated grants passes verify_delegation_chain, which
\* it never calls, and lies within the window, the audience and the effect types of every grant of
\* the chain (delegation/attenuation.py, delegation/chain.py).
THEOREM CommitsAreWithinChain == Spec => []CommitWithinChain
  BY CommitInvAlways, CommitIsWithin, PTL

(***************************************************************************)
(* Risk.  Signals are told apart by their names, and one set of them       *)
(* dominates another when it has each of its names with at least its       *)
(* weight.  Whatever is worse raises signals that dominate, or blocks.     *)
(***************************************************************************)
Dominates(B, A) ==
    \A s \in A : \E t \in B : t.name = s.name /\ s.weight <= t.weight /\ (s.blocks => t.blocks)

Weighed(A) == IsFiniteSet(A) /\ \A s \in A : s.weight \in Nat

NamedApart(A) == \A s, t \in A : s.name = t.name => s = t

Weight(A) == SumFunctionOnSet([s \in A |-> s.weight], A)

LEMMA DominatedWeighsLess ==
    ASSUME NEW A, NEW B, Weighed(A), Weighed(B), NamedApart(A), Dominates(B, A)
    PROVE  Weight(A) <= Weight(B) /\ Weight(A) \in Nat /\ Weight(B) \in Nat
  <1> DEFINE f == [s \in A \cup B |-> s.weight]
             Sum(u) == SumFunctionOnSet(f, u)
  <1>1. IsFiniteSet(A) /\ IsFiniteSet(B) /\ \A s \in A \cup B : f[s] = s.weight /\ f[s] \in Nat
    BY DEF Weighed
  <1>2. \A u \in SUBSET (A \cup B) : IsFiniteSet(u) /\ \A s \in u : f[s] = s.weight /\ f[s] \in Nat
    BY <1>1, FS_Union, FS_Subset
  <1>3. Weight(A) = Sum(A) /\ Weight(B) = Sum(B)
    <2>1. ASSUME NEW u \in SUBSET (A \cup B) PROVE Weight(u) = Sum(u)
      <3> DEFINE g == [s \in u |-> s.weight]
      <3>1. \A s \in u : g[s] \in Int /\ f[s] = g[s]
        BY <1>2
      <3>2. IsFiniteSet(u)
        BY <1>2
      <3> HIDE DEF g, f
      <3>3. SumFunctionOnSet(g, u) = SumFunctionOnSet(f, u)
        BY <3>1, <3>2, SumAgrees
      <3> QED BY <3>3 DEF g, Weight
    <2> HIDE DEF f
    <2> QED BY <2>1
  <1> HIDE DEF f
  <1>4. \A u \in SUBSET (A \cup B) :
           Sum(u) \in Nat /\ \A x \in u : Sum(u) = x.weight + Sum(u \ {x})
    <2> SUFFICES ASSUME NEW u \in SUBSET (A \cup B)
                 PROVE  Sum(u) \in Nat /\ \A x \in u : Sum(u) = x.weight + Sum(u \ {x})
      OBVIOUS
    <2>1. IsFiniteSet(u) /\ (\A s \in u : f[s] \in Nat) /\ \A s \in u : f[s] \in Int
      BY <1>2
    <2>2. Sum(u) \in Int /\ \A x \in u : Sum(u) = f[x] + Sum(u \ {x})
      BY <2>1, SumTakes
    <2>3. Sum({}) <= Sum(u) /\ Sum({}) = 0
      BY <2>1, SumSubset, SumOfNone
    <2>4. \A x \in u : f[x] = x.weight
      BY <1>2
    <2> HIDE DEF Sum
    <2>5. Sum(u) \in Nat
      BY <2>2, <2>3
    <2> QED BY <2>2, <2>4, <2>5
  <1> DEFINE Good(u) == \A v \in SUBSET B : Dominates(v, u) => Sum(u) <= Sum(v)
             Bad == {u \in SUBSET A : ~ Good(u)}
  <1>5. Bad = {}
    <2> SUFFICES ASSUME Bad # {} PROVE FALSE
      OBVIOUS
    <2>1. PICK u \in Bad : \A w \in Bad : w \subseteq u => w = u
      <3> HIDE DEF Bad
      <3>1. Bad \subseteq SUBSET A
        BY DEF Bad
      <3> QED BY <1>1, <3>1, MinimalSubset
    <2>2. PICK v \in SUBSET B : Dominates(v, u) /\ ~ (Sum(u) <= Sum(v))
      BY <2>1
    <2> HIDE DEF Sum
    <2>3. u \in SUBSET (A \cup B) /\ v \in SUBSET (A \cup B) /\ u \subseteq A
      BY <2>1, <2>2
    <2>4. u # {}
      <3>1. Sum({}) = 0
        BY SumOfNone DEF Sum
      <3>2. Sum(v) \in Nat
        BY <1>4, <2>3
      <3> QED BY <2>2, <3>1, <3>2
    <2>5. PICK x \in u : TRUE
      BY <2>4
    <2>6. PICK y \in v : y.name = x.name /\ x.weight <= y.weight
      BY <2>2, <2>5 DEF Dominates
    <2>7. Dominates(v \ {y}, u \ {x})
      <3> SUFFICES ASSUME NEW s \in u \ {x}
                   PROVE  \E t \in v \ {y} : t.name = s.name /\ s.weight <= t.weight /\ (s.blocks => t.blocks)
        BY DEF Dominates
      <3>1. PICK t \in v : t.name = s.name /\ s.weight <= t.weight /\ (s.blocks => t.blocks)
        BY <2>2 DEF Dominates
      <3>2. s.name # x.name
        BY <2>3, <2>5 DEF NamedApart
      <3> QED BY <2>6, <3>1, <3>2
    <2>8. Good(u \ {x})
      <3>1. u \ {x} \in SUBSET A /\ u \ {x} \subseteq u /\ u \ {x} # u
        BY <2>3, <2>5
      <3> HIDE DEF Good
      <3> QED BY <2>1, <3>1
    <2>9. Sum(u \ {x}) <= Sum(v \ {y})
      BY <2>7, <2>8, <2>3
    <2>10. Sum(u) = x.weight + Sum(u \ {x}) /\ Sum(v) = y.weight + Sum(v \ {y})
      BY <1>4, <2>3, <2>5, <2>6
    <2>11. /\ x.weight \in Nat /\ y.weight \in Nat
           /\ Sum(u \ {x}) \in Nat /\ Sum(v \ {y}) \in Nat
      <3>1. u \ {x} \in SUBSET (A \cup B) /\ v \ {y} \in SUBSET (A \cup B)
        BY <2>3
      <3>2. x \in A /\ y \in B
        BY <2>3, <2>5, <2>6, <2>2
      <3> QED BY <1>4, <3>1, <3>2 DEF Weighed
    <2> QED BY <2>2, <2>6, <2>9, <2>10, <2>11
  <1>6. Good(A)
    <2> HIDE DEF Good
    <2> QED BY <1>5
  <1>7. Sum(A) <= Sum(B)
    BY <1>6
  <1>8. Sum(A) \in Nat /\ Sum(B) \in Nat
    BY <1>4
  <1> QED BY <1>3, <1>7, <1>8

LEMMA MinOfTwo ==
    ASSUME NEW a \in Int, NEW b \in Int
    PROVE  Min({a, b}) = IF a <= b THEN a ELSE b
  <1>1. \E x \in {a, b} : \A y \in {a, b} : x <= y
    OBVIOUS
  <1>2. Min({a, b}) \in {a, b} /\ \A y \in {a, b} : Min({a, b}) <= y
    BY <1>1, Zenon DEF Min
  <1> QED BY <1>2

LEMMA DominatedScoresLess ==
    ASSUME NEW A, NEW B, Weighed(A), Weighed(B), NamedApart(A), Dominates(B, A)
    PROVE  Score(A) <= Score(B) /\ Score(A) \in Nat /\ Score(B) \in Nat
  <1>1. Weight(A) <= Weight(B) /\ Weight(A) \in Nat /\ Weight(B) \in Nat
    BY DominatedWeighsLess
  <1>2. Score(A) = Min({100, Weight(A)}) /\ Score(B) = Min({100, Weight(B)})
    BY Zenon DEF Score, Weight
  <1>3. /\ Min({100, Weight(A)}) = IF 100 <= Weight(A) THEN 100 ELSE Weight(A)
        /\ Min({100, Weight(B)}) = IF 100 <= Weight(B) THEN 100 ELSE Weight(B)
    BY <1>1, MinOfTwo
  <1> QED BY <1>1, <1>2, <1>3

\* The signal that a name stands for.
Weights(m) ==
    [declared_risk_classification |-> DefaultPolicy.riskPoints[m.risk],
     declared_blast_radius |-> DefaultPolicy.blastPoints[m.blast],
     declared_reversibility |-> DefaultPolicy.reversibility[m.reversibility],
     high_risk_without_cost_estimate |-> 8,
     monetary_exposure_tier |-> Tier((CHOOSE c \in m.cost : TRUE).units, DefaultPolicy.default),
     unclassified_currency_uses_default_thresholds |-> 5,
     no_state_fingerprint_for_non_reversible_effect |-> 10,
     no_preconditions_declared_for_high_risk_effect |-> 10,
     manifest_lifetime_exceeds_recommended_window |-> 8,
     sensitive_target_pattern_matched |-> 15 * m.matches,
     sensitive_target_pattern_malformed |-> 0,
     effect_type_restricted_by_policy |-> 0,
     delegation_depth_exceeds_policy_ceiling |-> 0,
     delegation_depth_at_ceiling |-> 20,
     novel_effect_pattern_no_history |-> 6,
     elevated_historical_failure_rate |-> 25,
     provider_idempotency_unknown |-> 8,
     non_idempotent_provider_high_risk |-> 12,
     compensation_feasibility_unknown |-> 8,
     compensation_feasibility_contradicts_manifest_reversibility |-> 0,
     irreversible_and_not_compensatable |-> 15,
     cross_tenant_effect |-> 20,
     unusual_parameter_change_detected |-> 12,
     external_policy_violation |-> 0]

Blocking ==
    {"sensitive_target_pattern_malformed", "effect_type_restricted_by_policy",
     "delegation_depth_exceeds_policy_ceiling",
     "compensation_feasibility_contradicts_manifest_reversibility", "external_policy_violation"}

Entry(n, m) == [name |-> n, weight |-> Weights(m)[n], blocks |-> n \in Blocking]

Listed(A, m) == IsFiniteSet(A) /\ \A s \in A : s = Entry(s.name, m) /\ s.weight \in Nat

LEMMA ListedUnion ==
    ASSUME NEW m, NEW A, NEW B, Listed(A, m), Listed(B, m)
    PROVE  Listed(A \cup B, m)
  BY FS_Union DEF Listed

LEMMA ListedWhen ==
    ASSUME NEW m, NEW condition, NEW s, condition => s = Entry(s.name, m) /\ s.weight \in Nat
    PROVE  Listed(When(condition, s), m)
  <1>1. IsFiniteSet({}) /\ IsFiniteSet({s})
    BY FS_EmptySet, FS_Singleton
  <1> QED BY <1>1 DEF Listed, When

\* Fixed signals are the ones their names stand for.
LEMMA FixedSignal ==
    ASSUME NEW m, NEW n \in DOMAIN Weights(m) \ Blocking, Weights(m)[n] \in Nat
    PROVE  LET s == Signal(n, Weights(m)[n]) IN s = Entry(s.name, m) /\ s.weight \in Nat
  <1> DEFINE s == Signal(n, Weights(m)[n])
  <1>1. s.name = n /\ s.weight = Weights(m)[n]
    BY DEF Signal
  <1>2. (n \in Blocking) = FALSE
    <2>1. n \notin Blocking
      OBVIOUS
    <2> QED BY <2>1
  <1>3. s = Entry(n, m)
    BY <1>2, Zenon DEF Signal, Entry
  <1> QED BY <1>1, <1>3

LEMMA FixedBlock ==
    ASSUME NEW m, NEW n \in Blocking, Weights(m)[n] = 0
    PROVE  LET s == ForceBlock(n) IN s = Entry(s.name, m) /\ s.weight \in Nat
  BY DEF ForceBlock, Entry

Proper(s, m) == s = Entry(s.name, m) /\ s.weight \in Nat

LEMMA ConstantSignals ==
    ASSUME NEW m
    PROVE  /\ \A n \in Blocking : Proper(ForceBlock(n), m)
           /\ Proper(Signal("high_risk_without_cost_estimate", 8), m)
           /\ Proper(Signal("unclassified_currency_uses_default_thresholds", 5), m)
           /\ Proper(Signal("no_state_fingerprint_for_non_reversible_effect", 10), m)
           /\ Proper(Signal("no_preconditions_declared_for_high_risk_effect", 10), m)
           /\ Proper(Signal("manifest_lifetime_exceeds_recommended_window", 8), m)
           /\ Proper(Signal("delegation_depth_at_ceiling", 20), m)
           /\ Proper(Signal("novel_effect_pattern_no_history", 6), m)
           /\ Proper(Signal("elevated_historical_failure_rate", 25), m)
           /\ Proper(Signal("provider_idempotency_unknown", 8), m)
           /\ Proper(Signal("non_idempotent_provider_high_risk", 12), m)
           /\ Proper(Signal("compensation_feasibility_unknown", 8), m)
           /\ Proper(Signal("irreversible_and_not_compensatable", 15), m)
           /\ Proper(Signal("cross_tenant_effect", 20), m)
           /\ Proper(Signal("unusual_parameter_change_detected", 12), m)
  <1>1. \A n \in Blocking : Proper(ForceBlock(n), m)
    <2>1. \A n \in Blocking : Weights(m)[n] = 0
      BY DEF Weights, Blocking
    <2> QED BY <2>1, FixedBlock DEF Proper
  <1>2. ASSUME NEW n, NEW w \in Nat, n \in DOMAIN Weights(m), n \notin Blocking, Weights(m)[n] = w
        PROVE  Proper(Signal(n, w), m)
    BY <1>2, FixedSignal DEF Proper
  <1>3. Proper(Signal("high_risk_without_cost_estimate", 8), m)
    BY <1>2 DEF Weights, Blocking
  <1>4. Proper(Signal("unclassified_currency_uses_default_thresholds", 5), m)
    BY <1>2 DEF Weights, Blocking
  <1>5. Proper(Signal("no_state_fingerprint_for_non_reversible_effect", 10), m)
    BY <1>2 DEF Weights, Blocking
  <1>6. Proper(Signal("no_preconditions_declared_for_high_risk_effect", 10), m)
    BY <1>2 DEF Weights, Blocking
  <1>7. Proper(Signal("manifest_lifetime_exceeds_recommended_window", 8), m)
    BY <1>2 DEF Weights, Blocking
  <1>8. Proper(Signal("delegation_depth_at_ceiling", 20), m)
    BY <1>2 DEF Weights, Blocking
  <1>9. Proper(Signal("novel_effect_pattern_no_history", 6), m)
    BY <1>2 DEF Weights, Blocking
  <1>10. Proper(Signal("elevated_historical_failure_rate", 25), m)
    BY <1>2 DEF Weights, Blocking
  <1>11. Proper(Signal("provider_idempotency_unknown", 8), m)
    BY <1>2 DEF Weights, Blocking
  <1>12. Proper(Signal("non_idempotent_provider_high_risk", 12), m)
    BY <1>2 DEF Weights, Blocking
  <1>13. Proper(Signal("compensation_feasibility_unknown", 8), m)
    BY <1>2 DEF Weights, Blocking
  <1>14. Proper(Signal("irreversible_and_not_compensatable", 15), m)
    BY <1>2 DEF Weights, Blocking
  <1>15. Proper(Signal("cross_tenant_effect", 20), m)
    BY <1>2 DEF Weights, Blocking
  <1>16. Proper(Signal("unusual_parameter_change_detected", 12), m)
    BY <1>2 DEF Weights, Blocking
  <1> QED BY <1>1, <1>3, <1>4, <1>5, <1>6, <1>7, <1>8, <1>9, <1>10, <1>11, <1>12, <1>13, <1>14, <1>15, <1>16

LEMMA TierGrows ==
    ASSUME NEW a \in Nat, NEW b \in Nat, a <= b
    PROVE  LET t == DefaultPolicy.default IN
           Tier(a, t) <= Tier(b, t) /\ Tier(a, t) \in Nat /\ Tier(b, t) \in Nat
  <1>1. DefaultPolicy.default = <<1000000, 10000000, 100000000>>
    BY DEF DefaultPolicy
  <1> DEFINE t == DefaultPolicy.default
  <1>2. t[1] = 1000000 /\ t[2] = 10000000 /\ t[3] = 100000000
    BY <1>1
  <1> HIDE DEF t
  <1>3. Tier(a, t) <= Tier(b, t) /\ Tier(a, t) \in Nat /\ Tier(b, t) \in Nat
    BY <1>2 DEF Tier
  <1> QED BY <1>3 DEF t

LEMMA PointsAreNumbers ==
    ASSUME NEW p, Assessable(p)
    PROVE  LET m == p.manifest IN
           /\ DefaultPolicy.riskPoints[m.risk] \in Nat
           /\ DefaultPolicy.blastPoints[m.blast] \in Nat
           /\ DefaultPolicy.reversibility[m.reversibility] \in Nat
  <1>1. \A r \in DOMAIN DefaultPolicy.riskPoints : DefaultPolicy.riskPoints[r] \in Nat
    BY DEF DefaultPolicy
  <1>2. \A r \in DOMAIN DefaultPolicy.blastPoints : DefaultPolicy.blastPoints[r] \in Nat
    BY DEF DefaultPolicy
  <1>3. \A r \in DOMAIN DefaultPolicy.reversibility : DefaultPolicy.reversibility[r] \in Nat
    BY DEF DefaultPolicy
  <1> QED BY <1>1, <1>2, <1>3, Zenon DEF Assessable

\* The signals that depend on what the manifest declares.
LEMMA DeclaredSignals ==
    ASSUME NEW p, Assessable(p)
    PROVE  LET m == p.manifest IN
           /\ Proper(Signal("declared_risk_classification", DefaultPolicy.riskPoints[m.risk]), m)
           /\ Proper(Signal("declared_blast_radius", DefaultPolicy.blastPoints[m.blast]), m)
           /\ Proper(Signal("declared_reversibility", DefaultPolicy.reversibility[m.reversibility]), m)
           /\ Proper(Signal("sensitive_target_pattern_matched", 15 * m.matches), m)
           /\ \A c \in m.cost : Proper(Signal("monetary_exposure_tier", Tier(c.units, DefaultPolicy.default)), m)
  <1> DEFINE m == p.manifest
  <1>1. ASSUME NEW n, NEW w \in Nat, n \in DOMAIN Weights(m), n \notin Blocking, Weights(m)[n] = w
        PROVE  Proper(Signal(n, w), m)
    BY <1>1, FixedSignal DEF Proper
  <1>2. /\ DefaultPolicy.riskPoints[m.risk] \in Nat /\ DefaultPolicy.blastPoints[m.blast] \in Nat
        /\ DefaultPolicy.reversibility[m.reversibility] \in Nat
    BY PointsAreNumbers
  <1>3. 15 * m.matches \in Nat
    <2>1. m.matches \in Nat
      BY DEF Assessable
    <2> HIDE DEF m
    <2> QED BY <2>1
  <1>4. ASSUME NEW c \in m.cost
        PROVE  /\ Tier(c.units, DefaultPolicy.default) \in Nat
               /\ Weights(m).monetary_exposure_tier = Tier(c.units, DefaultPolicy.default)
    <2>1. c.units \in Nat /\ AtMostOne(m.cost)
      BY DEF Assessable
    <2>2. (CHOOSE x \in m.cost : TRUE) = c
      BY <2>1 DEF AtMostOne
    <2>3. c.units <= c.units
      BY <2>1
    <2>4. Tier(c.units, DefaultPolicy.default) \in Nat
      BY <2>1, <2>3, TierGrows
    <2> HIDE DEF m
    <2> QED BY <2>2, <2>4 DEF Weights
  <1> HIDE DEF m
  <1>5. Proper(Signal("declared_risk_classification", DefaultPolicy.riskPoints[m.risk]), m)
    BY <1>1, <1>2 DEF Weights, Blocking
  <1>6. Proper(Signal("declared_blast_radius", DefaultPolicy.blastPoints[m.blast]), m)
    BY <1>1, <1>2 DEF Weights, Blocking
  <1>7. Proper(Signal("declared_reversibility", DefaultPolicy.reversibility[m.reversibility]), m)
    BY <1>1, <1>2 DEF Weights, Blocking
  <1>8. Proper(Signal("sensitive_target_pattern_matched", 15 * m.matches), m)
    BY <1>1, <1>3 DEF Weights, Blocking
  <1>9. ASSUME NEW c \in m.cost
        PROVE  Proper(Signal("monetary_exposure_tier", Tier(c.units, DefaultPolicy.default)), m)
    <2>1. "monetary_exposure_tier" \in DOMAIN Weights(m) /\ "monetary_exposure_tier" \notin Blocking
      BY DEF Weights, Blocking
    <2> QED BY <1>1, <1>4, <2>1
  <1> QED BY <1>5, <1>6, <1>7, <1>8, <1>9 DEF m

\* What a cost estimate raises: no currency has thresholds of its own.
LEMMA MonetarySignals ==
    ASSUME NEW m, AtMostOne(m.cost)
    PROVE  /\ m.cost = {} => ScoreMonetaryExposure(m, DefaultPolicy)
                               = When(HighRisk(m), Signal("high_risk_without_cost_estimate", 8))
           /\ \A c \in m.cost : ScoreMonetaryExposure(m, DefaultPolicy)
                 = {Signal("monetary_exposure_tier", Tier(c.units, DefaultPolicy.default)),
                    Signal("unclassified_currency_uses_default_thresholds", 5)}
  <1>1. DefaultPolicy.thresholds = {}
    BY DEF DefaultPolicy
  <1>2. m.cost = {} => ScoreMonetaryExposure(m, DefaultPolicy)
                          = When(HighRisk(m), Signal("high_risk_without_cost_estimate", 8))
    BY Zenon DEF ScoreMonetaryExposure, Nothing
  <1>3. ASSUME NEW c \in m.cost
        PROVE  ScoreMonetaryExposure(m, DefaultPolicy)
                 = {Signal("monetary_exposure_tier", Tier(c.units, DefaultPolicy.default)),
                    Signal("unclassified_currency_uses_default_thresholds", 5)}
    <2> DEFINE P == DefaultPolicy
    <2>1. m.cost = {c}
      BY <1>3 DEF AtMostOne
    <2> DEFINE known == {t \in P.thresholds : t.currency = c.currency}
               tiers == IF known = {} THEN P.default
                        ELSE LET t == CHOOSE t \in known : TRUE IN <<t.low, t.mid, t.high>>
    <2>2. known = {} /\ tiers = P.default
      BY <1>1
    <2>3. ScoreMonetaryExposure(m, P) = {Signal("monetary_exposure_tier", Tier(c.units, tiers))}
             \cup When(known = {}, Signal("unclassified_currency_uses_default_thresholds", 5))
      <3> HIDE DEF P
      <3> QED BY <2>1 DEF ScoreMonetaryExposure, Nothing
    <2> HIDE DEF known, tiers
    <2> QED BY <2>2, <2>3 DEF When
  <1> QED BY <1>2, <1>3

LEMMA ListedOne ==
    ASSUME NEW m, NEW s, Proper(s, m)
    PROVE  Listed({s}, m)
  BY FS_Singleton DEF Listed, Proper

LEMMA SignalsListed ==
    ASSUME NEW p, Assessable(p)
    PROVE  Listed(Signals(p.manifest, p.facts, DefaultPolicy), p.manifest)
  <1> DEFINE m == p.manifest
             f == p.facts
             P == DefaultPolicy
  <1>1. ASSUME NEW condition, NEW s, Proper(s, m) PROVE Listed(When(condition, s), m)
    BY <1>1, ListedWhen DEF Proper
  <1>2. AtMostOne(m.cost)
    BY DEF Assessable
  <1>3. Listed(ScoreDeclaredClassification(m, P), m)
    <2> DEFINE a == Signal("declared_risk_classification", P.riskPoints[m.risk])
               b == Signal("declared_blast_radius", P.blastPoints[m.blast])
               c == Signal("declared_reversibility", P.reversibility[m.reversibility])
    <2>1. Proper(a, m) /\ Proper(b, m) /\ Proper(c, m)
      BY DeclaredSignals
    <2>2. ScoreDeclaredClassification(m, P) = ({a} \cup {b}) \cup {c}
      BY DEF ScoreDeclaredClassification
    <2> HIDE DEF a, b, c, m, P
    <2>3. Listed({a}, m) /\ Listed({b}, m) /\ Listed({c}, m)
      BY <2>1, ListedOne
    <2>4. Listed({a} \cup {b}, m)
      BY <2>3, ListedUnion
    <2>5. Listed(({a} \cup {b}) \cup {c}, m)
      BY <2>3, <2>4, ListedUnion
    <2> QED BY <2>2, <2>5
  <1>4. Listed(ScoreMonetaryExposure(m, P), m)
    <2>1. CASE m.cost = {}
      <3>1. ScoreMonetaryExposure(m, P) = When(HighRisk(m), Signal("high_risk_without_cost_estimate", 8))
        BY <1>2, <2>1, MonetarySignals
      <3>2. Proper(Signal("high_risk_without_cost_estimate", 8), m)
        BY ConstantSignals
      <3> HIDE DEF m, P
      <3> QED BY <1>1, <3>1, <3>2
    <2>2. ASSUME NEW c \in m.cost PROVE Listed(ScoreMonetaryExposure(m, P), m)
      <3> DEFINE a == Signal("monetary_exposure_tier", Tier(c.units, P.default))
                 b == Signal("unclassified_currency_uses_default_thresholds", 5)
      <3>1. Proper(a, m) /\ Proper(b, m)
        BY DeclaredSignals, ConstantSignals
      <3>2. ScoreMonetaryExposure(m, P) = {a} \cup {b}
        BY <1>2, MonetarySignals
      <3> HIDE DEF a, b, m
      <3> QED BY <3>1, <3>2, ListedOne, ListedUnion
    <2> QED BY <2>1, <2>2
  <1>5. Listed(ScoreStateAndPreconditions(m), m)
    BY <1>1, ListedUnion, ConstantSignals DEF ScoreStateAndPreconditions
  <1>6. Listed(ScoreManifestLifetime(m, P), m)
    BY <1>1, ConstantSignals DEF ScoreManifestLifetime
  <1>7. Listed(ScoreTargetSensitivity(m, P), m)
    <2>1. Proper(Signal("sensitive_target_pattern_matched", 15 * m.matches), m)
      BY DeclaredSignals
    <2>2. Proper(ForceBlock("sensitive_target_pattern_malformed"), m)
      BY ConstantSignals DEF Blocking
    <2> HIDE DEF m
    <2> QED BY <1>1, <2>1, <2>2, ListedUnion DEF ScoreTargetSensitivity
  <1>8. Listed(ScoreRestrictedEffectType(m), m)
    <2>1. Proper(ForceBlock("effect_type_restricted_by_policy"), m)
      BY ConstantSignals DEF Blocking
    <2> QED BY <1>1, <2>1 DEF ScoreRestrictedEffectType
  <1>9. Listed(ScoreDelegationDepth(f, P), m)
    <2>1. Proper(ForceBlock("delegation_depth_exceeds_policy_ceiling"), m)
      BY ConstantSignals DEF Blocking
    <2> QED BY <1>1, <2>1, ListedUnion, ConstantSignals DEF ScoreDelegationDepth
  <1>10. Listed(ScoreHistoricalRecurrence(f, P), m)
    BY <1>1, ListedUnion, ConstantSignals DEF ScoreHistoricalRecurrence
  <1>11. Listed(ScoreProviderCapabilities(m, f), m)
    <2>1. Proper(ForceBlock("compensation_feasibility_contradicts_manifest_reversibility"), m)
      BY ConstantSignals DEF Blocking
    <2> HIDE DEF m, f
    <2> QED BY <1>1, <2>1, ListedUnion, ConstantSignals DEF ScoreProviderCapabilities
  <1>12. Listed(ScoreCallerFlags(f), m)
    <2>1. Proper(ForceBlock("external_policy_violation"), m)
      BY ConstantSignals DEF Blocking
    <2> HIDE DEF m, f
    <2> QED BY <1>1, <2>1, ListedUnion, ConstantSignals DEF ScoreCallerFlags
  <1> HIDE DEF m, f, P
  <1>13. Listed(Signals(m, f, P), m)
    BY <1>3, <1>4, <1>5, <1>6, <1>7, <1>8, <1>9, <1>10, <1>11, <1>12, ListedUnion DEF Signals
  <1> QED BY <1>13 DEF m, f, P

LEMMA ListedApart ==
    ASSUME NEW m, NEW A, Listed(A, m)
    PROVE  Weighed(A) /\ NamedApart(A)
  <1>1. \A s, t \in A : s = Entry(s.name, m) /\ t = Entry(t.name, m)
    BY DEF Listed
  <1>2. NamedApart(A)
    BY <1>1, Zenon DEF NamedApart
  <1> QED BY <1>2 DEF Weighed, Listed

\* Everything that raises a signal under m and f raises it under n and g.
GraverManifest(m, n) ==
    /\ n.blast = m.blast /\ n.reversibility = m.reversibility /\ n.fingerprint = m.fingerprint
    /\ n.preconditions = m.preconditions /\ n.ttl = m.ttl /\ n.matches = m.matches
    /\ n.restricted = m.restricted
    /\ DefaultPolicy.riskPoints[m.risk] <= DefaultPolicy.riskPoints[n.risk]
    /\ HighRisk(m) => HighRisk(n)
    /\ m.risk # "low" => n.risk # "low"
    /\ m.cost = {} <=> n.cost = {}
    /\ \A c \in m.cost, d \in n.cost : c.units <= d.units

GraverFacts(f, g) ==
    /\ f.crossTenant => g.crossTenant
    /\ f.unusual => g.unusual
    /\ f.violations => g.violations
    /\ f.depth = g.depth \/ f.depth < DefaultPolicy.maxDepth
    /\ g.recurrence = f.recurrence /\ f.failures <= g.failures
    /\ f.idempotent \in {g.idempotent, {TRUE}} /\ f.feasible \in {g.feasible, {TRUE}}

Harsher(m, f, n, g) == GraverManifest(m, n) /\ GraverFacts(f, g)

LEMMA DominatesUnion ==
    ASSUME NEW A, NEW B, NEW C, NEW D, Dominates(B, A), Dominates(D, C)
    PROVE  Dominates(B \cup D, A \cup C)
  BY DEF Dominates

LEMMA DominatesWhen ==
    ASSUME NEW a, NEW b, a => b, NEW m, NEW s, Proper(s, m)
    PROVE  Dominates(When(b, s), When(a, s))
  <1>1. s.weight <= s.weight
    BY DEF Proper
  <1> QED BY <1>1 DEF Dominates, When

\* Two signals of the same name.
LEMMA DominatesSignal ==
    ASSUME NEW n, NEW v, NEW w, v <= w
    PROVE  Dominates({Signal(n, w)}, {Signal(n, v)})
  BY DEF Dominates, Signal

LEMMA HarsherDominates ==
    ASSUME NEW p, NEW q, Assessable(p), Assessable(q), Harsher(p.manifest, p.facts, q.manifest, q.facts)
    PROVE  Dominates(Signals(q.manifest, q.facts, DefaultPolicy), Signals(p.manifest, p.facts, DefaultPolicy))
  <1> DEFINE P == DefaultPolicy
  <1>1. PICK m, f, n, g : m = p.manifest /\ f = p.facts /\ n = q.manifest /\ g = q.facts
    OBVIOUS
  <1>2. Harsher(m, f, n, g)
    BY <1>1
  <1>3. /\ AtMostOne(m.cost) /\ AtMostOne(n.cost)
        /\ \A c \in m.cost \cup n.cost : c.units \in Nat
        /\ {m.matches, f.depth, f.recurrence, f.failures, g.depth, g.recurrence, g.failures} \subseteq Nat
    BY <1>1 DEF Assessable
  <1>4. ASSUME NEW a, NEW b, a => b, NEW s, Proper(s, m) PROVE Dominates(When(b, s), When(a, s))
    BY <1>4, DominatesWhen
  <1>5. Dominates(ScoreDeclaredClassification(n, P), ScoreDeclaredClassification(m, P))
    <2>1. /\ P.riskPoints[m.risk] <= P.riskPoints[n.risk]
          /\ P.blastPoints[m.blast] <= P.blastPoints[n.blast]
          /\ P.reversibility[m.reversibility] <= P.reversibility[n.reversibility]
      BY <1>1, <1>2, PointsAreNumbers DEF Harsher, GraverManifest, GraverFacts
    <2> HIDE DEF P
    <2> DEFINE T(x) == {Signal("declared_risk_classification", P.riskPoints[x.risk])}
                       \cup ({Signal("declared_blast_radius", P.blastPoints[x.blast])}
                       \cup {Signal("declared_reversibility", P.reversibility[x.reversibility])})
    <2>2. ScoreDeclaredClassification(n, P) = T(n) /\ ScoreDeclaredClassification(m, P) = T(m)
      BY DEF ScoreDeclaredClassification
    <2>3. Dominates(T(n), T(m))
      BY <2>1, DominatesSignal, DominatesUnion
    <2> QED BY <2>2, <2>3
  <1>6. Dominates(ScoreMonetaryExposure(n, P), ScoreMonetaryExposure(m, P))
    <2>1. CASE m.cost = {}
      <3>1. n.cost = {} /\ (HighRisk(m) => HighRisk(n))
        BY <1>2, <2>1 DEF Harsher, GraverManifest, GraverFacts
      <3>2. Proper(Signal("high_risk_without_cost_estimate", 8), m)
        BY ConstantSignals
      <3>3. /\ ScoreMonetaryExposure(m, P) = When(HighRisk(m), Signal("high_risk_without_cost_estimate", 8))
            /\ ScoreMonetaryExposure(n, P) = When(HighRisk(n), Signal("high_risk_without_cost_estimate", 8))
        BY <1>3, <2>1, <3>1, MonetarySignals
      <3> HIDE DEF P
      <3> QED BY <1>4, <3>1, <3>2, <3>3
    <2>2. CASE m.cost # {}
      <3>1. PICK c \in m.cost, d \in n.cost : c.units <= d.units
        BY <1>2, <2>2 DEF Harsher, GraverManifest, GraverFacts
      <3>2. c.units \in Nat /\ d.units \in Nat
        BY <1>3
      <3>3. Tier(c.units, P.default) <= Tier(d.units, P.default)
        BY <3>1, <3>2, TierGrows
      <3> DEFINE K == {Signal("unclassified_currency_uses_default_thresholds", 5)}
                 T(x) == {Signal("monetary_exposure_tier", Tier(x.units, P.default))} \cup K
      <3>4. ScoreMonetaryExposure(m, P) = T(c) /\ ScoreMonetaryExposure(n, P) = T(d)
        BY <1>3, MonetarySignals
      <3>5. Dominates(K, K)
        BY DominatesSignal
      <3>6. Dominates(T(d), T(c))
        <4> HIDE DEF P, K
        <4> QED BY <3>3, <3>5, DominatesSignal, DominatesUnion
      <3> HIDE DEF P, T
      <3> QED BY <3>4, <3>6
    <2> QED BY <2>1, <2>2
  <1>7. Dominates(ScoreStateAndPreconditions(n), ScoreStateAndPreconditions(m))
    BY <1>2, <1>4, DominatesUnion, ConstantSignals DEF ScoreStateAndPreconditions, Harsher, GraverManifest, GraverFacts
  <1>8. Dominates(ScoreManifestLifetime(n, P), ScoreManifestLifetime(m, P))
    <2> HIDE DEF P
    <2> QED BY <1>2, <1>4, ConstantSignals DEF ScoreManifestLifetime, Harsher, GraverManifest, GraverFacts
  <1>9. Dominates(ScoreTargetSensitivity(n, P), ScoreTargetSensitivity(m, P))
    <2>1. Proper(Signal("sensitive_target_pattern_matched", 15 * m.matches), m)
      BY <1>1, DeclaredSignals
    <2>2. Proper(ForceBlock("sensitive_target_pattern_malformed"), m)
      BY ConstantSignals DEF Blocking
    <2>3. n.matches = m.matches
      BY <1>2 DEF Harsher, GraverManifest, GraverFacts
    <2> HIDE DEF P
    <2> QED BY <1>4, <2>1, <2>2, <2>3, DominatesUnion DEF ScoreTargetSensitivity
  <1>10. Dominates(ScoreRestrictedEffectType(n), ScoreRestrictedEffectType(m))
    <2>1. Proper(ForceBlock("effect_type_restricted_by_policy"), m)
      BY ConstantSignals DEF Blocking
    <2>2. n.restricted = m.restricted
      BY <1>2 DEF Harsher, GraverManifest, GraverFacts
    <2> QED BY <1>4, <2>1, <2>2 DEF ScoreRestrictedEffectType
  <1>11. Dominates(ScoreDelegationDepth(g, P), ScoreDelegationDepth(f, P))
    <2>1. Proper(ForceBlock("delegation_depth_exceeds_policy_ceiling"), m)
      BY ConstantSignals DEF Blocking
    <2>2. P.maxDepth = 8 /\ f.depth \in Nat
      BY <1>3 DEF DefaultPolicy
    <2>3. f.depth = g.depth \/ f.depth < P.maxDepth
      BY <1>2 DEF Harsher, GraverManifest, GraverFacts
    <2> HIDE DEF P
    <2>4. /\ f.depth > P.maxDepth => g.depth > P.maxDepth
          /\ f.depth = P.maxDepth => g.depth = P.maxDepth
      BY <2>2, <2>3
    <2> QED BY <1>4, <2>1, <2>4, DominatesUnion, ConstantSignals DEF ScoreDelegationDepth
  <1>12. Dominates(ScoreHistoricalRecurrence(g, P), ScoreHistoricalRecurrence(f, P))
    <2>1. P.maxFailure = 20
      BY DEF DefaultPolicy
    <2>2. g.recurrence = f.recurrence /\ f.failures <= g.failures
      BY <1>2 DEF Harsher, GraverManifest, GraverFacts
    <2> HIDE DEF P
    <2>3. /\ f.recurrence = 0 => g.recurrence = 0
          /\ f.recurrence > 0 /\ 100 * f.failures > P.maxFailure * f.recurrence
             => g.recurrence > 0 /\ 100 * g.failures > P.maxFailure * g.recurrence
      BY <1>3, <2>1, <2>2
    <2> QED BY <1>4, <2>3, DominatesUnion, ConstantSignals DEF ScoreHistoricalRecurrence
  <1>13. Dominates(ScoreProviderCapabilities(n, g), ScoreProviderCapabilities(m, f))
    <2>1. Proper(ForceBlock("compensation_feasibility_contradicts_manifest_reversibility"), m)
      BY ConstantSignals DEF Blocking
    <2>2. {TRUE} # {} /\ {TRUE} # {FALSE}
      <3>1. TRUE \in {TRUE} /\ TRUE \notin {FALSE}
        BY Zenon
      <3> QED BY <3>1, Zenon
    <2>3. /\ f.idempotent = Nothing => g.idempotent = Nothing
          /\ f.idempotent = Just(FALSE) => g.idempotent = Just(FALSE)
          /\ f.feasible = Nothing => g.feasible = Nothing
          /\ f.feasible = Just(FALSE) => g.feasible = Just(FALSE)
      BY <1>2, <2>2, Zenon DEF Harsher, GraverManifest, GraverFacts, Just, Nothing
    <2>4. /\ HighRisk(m) => HighRisk(n)
          /\ m.risk # "low" => n.risk # "low"
          /\ n.reversibility = m.reversibility
      BY <1>2 DEF Harsher, GraverManifest, GraverFacts
    <2> DEFINE A(x, y) == When(y.idempotent = Nothing, Signal("provider_idempotency_unknown", 8))
               B(x, y) == When(y.idempotent = Just(FALSE) /\ HighRisk(x),
                               Signal("non_idempotent_provider_high_risk", 12))
               C(x, y) == When(y.feasible = Nothing /\ x.reversibility # "reversible",
                               Signal("compensation_feasibility_unknown", 8))
               D(x, y) == When(y.feasible = Just(FALSE) /\ x.reversibility = "compensatable",
                               ForceBlock("compensation_feasibility_contradicts_manifest_reversibility"))
               E(x, y) == When(y.feasible = Just(FALSE) /\ x.reversibility = "irreversible" /\ x.risk # "low",
                               Signal("irreversible_and_not_compensatable", 15))
    <2>5. Dominates(A(n, g), A(m, f)) /\ Dominates(C(n, g), C(m, f))
      BY <1>4, <2>3, <2>4, ConstantSignals
    <2>6. Dominates(B(n, g), B(m, f)) /\ Dominates(E(n, g), E(m, f))
      BY <1>4, <2>3, <2>4, ConstantSignals
    <2>7. Dominates(D(n, g), D(m, f))
      BY <1>4, <2>1, <2>3, <2>4
    <2>8. \A x, y : ScoreProviderCapabilities(x, y) = A(x, y) \cup B(x, y) \cup C(x, y) \cup D(x, y) \cup E(x, y)
      BY Zenon DEF ScoreProviderCapabilities
    <2> HIDE DEF A, B, C, D, E
    <2> QED BY <2>5, <2>6, <2>7, <2>8, DominatesUnion
  <1>14. Dominates(ScoreCallerFlags(g), ScoreCallerFlags(f))
    <2>1. Proper(ForceBlock("external_policy_violation"), m)
      BY ConstantSignals DEF Blocking
    <2> QED BY <1>2, <1>4, <2>1, DominatesUnion, ConstantSignals DEF ScoreCallerFlags, Harsher, GraverManifest, GraverFacts
  <1>15. Dominates(Signals(n, g, P), Signals(m, f, P))
    <2> HIDE DEF P
    <2> QED BY <1>5, <1>6, <1>7, <1>8, <1>9, <1>10, <1>11, <1>12, <1>13, <1>14, DominatesUnion DEF Signals
  <1> QED BY <1>1, <1>15

LEMMA LevelGrows ==
    ASSUME NEW a \in Nat, NEW b \in Nat, a <= b
    PROVE  LET level(score) == RiskLevel(score, DefaultPolicy) IN
           level(a) \in 1..4 /\ level(b) \in 1..4 /\ level(a) <= level(b)
  <1> DEFINE L == DefaultPolicy.levels
             Passed(score) == {i \in 1..3 : score >= L[i]}
  <1>1. L[1] = 25 /\ L[2] = 50 /\ L[3] = 75
    BY DEF DefaultPolicy
  <1>2. RiskLevel(a, DefaultPolicy) = 1 + Cardinality(Passed(a)) /\ RiskLevel(b, DefaultPolicy) = 1 + Cardinality(Passed(b))
    BY Zenon DEF RiskLevel
  <1> HIDE DEF L
  <1>3. Passed(a) \subseteq Passed(b) /\ Passed(b) \subseteq 1..3
    <2>1. \A i \in 1..3 : L[i] \in Int
      BY <1>1
    <2> QED BY <2>1
  <1> HIDE DEF Passed
  <1>4. IsFiniteSet(1..3) /\ Cardinality(1..3) = 3
    <2>1. PICK i \in Int, j \in Int : i = 1 /\ j = 3
      OBVIOUS
    <2>2. IsFiniteSet(i..j) /\ Cardinality(i..j) = IF i > j THEN 0 ELSE j - i + 1
      BY FS_Interval
    <2> QED BY <2>1, <2>2
  <1>5. IsFiniteSet(Passed(b)) /\ Cardinality(Passed(b)) <= 3
    BY <1>3, <1>4, FS_Subset
  <1>6. IsFiniteSet(Passed(a)) /\ Cardinality(Passed(a)) <= Cardinality(Passed(b))
    BY <1>3, <1>5, FS_Subset
  <1>7. Cardinality(Passed(a)) \in Nat /\ Cardinality(Passed(b)) \in Nat
    BY <1>5, <1>6, FS_CardinalityType
  <1>8. /\ 1 + Cardinality(Passed(a)) \in 1..4 /\ 1 + Cardinality(Passed(b)) \in 1..4
        /\ 1 + Cardinality(Passed(a)) <= 1 + Cardinality(Passed(b))
    BY <1>5, <1>6, <1>7
  <1> QED BY <1>2, <1>8, Zenon

\* What has to be done at each level.
LEMMA LevelTables ==
    ASSUME NEW k \in 1..4, NEW l \in 1..4, k <= l
    PROVE  /\ DefaultPolicy.cooling[Risks[k]] <= DefaultPolicy.cooling[Risks[l]]
           /\ WitnessQuorum[k] <= WitnessQuorum[l]
           /\ <<1, 1, 2, 3>>[k] <= <<1, 1, 2, 3>>[l]
           /\ <<1, 1, 2, 3>>[k] <= 3
  <1> DEFINE P == DefaultPolicy.cooling
  <1>1. P.low = 0 /\ P.medium = 0 /\ P.high = 60 /\ P.critical = 300
    BY DEF DefaultPolicy
  <1>2. Risks[1] = "low" /\ Risks[2] = "medium" /\ Risks[3] = "high" /\ Risks[4] = "critical"
    BY DEF Risks
  <1> HIDE DEF P
  <1>3. P[Risks[1]] = 0 /\ P[Risks[2]] = 0 /\ P[Risks[3]] = 60 /\ P[Risks[4]] = 300
    BY <1>1, <1>2
  <1>4. \A i \in 1..4 : i = 1 \/ i = 2 \/ i = 3 \/ i = 4
    OBVIOUS
  <1>5. P[Risks[k]] <= P[Risks[l]]
    BY <1>3, <1>4
  <1>6. WitnessQuorum[k] <= WitnessQuorum[l] /\ <<1, 1, 2, 3>>[k] <= <<1, 1, 2, 3>>[l] /\ <<1, 1, 2, 3>>[k] <= 3
    BY <1>4 DEF WitnessQuorum
  <1> QED BY <1>5, <1>6 DEF P

Grave == {"cross_tenant_effect", "irreversible_and_not_compensatable"}

LEMMA ApprovalsGrow ==
    ASSUME NEW k \in 1..4, NEW l \in 1..4, k <= l, NEW A, NEW B, \A n : Raised(A, n) => Raised(B, n)
    PROVE  RequiredHumanApprovals(k, A, DefaultPolicy) <= RequiredHumanApprovals(l, B, DefaultPolicy)
  <1> DEFINE S == {n \in Grave : Raised(A, n)}
             T == {n \in Grave : Raised(B, n)}
             a == (k - 1) + Cardinality(S)
             b == (l - 1) + Cardinality(T)
  <1>1. IsFiniteSet(Grave)
    <2>1. Grave = {"cross_tenant_effect"} \cup {"irreversible_and_not_compensatable"}
      BY DEF Grave
    <2> QED BY <2>1, FS_Singleton, FS_Union
  <1>2. S \subseteq T /\ T \subseteq Grave
    OBVIOUS
  <1>3. DefaultPolicy.maxApprovals = 5
    BY DEF DefaultPolicy
  <1>4. /\ RequiredHumanApprovals(k, A, DefaultPolicy) = Min({5, a})
        /\ RequiredHumanApprovals(l, B, DefaultPolicy) = Min({5, b})
    BY <1>3, Zenon DEF RequiredHumanApprovals, Grave
  <1> HIDE DEF S, T
  <1>5. IsFiniteSet(T) /\ IsFiniteSet(S) /\ Cardinality(S) <= Cardinality(T)
    BY <1>1, <1>2, FS_Subset
  <1>6. Cardinality(S) \in Nat /\ Cardinality(T) \in Nat
    BY <1>5, FS_CardinalityType
  <1>7. a \in Int /\ b \in Int /\ a <= b
    BY <1>5, <1>6
  <1> HIDE DEF a, b
  <1>8. Min({5, a}) = (IF 5 <= a THEN 5 ELSE a) /\ Min({5, b}) = (IF 5 <= b THEN 5 ELSE b)
    BY <1>7, MinOfTwo
  <1>9. Min({5, a}) <= Min({5, b})
    BY <1>7, <1>8
  <1> QED BY <1>4, <1>9

LEMMA Positions ==
    /\ Position(Recommendations, "allow") = 1 /\ Position(Recommendations, "review") = 2
    /\ Position(Recommendations, "block") = 3
  <1>1. /\ DOMAIN Recommendations = 1..3
        /\ Recommendations[1] = "allow" /\ Recommendations[2] = "review" /\ Recommendations[3] = "block"
    BY DEF Recommendations
  <1>2. \A i \in 1..3 : i = 1 \/ i = 2 \/ i = 3
    OBVIOUS
  <1>3. 1 \in 1..3 /\ 2 \in 1..3 /\ 3 \in 1..3
    OBVIOUS
  <1> QED BY <1>1, <1>2, <1>3 DEF Position

\* The assessment x asks for at least what r asks for, or blocks.
NoSofter(r, x) ==
    /\ Position(Recommendations, x.recommendation) >= Position(Recommendations, r.recommendation)
    /\ \/ x.recommendation = "block"
       \/ /\ x.level >= r.level /\ x.approvals >= r.approvals /\ x.services >= r.services
          /\ x.cooling >= r.cooling /\ x.witnesses >= r.witnesses /\ x.strength >= r.strength

Assessed(p) == Assess(p.manifest, p.facts, DefaultPolicy)

LEMMA AssessmentUnfolds ==
    ASSUME NEW m, NEW f, NEW A, A = Signals(m, f, DefaultPolicy),
           NEW l, l = RiskLevel(Score(A), DefaultPolicy)
    PROVE  LET x == Assess(m, f, DefaultPolicy) IN
           /\ x.recommendation = Recommendation(A, DefaultPolicy) /\ x.level = l
           /\ x.approvals = RequiredHumanApprovals(l, A, DefaultPolicy)
           /\ x.services = RequiredServiceApprovals(A)
           /\ x.cooling = DefaultPolicy.cooling[Risks[l]]
           /\ x.witnesses = WitnessQuorum[l]
           /\ x.strength = VerificationStrength(m, f, l)
  <1>1. Assess(m, f, DefaultPolicy) =
          [recommendation |-> Recommendation(A, DefaultPolicy), level |-> l,
           approvals |-> RequiredHumanApprovals(l, A, DefaultPolicy),
           services |-> RequiredServiceApprovals(A), cooling |-> DefaultPolicy.cooling[Risks[l]],
           witnesses |-> WitnessQuorum[l], strength |-> VerificationStrength(m, f, l)]
    BY Zenon DEF Assess
  <1> QED BY <1>1

LEMMA RecommendationGrows ==
    ASSUME NEW A, NEW B, Score(A) \in Nat, Score(B) \in Nat, Score(A) <= Score(B),
           (\E s \in A : s.blocks) => \E s \in B : s.blocks
    PROVE  Position(Recommendations, Recommendation(B, DefaultPolicy))
             >= Position(Recommendations, Recommendation(A, DefaultPolicy))
  <1>1. DefaultPolicy.block = 85 /\ DefaultPolicy.review = 40
    BY DEF DefaultPolicy
  <1> QED BY <1>1, Positions DEF Recommendation

LEMMA HarsherIsNoSofter ==
    ASSUME NEW p, NEW q, Assessable(p), Assessable(q), Harsher(p.manifest, p.facts, q.manifest, q.facts)
    PROVE  NoSofter(Assessed(p), Assessed(q))
  <1>1. PICK m, f, n, g : m = p.manifest /\ f = p.facts /\ n = q.manifest /\ g = q.facts
    OBVIOUS
  <1> DEFINE P == DefaultPolicy
  <1>2. PICK A, B : A = Signals(m, f, P) /\ B = Signals(n, g, P)
    OBVIOUS
  <1>3. Dominates(B, A)
    BY <1>1, <1>2, HarsherDominates
  <1>4. Weighed(A) /\ NamedApart(A) /\ Weighed(B)
    BY <1>1, <1>2, SignalsListed, ListedApart
  <1>5. Score(A) <= Score(B) /\ Score(A) \in Nat /\ Score(B) \in Nat
    BY <1>3, <1>4, DominatedScoresLess
  <1>6. \A name : Raised(A, name) => Raised(B, name)
    BY <1>3 DEF Dominates, Raised
  <1>7. (\E s \in A : s.blocks) => \E s \in B : s.blocks
    BY <1>3 DEF Dominates
  <1>8. PICK k, l : k = RiskLevel(Score(A), P) /\ l = RiskLevel(Score(B), P)
    OBVIOUS
  <1>9. k \in 1..4 /\ l \in 1..4 /\ k <= l
    BY <1>5, <1>8, LevelGrows
  <1>10. PICK r, x : r = Assess(m, f, P) /\ x = Assess(n, g, P)
    OBVIOUS
  <1>11. /\ r.recommendation = Recommendation(A, P) /\ r.level = k
         /\ r.approvals = RequiredHumanApprovals(k, A, P) /\ r.services = RequiredServiceApprovals(A)
         /\ r.cooling = P.cooling[Risks[k]] /\ r.witnesses = WitnessQuorum[k]
         /\ r.strength = VerificationStrength(m, f, k)
    BY <1>2, <1>8, <1>10, AssessmentUnfolds
  <1>12. /\ x.recommendation = Recommendation(B, P) /\ x.level = l
         /\ x.approvals = RequiredHumanApprovals(l, B, P) /\ x.services = RequiredServiceApprovals(B)
         /\ x.cooling = P.cooling[Risks[l]] /\ x.witnesses = WitnessQuorum[l]
         /\ x.strength = VerificationStrength(n, g, l)
    BY <1>2, <1>8, <1>10, AssessmentUnfolds
  <1>13. Position(Recommendations, x.recommendation) >= Position(Recommendations, r.recommendation)
    BY <1>5, <1>7, <1>11, <1>12, RecommendationGrows
  <1>14. x.level >= r.level
    BY <1>9, <1>11, <1>12
  <1>15. x.approvals >= r.approvals
    BY <1>6, <1>9, <1>11, <1>12, ApprovalsGrow
  <1>16. x.services >= r.services
    BY <1>6, <1>11, <1>12 DEF RequiredServiceApprovals
  <1>17. x.cooling >= r.cooling /\ x.witnesses >= r.witnesses
    BY <1>9, <1>11, <1>12, LevelTables
  <1>18. x.strength >= r.strength
    <2>1. {TRUE} # {FALSE}
      <3>1. TRUE \in {TRUE} /\ TRUE \notin {FALSE}
        BY Zenon
      <3> QED BY <3>1, Zenon
    <2>2. f.idempotent = Just(FALSE) => g.idempotent = Just(FALSE)
      BY <1>1, <2>1, Zenon DEF Harsher, GraverManifest, GraverFacts, Just
    <2>3. n.reversibility = m.reversibility
      BY <1>1 DEF Harsher, GraverManifest, GraverFacts
    <2>4. <<1, 1, 2, 3>>[k] <= <<1, 1, 2, 3>>[l] /\ <<1, 1, 2, 3>>[k] <= 3
      BY <1>9, LevelTables
    <2>5. <<1, 1, 2, 3>>[k] \in Nat /\ <<1, 1, 2, 3>>[l] \in Nat
      BY <1>9
    <2> DEFINE T == <<1, 1, 2, 3>>
               a == f.idempotent = Just(FALSE) /\ m.reversibility = "irreversible"
               b == g.idempotent = Just(FALSE) /\ n.reversibility = "irreversible"
    <2>6. r.strength = (IF a THEN 3 ELSE T[k]) /\ x.strength = (IF b THEN 3 ELSE T[l])
      BY <1>11, <1>12, Zenon DEF VerificationStrength
    <2>7. a => b
      BY <2>2, <2>3
    <2> HIDE DEF a, b, T
    <2>8. (IF a THEN 3 ELSE T[k]) <= (IF b THEN 3 ELSE T[l])
      BY <2>4, <2>5, <2>7 DEF T
    <2> QED BY <2>6, <2>8
  <1>19. NoSofter(r, x)
    BY <1>13, <1>14, <1>15, <1>16, <1>17, <1>18 DEF NoSofter
  <1> QED BY <1>1, <1>10, <1>19 DEF Assessed

\* A delegation that is too deep blocks, whatever else is known.
LEMMA TooDeepBlocks ==
    ASSUME NEW p, NEW q, q.facts.depth > DefaultPolicy.maxDepth
    PROVE  NoSofter(Assessed(p), Assessed(q))
  <1> DEFINE P == DefaultPolicy
             A == Signals(p.manifest, p.facts, P)
             B == Signals(q.manifest, q.facts, P)
             s == ForceBlock("delegation_depth_exceeds_policy_ceiling")
  <1>1. s \in B /\ s.blocks
    <2>1. s \in ScoreDelegationDepth(q.facts, P) /\ s.blocks
      BY DEF ScoreDelegationDepth, When, ForceBlock
    <2> HIDE DEF s, P
    <2> QED BY <2>1 DEF Signals
  <1>2. Assessed(q).recommendation = Recommendation(B, P) /\ Assessed(p).recommendation = Recommendation(A, P)
    BY AssessmentUnfolds DEF Assessed
  <1>3. Recommendation(B, P) = "block" /\ Recommendation(A, P) \in {"allow", "review", "block"}
    <2> HIDE DEF A, B, P, s
    <2> QED BY <1>1, Zenon DEF Recommendation
  <1> HIDE DEF A, B, P, s
  <1>4. Position(Recommendations, Recommendation(A, P)) <= 3
    BY <1>3, Positions
  <1> QED BY <1>2, <1>3, <1>4, Positions DEF NoSofter

\* One fact or one field of the manifest is changed.
LEMMA OtherFact ==
    ASSUME NEW p, Assessable(p), NEW x \in FactNames, NEW v,
           NEW w, w = [p EXCEPT !.facts = [p.facts EXCEPT ![x] = v]]
    PROVE  /\ DOMAIN w = DOMAIN p /\ w.manifest = p.manifest
           /\ DOMAIN w.facts = DOMAIN p.facts /\ w.facts[x] = v
           /\ \A y \in FactNames : y # x => w.facts[y] = p.facts[y]
  BY DEF Assessable

LEMMA OtherField ==
    ASSUME NEW p, Assessable(p), NEW x \in {"risk", "cost"}, NEW v,
           NEW w, w = [p EXCEPT !.manifest = [p.manifest EXCEPT ![x] = v]]
    PROVE  /\ DOMAIN w = DOMAIN p /\ w.facts = p.facts
           /\ DOMAIN w.manifest = DOMAIN p.manifest /\ w.manifest[x] = v
           /\ \A y \in Classified : y # x => w.manifest[y] = p.manifest[y]
  BY DEF Assessable, Classified

\* What Harsher and Assessable ask of facts that share a manifest.
LEMMA HarsherFacts ==
    ASSUME NEW p, Assessable(p), NEW w, DOMAIN w = DOMAIN p, w.manifest = p.manifest,
           DOMAIN w.facts = DOMAIN p.facts, w.facts.depth \in Nat, w.facts.failures \in Nat,
           GraverFacts(p.facts, w.facts)
    PROVE  Assessable(w) /\ Harsher(p.manifest, p.facts, w.manifest, w.facts)
  <1>1. w.facts.recurrence = p.facts.recurrence
    BY DEF GraverFacts
  <1>2. Assessable(w)
    BY <1>1 DEF Assessable
  <1>3. DefaultPolicy.riskPoints[p.manifest.risk] \in Nat
    BY PointsAreNumbers
  <1>4. \A c, d \in p.manifest.cost : c.units <= d.units
    BY DEF Assessable, AtMostOne
  <1>5. GraverManifest(p.manifest, w.manifest)
    BY <1>3, <1>4 DEF GraverManifest
  <1> QED BY <1>2, <1>5 DEF Harsher

LEMMA GraverFlag ==
    ASSUME NEW p, Assessable(p), NEW flag \in {"crossTenant", "unusual", "violations"},
           NEW w, w = [p EXCEPT !.facts = [p.facts EXCEPT ![flag] = TRUE]]
    PROVE  Assessable(w) /\ Harsher(p.manifest, p.facts, w.manifest, w.facts)
  <1>1. flag \in FactNames
    BY DEF FactNames
  <1>2. /\ DOMAIN w = DOMAIN p /\ w.manifest = p.manifest
        /\ DOMAIN w.facts = DOMAIN p.facts /\ w.facts[flag] = TRUE
        /\ \A y \in FactNames : y # flag => w.facts[y] = p.facts[y]
    BY <1>1, OtherFact
  <1>3. PICK f, g : f = p.facts /\ g = w.facts
    OBVIOUS
  <1>4. /\ f.crossTenant => g.crossTenant
        /\ f.unusual => g.unusual
        /\ f.violations => g.violations
    <2>1. CASE flag = "crossTenant"
      BY <1>2, <1>3, <2>1
    <2>2. CASE flag = "unusual"
      BY <1>2, <1>3, <2>2
    <2>3. CASE flag = "violations"
      BY <1>2, <1>3, <2>3
    <2> QED BY <2>1, <2>2, <2>3
  <1>5. /\ g.depth = f.depth /\ g.failures = f.failures /\ g.recurrence = f.recurrence
        /\ g.idempotent = f.idempotent /\ g.feasible = f.feasible
    BY <1>2, <1>3 DEF FactNames
  <1>6. f.depth \in Nat /\ f.failures \in Nat /\ f.failures <= g.failures
    <2>1. f.depth \in Nat /\ f.failures \in Nat
      <3>1. {f.depth, f.failures} \subseteq Nat
        BY <1>3, Zenon DEF Assessable
      <3> QED BY <3>1
    <2> QED BY <1>5, <2>1
  <1>7. GraverFacts(f, g)
    BY <1>4, <1>5, <1>6, Zenon DEF GraverFacts
  <1> QED BY <1>2, <1>3, <1>5, <1>6, <1>7, HarsherFacts

LEMMA GraverCounts ==
    ASSUME NEW p, Assessable(p), NEW x \in {"depth", "failures"}, NEW v \in Int, p.facts[x] <= v,
           NEW w, w = [p EXCEPT !.facts = [p.facts EXCEPT ![x] = v]]
    PROVE  \/ Assessable(w) /\ Harsher(p.manifest, p.facts, w.manifest, w.facts)
           \/ w.facts.depth > DefaultPolicy.maxDepth
  <1>1. x \in FactNames
    BY DEF FactNames
  <1>2. /\ DOMAIN w = DOMAIN p /\ w.manifest = p.manifest
        /\ DOMAIN w.facts = DOMAIN p.facts /\ w.facts[x] = v
        /\ \A y \in FactNames : y # x => w.facts[y] = p.facts[y]
    BY <1>1 DEF Assessable
  <1>3. PICK f, g : f = p.facts /\ g = w.facts
    OBVIOUS
  <1>4. f.depth \in Nat /\ f.failures \in Nat /\ DefaultPolicy.maxDepth = 8
    BY <1>3 DEF Assessable, DefaultPolicy
  <1>5. /\ g.crossTenant = f.crossTenant /\ g.unusual = f.unusual /\ g.violations = f.violations
        /\ g.recurrence = f.recurrence /\ g.idempotent = f.idempotent /\ g.feasible = f.feasible
    BY <1>2, <1>3
  <1>6. /\ g.depth \in Nat /\ g.failures \in Nat /\ f.depth <= g.depth /\ f.failures <= g.failures
    <2>1. CASE x = "depth"
      <3>1. g.depth = v /\ g.failures = f.failures
        BY <1>2, <1>3, <2>1
      <3> QED BY <1>3, <1>4, <2>1, <3>1
    <2>2. CASE x = "failures"
      <3>1. g.failures = v /\ g.depth = f.depth
        BY <1>2, <1>3, <2>2
      <3> QED BY <1>3, <1>4, <2>2, <3>1
    <2> QED BY <2>1, <2>2
  <1>7. CASE g.depth > DefaultPolicy.maxDepth
    BY <1>3, <1>7
  <1>8. CASE ~ (g.depth > DefaultPolicy.maxDepth)
    <2>1. f.depth = g.depth \/ f.depth < DefaultPolicy.maxDepth
      BY <1>4, <1>6, <1>8
    <2>2. GraverFacts(f, g)
      BY <1>5, <1>6, <2>1, Zenon DEF GraverFacts
    <2> QED BY <1>2, <1>3, <1>6, <2>2, HarsherFacts
  <1> QED BY <1>7, <1>8

LEMMA GraverCapability ==
    ASSUME NEW p, Assessable(p), NEW x \in {"idempotent", "feasible"}, p.facts[x] = Just(TRUE), NEW v,
           NEW w, w = [p EXCEPT !.facts = [p.facts EXCEPT ![x] = v]]
    PROVE  Assessable(w) /\ Harsher(p.manifest, p.facts, w.manifest, w.facts)
  <1>1. x \in FactNames
    BY DEF FactNames
  <1>2. /\ DOMAIN w = DOMAIN p /\ w.manifest = p.manifest
        /\ DOMAIN w.facts = DOMAIN p.facts /\ w.facts[x] = v
        /\ \A y \in FactNames : y # x => w.facts[y] = p.facts[y]
    BY <1>1 DEF Assessable
  <1>3. PICK f, g : f = p.facts /\ g = w.facts
    OBVIOUS
  <1>4. f.depth \in Nat /\ f.failures \in Nat
    BY <1>3 DEF Assessable
  <1>5. /\ g.crossTenant = f.crossTenant /\ g.unusual = f.unusual /\ g.violations = f.violations
        /\ g.recurrence = f.recurrence /\ g.depth = f.depth /\ g.failures = f.failures
    BY <1>2, <1>3
  <1>6. f.failures <= g.failures
    BY <1>4, <1>5
  <1>7. PICK T : T = {TRUE}
    OBVIOUS
  <1>8. f[x] = T
    BY <1>3, <1>7, Zenon DEF Just
  <1>9. f.idempotent \in {g.idempotent, T} /\ f.feasible \in {g.feasible, T}
    <2>1. CASE x = "idempotent"
      BY <1>2, <1>3, <1>8, <2>1
    <2>2. CASE x = "feasible"
      BY <1>2, <1>3, <1>8, <2>2
    <2> QED BY <2>1, <2>2
  <1>10. GraverFacts(f, g)
    BY <1>5, <1>6, <1>7, <1>9, Zenon DEF GraverFacts
  <1> QED BY <1>2, <1>3, <1>4, <1>5, <1>10, HarsherFacts

LEMMA RiskTable ==
    ASSUME NEW i \in 1..4, NEW j \in 1..4, i <= j
    PROVE  /\ DefaultPolicy.riskPoints[Risks[i]] <= DefaultPolicy.riskPoints[Risks[j]]
           /\ Risks[i] \in {"high", "critical"} => Risks[j] \in {"high", "critical"}
           /\ Risks[i] # "low" => Risks[j] # "low"
           /\ Risks[j] \in DOMAIN DefaultPolicy.riskPoints
  <1> DEFINE P == DefaultPolicy.riskPoints
  <1>1. /\ P.low = 5 /\ P.medium = 20 /\ P.high = 45 /\ P.critical = 70
        /\ DOMAIN P = {"low", "medium", "high", "critical"}
    BY DEF DefaultPolicy
  <1>2. Risks[1] = "low" /\ Risks[2] = "medium" /\ Risks[3] = "high" /\ Risks[4] = "critical"
    BY DEF Risks
  <1> HIDE DEF P
  <1>3. P[Risks[1]] = 5 /\ P[Risks[2]] = 20 /\ P[Risks[3]] = 45 /\ P[Risks[4]] = 70
    BY <1>1, <1>2
  <1>4. (i = 1 \/ i = 2 \/ i = 3 \/ i = 4) /\ (j = 1 \/ j = 2 \/ j = 3 \/ j = 4)
    OBVIOUS
  <1>5. P[Risks[i]] <= P[Risks[j]]
    BY <1>3, <1>4
  <1>6. /\ Risks[i] \in {"high", "critical"} => Risks[j] \in {"high", "critical"}
        /\ Risks[i] # "low" => Risks[j] # "low"
        /\ Risks[j] \in DOMAIN P
    BY <1>1, <1>2, <1>4
  <1> QED BY <1>5, <1>6 DEF P

LEMMA RiskPosition ==
    ASSUME NEW p, Assessable(p)
    PROVE  Position(Risks, p.manifest.risk) \in 1..4 /\ Risks[Position(Risks, p.manifest.risk)] = p.manifest.risk
  <1>1. p.manifest.risk \in {"low", "medium", "high", "critical"}
    <2>1. DOMAIN DefaultPolicy.riskPoints = {"low", "medium", "high", "critical"}
      BY DEF DefaultPolicy
    <2> QED BY <2>1, Zenon DEF Assessable
  <1>2. DOMAIN Risks = 1..4 /\ \E i \in 1..4 : Risks[i] = p.manifest.risk
    <2>1. /\ DOMAIN Risks = 1..4 /\ Risks[1] = "low" /\ Risks[2] = "medium"
          /\ Risks[3] = "high" /\ Risks[4] = "critical"
      BY DEF Risks
    <2>2. 1 \in 1..4 /\ 2 \in 1..4 /\ 3 \in 1..4 /\ 4 \in 1..4
      OBVIOUS
    <2> QED BY <1>1, <2>1, <2>2
  <1> QED BY <1>2, Zenon DEF Position

LEMMA GraverRisk ==
    ASSUME NEW p, Assessable(p), NEW i \in Position(Risks, p.manifest.risk)..4,
           NEW w, w = [p EXCEPT !.manifest = [p.manifest EXCEPT !["risk"] = Risks[i]]]
    PROVE  Assessable(w) /\ Harsher(p.manifest, p.facts, w.manifest, w.facts)
  <1>1. /\ DOMAIN w = DOMAIN p /\ w.facts = p.facts
        /\ DOMAIN w.manifest = DOMAIN p.manifest /\ w.manifest.risk = Risks[i]
        /\ \A y \in Classified : y # "risk" => w.manifest[y] = p.manifest[y]
    <2>1. PICK x : x = "risk"
      OBVIOUS
    <2>2. w = [p EXCEPT !.manifest = [p.manifest EXCEPT ![x] = Risks[i]]]
      BY <2>1
    <2>3. /\ DOMAIN w = DOMAIN p /\ w.facts = p.facts
          /\ DOMAIN w.manifest = DOMAIN p.manifest /\ w.manifest[x] = Risks[i]
          /\ \A y \in Classified : y # x => w.manifest[y] = p.manifest[y]
      BY <2>1, <2>2, OtherField
    <2> QED BY <2>1, <2>3
  <1>2. PICK m, n, j : m = p.manifest /\ n = w.manifest /\ j = Position(Risks, m.risk)
    OBVIOUS
  <1>3. j \in 1..4 /\ Risks[j] = m.risk /\ i \in 1..4 /\ j <= i
    BY <1>2, RiskPosition
  <1>4. /\ DefaultPolicy.riskPoints[m.risk] <= DefaultPolicy.riskPoints[n.risk]
        /\ m.risk \in {"high", "critical"} => n.risk \in {"high", "critical"}
        /\ m.risk # "low" => n.risk # "low"
        /\ n.risk \in DOMAIN DefaultPolicy.riskPoints
    BY <1>1, <1>2, <1>3, RiskTable
  <1>5. /\ n.blast = m.blast /\ n.reversibility = m.reversibility /\ n.fingerprint = m.fingerprint
        /\ n.preconditions = m.preconditions /\ n.ttl = m.ttl /\ n.matches = m.matches
        /\ n.restricted = m.restricted /\ n.cost = m.cost
    BY <1>1, <1>2
  <1>6. \A c, d \in m.cost : c.units <= d.units
    BY <1>2 DEF Assessable, AtMostOne
  <1>7. GraverManifest(m, n)
    BY <1>4, <1>5, <1>6 DEF GraverManifest, HighRisk
  <1>8. PICK f : f = p.facts /\ f = w.facts
    BY <1>1
  <1>9. f.failures <= f.failures
    BY <1>8 DEF Assessable
  <1>10. GraverFacts(f, f)
    BY <1>9, Zenon DEF GraverFacts
  <1>11. Assessable(w)
    BY <1>1, <1>2, <1>4, <1>5 DEF Assessable
  <1> QED BY <1>2, <1>7, <1>8, <1>10, <1>11 DEF Harsher

LEMMA TenTimes ==
    ASSUME NEW cost, AtMostOne(cost), \A c \in cost : "units" \in DOMAIN c /\ c.units \in Nat,
           NEW more, more = {[c EXCEPT !.units = 10 * @] : c \in cost}
    PROVE  /\ AtMostOne(more) /\ (cost = {} <=> more = {})
           /\ \A d \in more : "units" \in DOMAIN d /\ d.units \in Nat
           /\ \A c \in cost, d \in more : c.units <= d.units
  <1>1. AtMostOne(more) /\ (cost = {} <=> more = {})
    BY DEF AtMostOne
  <1>2. \A d \in more : \E c \in cost : d = [c EXCEPT !.units = 10 * @]
    OBVIOUS
  <1>3. \A d \in more : \E c \in cost : "units" \in DOMAIN d /\ d.units \in Nat /\ c.units <= d.units
    BY <1>2
  <1>4. \A c \in cost, d \in more : c.units <= d.units
    BY <1>3 DEF AtMostOne
  <1> QED BY <1>1, <1>3, <1>4

LEMMA GraverCost ==
    ASSUME NEW p, Assessable(p), NEW more, AtMostOne(more), p.manifest.cost = {} <=> more = {},
           \A d \in more : "units" \in DOMAIN d /\ d.units \in Nat,
           \A c \in p.manifest.cost, d \in more : c.units <= d.units,
           NEW w, w = [p EXCEPT !.manifest = [p.manifest EXCEPT !.cost = more]]
    PROVE  Assessable(w) /\ Harsher(p.manifest, p.facts, w.manifest, w.facts)
  <1>1. {"manifest", "facts"} \subseteq DOMAIN p /\ "cost" \in DOMAIN p.manifest
    BY DEF Assessable, Classified
  <1>2. /\ DOMAIN w = DOMAIN p /\ w.facts = p.facts
        /\ DOMAIN w.manifest = DOMAIN p.manifest /\ w.manifest.cost = more
        /\ \A y \in Classified : y # "cost" => w.manifest[y] = p.manifest[y]
    <2>1. PICK v : v = [p.manifest EXCEPT !.cost = more]
      OBVIOUS
    <2>2. DOMAIN w = DOMAIN p /\ w.facts = p.facts /\ w.manifest = v
      BY <1>1, <2>1
    <2>3. DOMAIN v = DOMAIN p.manifest /\ v.cost = more
      BY <1>1, <2>1
    <2>4. \A y \in DOMAIN p.manifest : y # "cost" => v[y] = p.manifest[y]
      BY <2>1
    <2>5. Classified \subseteq DOMAIN p.manifest
      BY Zenon DEF Assessable
    <2> QED BY <2>2, <2>3, <2>4, <2>5
  <1>3. PICK m, n, f : m = p.manifest /\ n = w.manifest /\ f = p.facts /\ f = w.facts
    BY <1>2
  <1>4. /\ n.blast = m.blast /\ n.reversibility = m.reversibility /\ n.fingerprint = m.fingerprint
        /\ n.preconditions = m.preconditions /\ n.ttl = m.ttl /\ n.matches = m.matches
        /\ n.restricted = m.restricted /\ n.risk = m.risk /\ n.cost = more
    BY <1>2, <1>3 DEF Classified
  <1>5. DefaultPolicy.riskPoints[m.risk] \in Nat
    BY <1>3, PointsAreNumbers
  <1>6. GraverManifest(m, n)
    BY <1>3, <1>4, <1>5 DEF GraverManifest, HighRisk
  <1>7. f.failures <= f.failures
    BY <1>3 DEF Assessable
  <1>8. GraverFacts(f, f)
    BY <1>7, Zenon DEF GraverFacts
  <1>9. Assessable(w)
    <2>1. /\ {"manifest", "facts"} \subseteq DOMAIN w /\ Classified \subseteq DOMAIN n
          /\ FactNames \subseteq DOMAIN f
      BY <1>2, <1>3, Zenon DEF Assessable
    <2>2. /\ n.risk \in DOMAIN DefaultPolicy.riskPoints
          /\ n.blast \in DOMAIN DefaultPolicy.blastPoints
          /\ n.reversibility \in DOMAIN DefaultPolicy.reversibility
      BY <1>3, <1>4, Zenon DEF Assessable
    <2>3. {n.matches, f.depth, f.recurrence, f.failures} \subseteq Nat
      <3>1. {m.matches, f.depth, f.recurrence, f.failures} \subseteq Nat
        BY <1>3, Zenon DEF Assessable
      <3> QED BY <1>4, <3>1, Zenon
    <2>4. AtMostOne(n.cost) /\ \A c \in n.cost : "units" \in DOMAIN c /\ c.units \in Nat
      BY <1>4
    <2> QED BY <1>3, <2>1, <2>2, <2>3, <2>4, Zenon DEF Assessable
  <1> QED BY <1>3, <1>6, <1>8, <1>9 DEF Harsher

LEMMA WorseIsHarsher ==
    ASSUME NEW p, Assessable(p), NEW w \in Worse(p)
    PROVE  \/ Assessable(w) /\ Harsher(p.manifest, p.facts, w.manifest, w.facts)
           \/ w.facts.depth > DefaultPolicy.maxDepth
  <1> DEFINE Goal == \/ Assessable(w) /\ Harsher(p.manifest, p.facts, w.manifest, w.facts)
                     \/ w.facts.depth > DefaultPolicy.maxDepth
  <1>0. p.facts.depth \in Nat /\ p.facts.failures \in Nat /\ p.facts.recurrence \in Nat /\ DefaultPolicy.maxDepth = 8
    BY DEF Assessable, DefaultPolicy
  <1>1. ASSUME NEW flag \in {"crossTenant", "unusual", "violations"},
               w = [p EXCEPT !.facts = [p.facts EXCEPT ![flag] = TRUE]]
        PROVE  Goal
    BY <1>1, GraverFlag, Zenon
  <1>2. ASSUME NEW d \in p.facts.depth..(DefaultPolicy.maxDepth + 1), w = [p EXCEPT !.facts.depth = d]
        PROVE  Goal
    <2>1. PICK x : x = "depth"
      OBVIOUS
    <2>2. w = [p EXCEPT !.facts = [p.facts EXCEPT ![x] = d]] /\ d \in Int /\ p.facts[x] <= d
      BY <1>0, <1>2, <2>1
    <2>3. x \in {"depth", "failures"}
      BY <2>1
    <2> QED BY <2>2, <2>3, GraverCounts, Zenon
  <1>3. ASSUME NEW n \in p.facts.failures..p.facts.recurrence, w = [p EXCEPT !.facts.failures = n]
        PROVE  Goal
    <2>1. PICK x : x = "failures"
      OBVIOUS
    <2>2. w = [p EXCEPT !.facts = [p.facts EXCEPT ![x] = n]] /\ n \in Int /\ p.facts[x] <= n
      BY <1>0, <1>3, <2>1
    <2>3. x \in {"depth", "failures"}
      BY <2>1
    <2> QED BY <2>2, <2>3, GraverCounts, Zenon
  <1>4. ASSUME NEW o, p.facts.idempotent = Just(TRUE), w = [p EXCEPT !.facts.idempotent = o]
        PROVE  Goal
    <2>1. PICK x : x = "idempotent"
      OBVIOUS
    <2>2. w = [p EXCEPT !.facts = [p.facts EXCEPT ![x] = o]] /\ p.facts[x] = Just(TRUE)
      BY <1>4, <2>1
    <2>3. x \in {"idempotent", "feasible"}
      BY <2>1
    <2> QED BY <2>2, <2>3, GraverCapability, Zenon
  <1>5. ASSUME NEW o, p.facts.feasible = Just(TRUE), w = [p EXCEPT !.facts.feasible = o]
        PROVE  Goal
    <2>1. PICK x : x = "feasible"
      OBVIOUS
    <2>2. w = [p EXCEPT !.facts = [p.facts EXCEPT ![x] = o]] /\ p.facts[x] = Just(TRUE)
      BY <1>5, <2>1
    <2>3. x \in {"idempotent", "feasible"}
      BY <2>1
    <2> QED BY <2>2, <2>3, GraverCapability, Zenon
  <1>6. ASSUME NEW i \in Position(Risks, p.manifest.risk)..4, w = [p EXCEPT !.manifest.risk = Risks[i]]
        PROVE  Goal
    <2>1. w = [p EXCEPT !.manifest = [p.manifest EXCEPT !["risk"] = Risks[i]]]
      BY <1>6
    <2> QED BY <2>1, GraverRisk, Zenon
  <1>7. ASSUME w = [p EXCEPT !.manifest.cost = {[c EXCEPT !.units = 10 * @] : c \in p.manifest.cost}]
        PROVE  Goal
    <2>1. PICK more : more = {[c EXCEPT !.units = 10 * @] : c \in p.manifest.cost}
      OBVIOUS
    <2>2. AtMostOne(p.manifest.cost) /\ \A c \in p.manifest.cost : "units" \in DOMAIN c /\ c.units \in Nat
      BY Zenon DEF Assessable
    <2>3. /\ AtMostOne(more) /\ (p.manifest.cost = {} <=> more = {})
          /\ \A d \in more : "units" \in DOMAIN d /\ d.units \in Nat
          /\ \A c \in p.manifest.cost, d \in more : c.units <= d.units
      <3>1. PICK cost : cost = p.manifest.cost
        OBVIOUS
      <3>2. /\ AtMostOne(cost) /\ (\A c \in cost : "units" \in DOMAIN c /\ c.units \in Nat)
            /\ more = {[c EXCEPT !.units = 10 * @] : c \in cost}
        BY <2>1, <2>2, <3>1, Zenon
      <3>3. /\ AtMostOne(more) /\ (cost = {} <=> more = {})
            /\ \A d \in more : "units" \in DOMAIN d /\ d.units \in Nat
            /\ \A c \in cost, d \in more : c.units <= d.units
        BY <3>2, TenTimes
      <3> QED BY <3>1, <3>3, Zenon
    <2>4. w = [p EXCEPT !.manifest = [p.manifest EXCEPT !.cost = more]]
      BY <1>7, <2>1, Zenon
    <2> QED BY <2>3, <2>4, GraverCost, Zenon
  <1> DEFINE f == p.facts
             m == p.manifest
             W1 == {[p EXCEPT !.facts = [f EXCEPT ![flag] = TRUE]] : flag \in {"crossTenant", "unusual", "violations"}}
             W2 == {[p EXCEPT !.facts.depth = d] : d \in f.depth..(DefaultPolicy.maxDepth + 1)}
             W3 == {[p EXCEPT !.facts.failures = n] : n \in f.failures..f.recurrence}
             W4 == {[p EXCEPT !.facts.idempotent = o] :
                       o \in IF f.idempotent = Just(TRUE) THEN {Nothing, Just(FALSE)} ELSE {}}
             W5 == {[p EXCEPT !.facts.feasible = o] :
                       o \in IF f.feasible = Just(TRUE) THEN {Nothing, Just(FALSE)} ELSE {}}
             W6 == {[p EXCEPT !.manifest.risk = Risks[i]] : i \in Position(Risks, m.risk)..4}
             W7 == {[p EXCEPT !.manifest.cost = {[c EXCEPT !.units = 10 * @] : c \in m.cost}]}
  <1> HIDE DEF Goal
  <1>8. Worse(p) = W1 \cup W2 \cup W3 \cup W4 \cup W5 \cup W6 \cup W7
    BY Zenon DEF Worse
  <1>9. w \in W1 => Goal
    BY <1>1, Zenon
  <1>10. w \in W2 => Goal
    BY <1>2, Zenon
  <1>11. w \in W3 => Goal
    BY <1>3, Zenon
  <1>12. w \in W4 => Goal
    BY <1>4, Zenon
  <1>13. w \in W5 => Goal
    BY <1>5, Zenon
  <1>14. w \in W6 => Goal
    BY <1>6, Zenon
  <1>15. w \in W7 => Goal
    BY <1>7, Zenon
  <1>16. Goal
    <2> HIDE DEF W1, W2, W3, W4, W5, W6, W7
    <2> QED BY <1>8, <1>9, <1>10, <1>11, <1>12, <1>13, <1>14, <1>15
  <1> QED BY <1>16, Zenon DEF Goal

LEMMA WorseIsNoSofter ==
    ASSUME NEW p, Assessable(p), NEW w \in Worse(p)
    PROVE  NoSofter(Assessed(p), Assessed(w))
  BY WorseIsHarsher, HarsherIsNoSofter, TooDeepBlocks

\* The assessments that are answered are of the profiles that were asked about.
AssessedInv ==
    \A a \in answer : a.asked = "assess" => a.about \in Profiles /\ a.result = Assessed(a.about)

\* Facts or a declaration that are worse in one respect never soften the recommendation, and never
\* lower the level, the approvals, the cooling period, the witnesses or the strength of verification
\* unless the effect is blocked: for every manifest and all facts the validators let through, under the
\* default policy (intelligence/engine.py, intelligence/policy.py).
THEOREM RisksAreMonotone == Spec => []RiskIsMonotone
  <1>1. Init => AssessedInv
    BY DEF Init, AssessedInv, Nothing
  <1>2. AssessedInv /\ [Next]_vars => AssessedInv'
    <2> SUFFICES ASSUME AssessedInv, [Next]_vars PROVE AssessedInv'
      OBVIOUS
    <2> USE DEF AssessedInv, Just, Nothing
    <2>1. CASE answer' = answer \/ answer' = Nothing
      BY <2>1
    <2>2. ASSUME NEW m, NEW r, NEW bundle, NEW batch, NEW x, NEW y,
                 AuthorizeWithQuorum(m, r, bundle, batch, x, y)
          PROVE  AssessedInv'
      BY <2>2 DEF AuthorizeWithQuorum
    <2>3. ASSUME NEW m, NEW policy, NEW digest, NEW batch, NEW x, NEW y,
                 ProveWithWitnessQuorum(m, policy, digest, batch, x, y)
          PROVE  AssessedInv'
      BY <2>3 DEF ProveWithWitnessQuorum
    <2>4. ASSUME NEW m, NEW policy, NEW digest, NEW records, AssertEvidenceQuality(m, policy, digest, records)
          PROVE  AssessedInv'
      BY <2>4 DEF AssertEvidenceQuality
    <2>5. ASSUME NEW profile \in Profiles, AssessEffect(profile) PROVE AssessedInv'
      <3>1. answer' = {[asked |-> "assess", about |-> profile, result |-> Assessed(profile)]}
        BY <2>5, Zenon DEF AssessEffect, Assessed
      <3> QED BY <3>1
    <2>6. ASSUME NEW pair, NarrowEnvelope(pair) PROVE AssessedInv'
      BY <2>6 DEF NarrowEnvelope
    <2>7. ASSUME NEW e, NEW choices, Substitute(e, choices) PROVE AssessedInv'
      BY <2>7 DEF Substitute
    <2> QED BY <2>1, <2>2, <2>3, <2>4, <2>5, <2>6, <2>7, Answers
  <1>3. AssessedInv => RiskIsMonotone
    <2> SUFFICES ASSUME AssessedInv, NEW a \in answer, a.asked = "assess", NEW w \in Worse(a.about)
                 PROVE  LET r == a.result
                            x == Assess(w.manifest, w.facts, DefaultPolicy) IN
                        /\ Position(Recommendations, x.recommendation) >= Position(Recommendations, r.recommendation)
                        /\ \/ x.recommendation = "block"
                           \/ /\ x.level >= r.level /\ x.approvals >= r.approvals /\ x.services >= r.services
                              /\ x.cooling >= r.cooling /\ x.witnesses >= r.witnesses /\ x.strength >= r.strength
      BY Zenon DEF RiskIsMonotone
    <2>1. Assessable(a.about) /\ a.result = Assessed(a.about)
      BY ProfilesAssumption DEF AssessedInv
    <2>2. NoSofter(a.result, Assessed(w))
      BY <2>1, WorseIsNoSofter
    <2> QED BY <2>2, Zenon DEF NoSofter, Assessed
  <1> QED BY <1>1, <1>2, <1>3, PTL DEF Spec
=============================================================================
