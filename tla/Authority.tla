----------------------------- MODULE Authority -----------------------------
(***************************************************************************)
(* How the engine (engine/core.py) decides who may do what: manifests are  *)
(* prepared, assessed and sealed; grants are issued by one authority, under *)
(* a decision envelope, for a plan, or by a quorum; grants are delegated   *)
(* and revoked; a commit passes its gates, walks the recorded lineage and  *)
(* only then reserves; witnesses and evidence are judged afterwards.  The  *)
(* clock runs and keys and adapters lose their trust in between.           *)
(*                                                                         *)
(* What a commit does once its grant is reserved, budgets, and the race    *)
(* between two commits or between a commit and a revocation's second half  *)
(* are in CommitEngine.                                                    *)
(***************************************************************************)
EXTENDS Grants, Envelopes, Consent, Intelligence, Lifecycle, Functions, Integers

CONSTANTS
    Manifests,       \* identifiers of the manifests, each with one content
    Content,         \* [Manifests -> what the adapter prepared]
    Subject,         \* the principal that executes
    SealKey,         \* the key that seals, and signs grants
    Keys,            \* every signing key
    Removable,       \* the keys that may be taken off the keyring
    Elsewhere,       \* the manifest of another engine's caller
    Capabilities,    \* [adapters -> effect types they declare]
    HasRegistry,     \* whether the engine was given a registry
    Tenant,          \* the optional tenant of the engine
    Leeway,          \* clock_skew.leeway_seconds
    Requests,        \* arguments of the authorize family
    Attenuations,    \* arguments of delegate
    PolicyBundles, EnvelopeInputs, Graphs, ApprovalBundles,
    Statements,      \* approval statements anybody may have signed
    Parties,         \* principals a caller may name as proposer, actor or subject
    Profiles,        \* pairs of a manifest's classification and facts
    EnvelopePairs,   \* pairs of an envelope and a would-be narrower one
    Candidates,      \* manifests an envelope may be asked about
    WitnessPolicies, WitnessStatements, EvidencePolicies, EvidenceRecords,
    MaxTime, MaxGrants, MaxBatch

ASSUME AuthorityAssumption ==
    /\ {MaxTime, MaxGrants, MaxBatch, Leeway} \subseteq Nat
    /\ SealKey \in Keys /\ Removable \subseteq Keys /\ Elsewhere \notin Manifests
    /\ ValidIntelligencePolicy(DefaultPolicy)
    /\ \A b \in PolicyBundles \cup ApprovalBundles : ValidBundle(b)
    /\ \A b \in ApprovalBundles : ValidApprovalPolicy(b.payload)
    /\ \A e \in EnvelopeInputs : ValidEnvelope(e)
    /\ \A s \in Statements : SignApprovalStatement(s)
    /\ \A s \in WitnessStatements : SignWitnessStatement(s)
    /\ \A r \in Requests : \A b \in r.separation : ValidSeparationPolicy(b.payload)

AtMostOne(option) == \A x, y \in option : x = y

ASSUME JudgesAssumption ==
    /\ IsFiniteSet(Statements) /\ IsFiniteSet(WitnessStatements)
    /\ \A s \in Statements \cup WitnessStatements : {s.at, s.id} \subseteq Nat
    /\ \A s \in Statements : s.decision \in {"approve", "dissent"} /\ AtMostOne(s.role)
    /\ \A b \in ApprovalBundles : b.payload.required \in Nat
    /\ \A p \in WitnessPolicies : p.required \in Nat

ASSUME GrantsAssumption ==
    /\ \A r \in Requests : AtMostOne(r.parent) /\ {r.from, r.until} \subseteq Int
    /\ \A a \in Attenuations : a.from \cup a.until \subseteq Int

NumericAmounts(option) == \A amount \in option : amount.units \in Int

NumericEnvelope(e) ==
    /\ NumericAmounts(e.cost)
    /\ \A name \in DOMAIN e.constraints : LET c == e.constraints[name] IN
          c.kind \in {"exact", "enum"} \cup Ranges /\ c.min \cup c.max \subseteq Int

ASSUME EnvelopesAssumption ==
    /\ \A pair \in EnvelopePairs :
          /\ ValidEnvelope(pair.child) /\ ValidEnvelope(pair.parent)
          /\ NumericEnvelope(pair.child) /\ NumericEnvelope(pair.parent)
    /\ \A m \in Candidates :
          /\ {"effect", "adapter", "target", "parameters", "cost"} \subseteq DOMAIN m
          /\ NumericAmounts(m.cost)
          /\ \A n \in DOMAIN m.parameters : m.parameters[n].type \in {"int", "bool"} => m.parameters[n].id \in Int

Classified ==
    {"risk", "blast", "reversibility", "cost", "fingerprint", "preconditions", "ttl", "matches", "restricted"}
FactNames ==
    {"depth", "recurrence", "failures", "idempotent", "feasible", "crossTenant", "unusual", "violations"}

\* AssessmentFacts.__post_init__ and the manifest's validators.
Assessable(p) ==
    LET m == p.manifest  f == p.facts IN
    /\ {"manifest", "facts"} \subseteq DOMAIN p
    /\ Classified \subseteq DOMAIN m /\ FactNames \subseteq DOMAIN f
    /\ m.risk \in DOMAIN DefaultPolicy.riskPoints
    /\ m.blast \in DOMAIN DefaultPolicy.blastPoints
    /\ m.reversibility \in DOMAIN DefaultPolicy.reversibility
    /\ AtMostOne(m.cost) /\ \A c \in m.cost : "units" \in DOMAIN c /\ c.units \in Nat
    /\ {m.matches, f.depth, f.recurrence, f.failures} \subseteq Nat

ASSUME ProfilesAssumption == \A p \in Profiles : Assessable(p)

VARIABLES
    now,         \* the engine's clock
    keyring,     \* keys that still verify
    registry,    \* the optional registry of trusted adapters
    life,        \* [Manifests -> LifecycleState]
    grants,      \* every grant issued so far
    lineage,     \* rows of the grant store's lineage table
    revoked,     \* grants revoked in the store
    call,        \* the commit in flight, if any
    effects,     \* executed effects, with what the commit knew when it began
    answer       \* what the last call was given and returned

store == <<lineage, revoked>>
world == <<now, keyring, registry>>
vars == <<now, keyring, registry, life, grants, lineage, revoked, call, effects, answer>>

Init ==
    /\ now = 0
    /\ keyring = Keys
    /\ registry = IF HasRegistry THEN Just([a \in DOMAIN Capabilities |-> Capability(Capabilities[a])])
                  ELSE Nothing
    /\ life = [m \in Manifests |-> "proposed"]
    /\ grants = {}
    /\ lineage = [g \in {} |-> Nothing]
    /\ revoked = {}
    /\ call = Nothing
    /\ effects = {}
    /\ answer = Nothing

TypeOK ==
    /\ now \in 0..MaxTime
    /\ keyring \subseteq Keys
    /\ life \in [Manifests -> LifecycleState]
    /\ {g.id : g \in grants} = 1..Cardinality(grants)
    /\ DOMAIN lineage \subseteq 1..MaxGrants
    /\ revoked \subseteq {g.id : g \in grants}
    /\ Cardinality(call) <= 1 /\ Cardinality(answer) <= 1

-----------------------------------------------------------------------------
(* The world: time passes, keys are removed, adapters come and go.         *)

Tick ==
    /\ now < MaxTime
    /\ now' = now + 1
    /\ answer' = Nothing
    /\ UNCHANGED <<keyring, registry, life, grants, lineage, revoked, call, effects>>

RemoveKey(k) ==
    /\ k \in keyring
    /\ keyring' = keyring \ {k}
    /\ answer' = Nothing
    /\ UNCHANGED <<now, registry, life, grants, lineage, revoked, call, effects>>

DistrustAdapter(a) ==
    /\ registry' = {RevokeAdapter(r, a) : r \in registry}
    /\ answer' = Nothing
    /\ UNCHANGED <<now, keyring, life, grants, lineage, revoked, call, effects>>

RegisterAgain(a) ==
    /\ registry' = {Register(r, a, Capabilities[a]) : r \in registry}
    /\ answer' = Nothing
    /\ UNCHANGED <<now, keyring, life, grants, lineage, revoked, call, effects>>

-----------------------------------------------------------------------------
(* prepare, assess, seal.                                                  *)

Move(m, state) ==
    IsLegalTransition(life[m], state) /\ life' = [life EXCEPT ![m] = state]

\* The registry is asked before and after adapter.prepare.
Prepare(m) ==
    /\ RequireTrustedAdapter(registry, Content[m].adapter, Nothing)
    /\ RequireTrustedAdapter(registry, Content[m].adapter, Just(Content[m].effect))
    /\ Move(m, "prepared")
    /\ answer' = Nothing
    /\ UNCHANGED <<world, grants, store, call, effects>>

\* assess and the comparison of envelopes read none of the engine's state:
\* the model asks them once, before anything else has happened.
Undisturbed ==
    /\ now = 0 /\ keyring = Keys /\ answer = Nothing
    /\ {life[m] : m \in Manifests} = {"proposed"}

AssessEffect(profile) ==
    /\ answer' = Just([asked |-> "assess", about |-> profile,
                       result |-> Assess(profile.manifest, profile.facts, DefaultPolicy)])
    /\ UNCHANGED <<world, life, grants, store, call, effects>>

NarrowEnvelope(pair) ==
    /\ EnvelopeNarrower(pair.child, pair.parent)
    /\ answer' = Just([asked |-> "narrow", about |-> pair, result |-> TRUE])
    /\ UNCHANGED <<world, life, grants, store, call, effects>>

\* substitute_parameters, which fills the constrained parameters of a manifest.
Substitute(e, choices) ==
    /\ Substitutable(e, choices)
    /\ answer' = Just([asked |-> "substitute", about |-> e, result |-> SubstituteParameters(e, choices)])
    /\ UNCHANGED <<world, life, grants, store, call, effects>>

SealManifest(m) ==
    /\ Move(m, "sealed")
    /\ answer' = Nothing
    /\ UNCHANGED <<world, grants, store, call, effects>>

VerifySeal == Verifies(keyring, SealKey)

-----------------------------------------------------------------------------
(* The authorize family.  A request holds the arguments they share.        *)

NextGrant == Cardinality(grants) + 1

GrantFor(m, r) ==
    [id |-> NextGrant, manifest |-> Just(m), policy |-> r.policy, approval |-> Nothing,
     envelope |-> Nothing, plan |-> Nothing, budget |-> Nothing, issuer |-> r.issuer,
     subject |-> Subject, audience |-> r.audience, effects |-> r.effects, scope |-> r.scope,
     from |-> r.from, until |-> r.until, uses |-> r.uses, parent |-> r.parent,
     key |-> SealKey, delegated |-> FALSE]

\* An optional policy bundle is verified and its tenant enforced.
PolicyGate(bundle) ==
    \A b \in bundle : VerifyPolicyBundle(b, keyring, now, Nothing) /\ EnforcePolicyTenant(bundle, Tenant)

\* _enforce_separation_of_duty.
EnforceSeparationOfDuty(bundle, roles) ==
    \A b \in bundle :
        /\ VerifyPolicyBundle(b, keyring, now, Just("separation.v1"))
        /\ CheckSeparationOfDuty(roles, b.payload)

\* A single issuer is the approver.
SoleApprover(m, r) ==
    Merge(BaseRoleAssignment(Content[m].actor.id, Subject.id, {r.issuer.id}), r.roles)

\* _record_grant_lineage: a grant without a parent gets no row.
RecordGrantLineage(g) ==
    IF g.parent = Nothing THEN lineage ELSE RecordLineage(lineage, g.id, g.parent)

\* The tail the four share: issue_grant, then the transition.
Issue(m, g) ==
    /\ NextGrant <= MaxGrants
    /\ IssueGrant(g)
    /\ Move(m, "authorized")
    /\ grants' = grants \cup {g}

Authorize(m, r) ==
    /\ VerifySeal
    /\ PolicyGate(r.policy)
    /\ EnforceSeparationOfDuty(r.separation, SoleApprover(m, r))
    /\ Issue(m, GrantFor(m, r))
    /\ lineage' = RecordGrantLineage(GrantFor(m, r))
    /\ answer' = Nothing
    /\ UNCHANGED <<world, revoked, call, effects>>

\* Unlike authorize, the other three record no lineage.
AuthorizeWithEnvelope(m, r, e) ==
    /\ VerifySeal
    /\ VerifyDecisionEnvelope(e, keyring, now)
    /\ Fits(Content[m], e)
    /\ PolicyGate(r.policy)
    /\ EnforceSeparationOfDuty(r.separation, SoleApprover(m, r))
    /\ Issue(m, [GrantFor(m, r) EXCEPT !.envelope = Just(e)])
    /\ answer' = Nothing
    /\ UNCHANGED <<world, store, call, effects>>

AuthorizePlan(m, r, graph) ==
    /\ VerifySeal
    /\ AssertManifestInPlan(m, graph, keyring)
    /\ PolicyGate(r.policy)
    /\ EnforceSeparationOfDuty(r.separation, SoleApprover(m, r))
    /\ Issue(m, [GrantFor(m, r) EXCEPT !.plan = Just(graph)])
    /\ answer' = Nothing
    /\ UNCHANGED <<world, store, call, effects>>

\* The set of counted statements is bound into the grant; nothing that follows
\* reads it, so that one value stands for all of them.  The proposer and the
\* subject are whomever the caller names: neither is compared with the manifest.
AuthorizeWithQuorum(m, r, bundle, batch, proposer, subject) ==
    LET quorum == EvaluateQuorum(batch, bundle.payload, m, bundle, keyring, proposer, subject, now)
        roles == Merge(BaseRoleAssignment(proposer.id, subject.id, quorum.approving), r.roles)
    IN  /\ VerifySeal
        /\ VerifyPolicyBundle(bundle, keyring, now, Just("approval.v1"))
        /\ quorum.satisfied
        /\ EnforceSeparationOfDuty(r.separation, roles)
        /\ PolicyGate(r.policy)
        /\ Issue(m, [GrantFor(m, r) EXCEPT !.approval = Just("counted"), !.subject = subject])
        /\ answer' = Just([asked |-> "quorum", about |-> [manifest |-> m, batch |-> batch,
                              bundle |-> bundle, separation |-> r.separation, roles |-> roles,
                              parties |-> {proposer.id, subject.id}],
                           result |-> quorum.approving])
        /\ UNCHANGED <<world, store, call, effects>>

-----------------------------------------------------------------------------
(* delegate, revoke, and the lineage table's own interface.                *)

\* An argument that is not given is inherited; the bindings to a policy, an
\* envelope, a plan or an approval set are not.
Attenuated(parent, a) ==
    LET given(option, inherited) == IF option = Nothing THEN inherited ELSE CHOOSE x \in option : TRUE
    IN  [parent EXCEPT !.id = NextGrant, !.parent = Just(parent.id), !.manifest = a.manifest,
            !.policy = Nothing, !.approval = Nothing, !.envelope = Nothing, !.plan = Nothing,
            !.issuer = a.issuer, !.delegated = TRUE,
            !.audience = given(a.audience, @), !.effects = given(a.effects, @),
            !.scope = given(a.scope, @), !.from = given(a.from, @),
            !.until = given(a.until, @), !.uses = given(a.uses, @)]

\* Neither the parent's signature and window nor its revocation is looked at.
Delegate(parent, a) ==
    LET child == Attenuated(parent, a)
    IN  /\ NextGrant <= MaxGrants
        /\ IssueGrant(child)
        /\ GrantNarrower(child, parent)
        /\ grants' = grants \cup {child}
        /\ lineage' = RecordGrantLineage(child)
        /\ answer' = Nothing
        /\ UNCHANGED <<world, life, revoked, call, effects>>

\* grant_store.record_lineage(root, None), which the engine never calls.
RecordRoot(g) ==
    /\ g.parent = Nothing
    /\ lineage' = RecordLineage(lineage, g.id, Nothing)
    /\ answer' = Nothing
    /\ UNCHANGED <<world, life, grants, revoked, call, effects>>

\* The caller names the manifest whose lifecycle ends with the grant: the one
\* the grant was first issued for may be another than a descendant's.
Revoke(g, m) ==
    /\ revoked' = revoked \cup {g.id}
    /\ IF m # Elsewhere /\ IsRevocable(life[m]) THEN Move(m, "revoked") ELSE UNCHANGED life
    /\ answer' = Nothing
    /\ UNCHANGED <<world, grants, lineage, call, effects>>

-----------------------------------------------------------------------------
(* commit: the gates, the walk over the ancestors, the reservation.        *)

\* A grant's binding has to be presented again and verified again; a policy
\* bundle that is not bound still has to be of the engine's tenant.
PolicyPresented(g, presented) ==
    IF g.policy # Nothing
    THEN presented = g.policy /\ PolicyGate(presented)
    ELSE Tenant # Nothing /\ presented # Nothing => EnforcePolicyTenant(presented, Tenant)

EnvelopePresented(g, m, presented) ==
    g.envelope # Nothing =>
        /\ presented = g.envelope
        /\ \A e \in presented : VerifyDecisionEnvelope(e, keyring, now) /\ Fits(Content[m], e)

PlanPresented(g, m, presented) ==
    g.plan # Nothing =>
        /\ \A graph \in presented : RequireMatchingPlanHash(graph, g.plan)
                                    /\ AssertManifestInPlan(m, graph, keyring)
        /\ presented # Nothing

BeginCommit(m, g, adapter, policy, envelope, plan) ==
    /\ call = Nothing
    /\ VerifySeal
    /\ VerifyGrant(g, keyring, now, Leeway)
    /\ g.manifest = Just(m)
    /\ PolicyPresented(g, policy)
    /\ EnvelopePresented(g, m, envelope)
    /\ PlanPresented(g, m, plan)
    /\ adapter.id \in g.audience
    /\ Content[m].adapter = adapter
    /\ RequireTrustedAdapter(registry, adapter, Just(Content[m].effect))
    /\ Content[m].effect \in g.effects
    /\ g.id \notin revoked
    /\ call' = Just([manifest |-> m, grant |-> g, at |-> now, known |-> revoked, step |-> "walk"])
    /\ answer' = Nothing
    /\ UNCHANGED <<world, life, grants, store, effects>>

At(step) == {c \in call : c.step = step}

CheckAncestors ==
    \E c \in At("walk") :
        /\ call' = IF Ancestors(c.grant, lineage, revoked, MAX_DELEGATION_DEPTH) = "clear"
                   THEN Just([c EXCEPT !.step = "reserve"]) ELSE Nothing
        /\ answer' = Nothing
        /\ UNCHANGED <<world, life, grants, store, effects>>

UsesOf(g) == Cardinality({e \in effects : e.grant = g})

\* The reservation looks at the grant's own revocation again; a manifest that
\* is no longer authorized gives it back.
Execute ==
    \E c \in At("reserve") :
        /\ call' = Nothing
        /\ IF c.grant.id \in revoked \/ UsesOf(c.grant) >= c.grant.uses
              \/ ~ IsLegalTransition(life[c.manifest], "committing")
           THEN UNCHANGED <<life, effects>>
           ELSE /\ life' = [life EXCEPT ![c.manifest] = "committed"]
                /\ effects' = effects \cup {[manifest |-> c.manifest, grant |-> c.grant,
                                             at |-> c.at, known |-> c.known]}
        /\ answer' = Nothing
        /\ UNCHANGED <<world, grants, store>>

-----------------------------------------------------------------------------
(* Proof.  Neither judgement looks at the lifecycle; the model asks for     *)
(* them while the effect is committed.                                     *)

ProofAsked(m) == life[m] = "committed"

\* The actor and the subject, too, are whomever the caller names.
ProveWithWitnessQuorum(m, policy, digest, batch, actor, subject) ==
    LET quorum == EvaluateWitnessQuorum(batch, policy, m, digest, keyring, actor, subject, now)
    IN  /\ VerifySeal
        /\ quorum.satisfied
        /\ answer' = Just([asked |-> "witness", about |-> [manifest |-> m, batch |-> batch,
                              policy |-> policy, digest |-> digest,
                              parties |-> {actor.id, subject.id}],
                           result |-> quorum.accepted])
        /\ UNCHANGED <<world, life, grants, store, call, effects>>

AssertEvidenceQuality(m, policy, digest, records) ==
    LET assessment == EvaluateEvidenceQuality(records, policy, m, digest, now)
    IN  /\ VerifySeal
        /\ assessment.acceptable
        /\ answer' = Just([asked |-> "evidence", about |-> [manifest |-> m, batch |-> records,
                              policy |-> policy, digest |-> digest],
                           result |-> assessment.accepted])
        /\ UNCHANGED <<world, life, grants, store, call, effects>>

-----------------------------------------------------------------------------
Options(S) == {Nothing} \cup {Just(x) : x \in S}

\* The batches of what has been signed or observed by now.
Batches(S) == UNION {kSubset(k, {s \in S : s.at <= now}) : k \in 1..MaxBatch}

\* Bounds of the model, none of which the code knows: grants change hands while
\* some manifest is authorized and, after the first, while the adapters keep their
\* trust; the world moves until every manifest is revoked; effects are
\* judged in the histories with one grant, since the judgement reads no grant.
Authorized == \E m \in Manifests : life[m] = "authorized"
Alive == \E m \in Manifests : life[m] # "revoked"
Trusting == \A r \in registry : \A a \in DOMAIN r : ~ r[a].revoked
Alone == Cardinality(grants) <= 1

WorldStep ==
    /\ Alive
    /\ \/ Tick
       \/ \E k \in Removable : RemoveKey(k)
       \/ \E a \in DOMAIN Capabilities : Alone /\ (DistrustAdapter(a) \/ RegisterAgain(a))

PureStep ==
    /\ Undisturbed
    /\ \/ \E profile \in Profiles : AssessEffect(profile)
       \/ \E pair \in EnvelopePairs : NarrowEnvelope(pair)
       \/ \E pair \in EnvelopePairs : pair.child = pair.parent
             /\ \E m \in Candidates : Substitute(pair.child, m.parameters)

AuthorizeStep(m) ==
    /\ life[m] = "sealed"
    /\ \E r \in Requests :
          \/ Authorize(m, r)
          \/ \E e \in EnvelopeInputs : AuthorizeWithEnvelope(m, r, e)
          \/ \E graph \in Graphs : AuthorizePlan(m, r, graph)
          \/ \E bundle \in ApprovalBundles, proposer, subject \in Parties :
                \E batch \in Batches(Statements) :
                    AuthorizeWithQuorum(m, r, bundle, batch, proposer, subject)

GrantStep(g) ==
    /\ Authorized
    /\ \/ \E a \in Attenuations : Trusting /\ Delegate(g, a)
       \/ RecordRoot(g)
       \/ \E m \in Manifests \cup {Elsewhere} : Revoke(g, m)

CommitStep ==
    \/ \E m \in Manifests, g \in grants, adapter \in DOMAIN Capabilities,
          policy \in Options(PolicyBundles), envelope \in Options(EnvelopeInputs),
          plan \in Options(Graphs) : BeginCommit(m, g, adapter, policy, envelope, plan)
    \/ CheckAncestors
    \/ Execute

ProofStep(m) ==
    /\ ProofAsked(m) /\ Alone /\ answer = Nothing
    /\ \/ \E policy \in WitnessPolicies, digest \in {"after", "other"}, actor, subject \in Parties :
             \E batch \in Batches(WitnessStatements) :
                 ProveWithWitnessQuorum(m, policy, digest, batch, actor, subject)
       \/ \E policy \in EvidencePolicies, digest \in Options({"after", "other"}) :
             \E records \in Batches(EvidenceRecords) : AssertEvidenceQuality(m, policy, digest, records)

Next ==
    \/ WorldStep
    \/ PureStep
    \/ \E m \in Manifests : Prepare(m) \/ SealManifest(m) \/ AuthorizeStep(m) \/ ProofStep(m)
    \/ \E g \in grants : GrantStep(g)
    \/ CommitStep

Spec == Init /\ [][Next]_vars

-----------------------------------------------------------------------------
(* Properties.                                                             *)

GrantOf(id) == CHOOSE g \in grants : g.id = id

\* A caller may claim a parent that was never issued, or the grant itself.
Issued(g) == \E h \in grants : g.parent = Just(h.id) /\ h.id < g.id

\* The grants above g, itself included, as they were issued; root first.
ChainOf(g) ==
    LET above[i \in 0..MaxGrants] ==
            IF i = 0 THEN << >>
            ELSE LET h == GrantOf(i) IN
                 Append(IF Issued(h) THEN above[CHOOSE p \in h.parent : TRUE] ELSE << >>, h)
    IN  above[g.id]

\* No effect is executed under a grant with an ancestor, however far above,
\* that was revoked before the commit was called: the walk over the recorded
\* lineage (delegation/revocation.py) reaches everything that was issued.
RevocationReachesDescendants ==
    \A e \in effects : \A i \in DOMAIN ChainOf(e.grant) : ChainOf(e.grant)[i].id \notin e.known

\* Whatever commit lets through under a delegated grant also passes
\* verify_delegation_chain, which commit never calls: every link was narrowed
\* when it was made, so that no window, audience or effect type of an ancestor
\* is overstepped at the moment of the commit.
CommitWithinChain ==
    \A e \in effects :
        LET chain == ChainOf(e.grant) IN
        chain[1].parent = Nothing /\ (\A i \in 2..Len(chain) : chain[i].delegated)
        => /\ VerifyDelegationChain(chain, Keys, e.known, e.at, Leeway)
           /\ \A i \in DOMAIN chain :
                 /\ Content[e.manifest].effect \in chain[i].effects
                 /\ Content[e.manifest].adapter.id \in chain[i].audience
                 /\ VerifyGrantTimeWindow(chain[i], e.at, Leeway)

\* The statements made under an identifier that say something about this
\* manifest under this policy and still verify.
Standing(id, batch, m, policy) ==
    {s \in batch : /\ s.by.id = id /\ MayIssue(s.by) /\ s.manifest = m /\ s.policy = policy
                   /\ VerifyStatement(s, keyring, now)}

LastWordIs(id, decision, batch, m, policy) ==
    \E s \in Standing(id, batch, m, policy) :
        s.decision = decision /\ \A t \in Standing(id, batch, m, policy) : t.at <= s.at

\* What an approval quorum, and a witness quorum, was asked about and answered.
ApprovedByOthers(q, result) ==
    LET policy == q.bundle.payload
        people == Signers(q.batch)
        yes == {id \in people : LastWordIs(id, "approve", q.batch, q.manifest, q.bundle)}
    IN  policy.forbidProposer /\ policy.forbidSubject =>
        /\ Cardinality(yes \ q.parties) >= policy.required
        /\ result \cap q.parties = {}
        /\ \A role \in policy.roles : \E s \in q.batch :
              s.by.id \in result /\ s.role = Just(role) /\ s.decision = "approve"
        /\ policy.veto => \A id \in people \ q.parties :
              LastWordIs(id, "dissent", q.batch, q.manifest, q.bundle) => id \in yes
        /\ \A b \in q.separation : {"sealer", "approver"} \in b.payload =>
              PrincipalsFor(q.roles, "sealer") \cap result = {}

WitnessedByOthers(q, result) ==
    q.policy.forbidActor /\ q.policy.forbidSubject /\ q.policy.matched =>
        /\ Cardinality(result) >= q.policy.required
        /\ result \cap q.parties = {}
        /\ \A id \in result : \E s \in q.batch :
              s.by.id = id /\ s.matched /\ s.digest = q.digest /\ MayIssue(s.by)

\* A grant by quorum rests on enough different people, none of them an agent
\* or one of the parties the caller named, each of whose last word was to
\* approve, at least one in each required role, nobody's last word being a
\* dissent, and none with a role that separation of duties keeps apart; an
\* effect is proved by enough different witnesses, none of them a party the
\* caller named, who observed what was expected, if the policy asks for all of
\* that.  The parties are as the caller names them: that the manifest's own
\* actor is among them is nowhere checked, and not said here.
JudgedByOthers ==
    \A a \in answer :
        /\ a.asked = "quorum" => ApprovedByOthers(a.about, a.result)
        /\ a.asked = "witness" => WitnessedByOthers(a.about, a.result)

\* The manifest with its parameters cut down to those the envelope names.
CutTo(manifest, e) ==
    [manifest EXCEPT !.parameters = [n \in DOMAIN @ \cap DOMAIN e.constraints |-> @[n]]]

\* The manifest as the envelope's ranges have to read it: a bool that compares
\* equal to an int is that int.
AsNumbers(manifest, e) ==
    [manifest EXCEPT !.parameters =
        [n \in DOMAIN @ |-> IF e.constraints[n].kind \in Ranges /\ @[n].type = "bool"
                            THEN Value("int", @[n].id) ELSE @[n]]]

\* An envelope that was accepted as narrower lets through no manifest that the
\* wider one refuses, apart from parameters the wider one never names and from
\* bools where it asks for numbers; and the parameters that were filled in
\* under an envelope are ones it lets through, if it lets anything through.
EnvelopesOnlyNarrow ==
    \A a \in answer :
        /\ a.asked = "narrow" =>
              \A m \in Candidates : Fits(m, a.about.child) =>
                  Fits(AsNumbers(CutTo(m, a.about.parent), a.about.parent), a.about.parent)
        /\ a.asked = "substitute" =>
              \A m \in Candidates : Fits(m, a.about) =>
                  Fits([m EXCEPT !.parameters = a.result], a.about)

Position(seq, x) == CHOOSE i \in DOMAIN seq : seq[i] = x

\* Worse in one respect: a flag is raised, the delegation is deeper, more runs
\* failed, a capability that was known to be there no longer is, the declared
\* risk or the amount is higher.
Worse(p) ==
    LET f == p.facts  m == p.manifest IN
    {[p EXCEPT !.facts = [f EXCEPT ![flag] = TRUE]] : flag \in {"crossTenant", "unusual", "violations"}}
    \cup {[p EXCEPT !.facts.depth = d] : d \in f.depth..(DefaultPolicy.maxDepth + 1)}
    \cup {[p EXCEPT !.facts.failures = n] : n \in f.failures..f.recurrence}
    \cup {[p EXCEPT !.facts.idempotent = o] : o \in IF f.idempotent = Just(TRUE) THEN {Nothing, Just(FALSE)} ELSE {}}
    \cup {[p EXCEPT !.facts.feasible = o] : o \in IF f.feasible = Just(TRUE) THEN {Nothing, Just(FALSE)} ELSE {}}
    \cup {[p EXCEPT !.manifest.risk = Risks[i]] : i \in Position(Risks, m.risk)..4}
    \cup {[p EXCEPT !.manifest.cost = {[c EXCEPT !.units = 10 * @] : c \in m.cost}]}

\* Facts or a declaration that are worse never soften the recommendation, and
\* never lower what has to be done before the effect unless they block it.
RiskIsMonotone ==
    \A a \in answer : a.asked = "assess" =>
        \A w \in Worse(a.about) :
            LET r == a.result
                x == Assess(w.manifest, w.facts, DefaultPolicy) IN
            /\ Position(Recommendations, x.recommendation) >= Position(Recommendations, r.recommendation)
            /\ \/ x.recommendation = "block"
               \/ /\ x.level >= r.level /\ x.approvals >= r.approvals /\ x.services >= r.services
                  /\ x.cooling >= r.cooling /\ x.witnesses >= r.witnesses /\ x.strength >= r.strength
=============================================================================
