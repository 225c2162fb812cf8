---------------------------- MODULE MCAuthority ----------------------------
(* One payment, a person who proposes it, a service that executes it, and   *)
(* three people who approve and witness.                                   *)
EXTENDS Authority, TLC

Dave    == [id |-> "dave", type |-> "human"]
Service == [id |-> "service", type |-> "service"]
Alice   == [id |-> "alice", type |-> "human"]
Carol   == [id |-> "carol", type |-> "human"]
Bob     == [id |-> "bob", type |-> "human"]

Adapter(id) == [id |-> id, version |-> 1]
Adapters == [a \in {Adapter("pay")} |-> {"payment", "refund"}]

One == Value("int", 1)
Two == Value("int", 2)
True1 == Value("bool", 1)
Text == Value("str", 1)

Made(effect) ==
    [effect |-> effect, adapter |-> Adapter("pay"), target |-> "acct", actor |-> Dave,
     parameters |-> [amount |-> One], cost |-> Just(Amount("USD", 1))]

Contents == [m \in {"m1"} |-> Made("payment")]

Wide == Scope([d \in AllowLists |-> Nothing], Nothing)

Request(until, types) ==
    [issuer |-> Alice, policy |-> Nothing, separation |-> Nothing, roles |-> {}, parent |-> Nothing,
     audience |-> {"pay"}, effects |-> types, scope |-> Wide, from |-> 0, until |-> until, uses |-> 2]

RiskBundle == PolicyBundle("risk", "intelligence.v1", "rules", Nothing, 0, {2}, "peer")
Duties == PolicyBundle("duty", "separation.v1", DefaultForbiddenPairs, Nothing, 0, Nothing, "org")

QuorumRules(required, roles) ==
    [required |-> required, roles |-> roles, forbidProposer |-> TRUE, forbidSubject |-> TRUE,
     veto |-> TRUE, cooling |-> 1, max |-> 3]
Quorum2 == PolicyBundle("quorum", "approval.v1", QuorumRules(2, {"risk"}), Nothing, 0, Nothing, "org")

RequestInputs ==
    LET plain == Request(2, {"payment", "refund"}) IN
    {plain,
     [plain EXCEPT !.policy = Just(RiskBundle), !.separation = Just(Duties), !.roles = {<<"sealer", "bob">>}],
     [plain EXCEPT !.parent = Just(1)]}

Kept == [issuer |-> Service, manifest |-> {"m1"}, audience |-> Nothing, effects |-> Nothing,
         scope |-> Nothing, from |-> Nothing, until |-> Nothing, uses |-> Nothing]
AttenuationInputs ==
    {Kept, [Kept EXCEPT !.until = {1}, !.manifest = Nothing],
     [Kept EXCEPT !.until = {3}], [Kept EXCEPT !.effects = {{"payment", "other"}}]}

Envelope(constraints, strict, complete, cost) ==
    [issuer |-> Alice, effect |-> "payment", adapter |-> Adapter("pay"), targets |-> {"acct"},
     constraints |-> constraints, strict |-> strict, complete |-> complete, cost |-> cost,
     plan |-> Nothing, from |-> 0, until |-> 2, key |-> "peer"]

EnvelopeChoices == {Envelope([amount |-> IntegerRange({1}, {2})], TRUE, TRUE, Nothing)}

AmountConstraints ==
    {Exact(One), Exact(True1), Exact(Text), EnumOf({One, Two}), EnumOf({One, Text}), EnumOf({True1, Two}),
     IntegerRange({1}, Nothing), IntegerRange({1}, {1}), IntegerRange(Nothing, {2}),
     MonetaryRange("USD", {1}, {2}), MonetaryRange("USD", Nothing, {1}), MonetaryRange("EUR", {1}, {2})}
Constraints ==
    {[amount |-> c] : c \in AmountConstraints}
    \cup {[amount |-> c, memo |-> Exact(Text)] : c \in AmountConstraints}
    \cup {[memo |-> Exact(Text)]}
EnvelopeSpace ==
    {Envelope(c, strict, complete, cost) :
        c \in Constraints, strict \in BOOLEAN, complete \in BOOLEAN,
        cost \in {Nothing, Just(Amount("USD", 1)), Just(Amount("EUR", 2))}}
Pairs == [child : EnvelopeSpace, parent : EnvelopeSpace]

Parameters ==
    LET values == {One, Two, True1, Text} IN
    {<< >>} \cup [{"amount"} -> values] \cup [{"memo"} -> {Text, One}]
    \cup {[amount |-> v, memo |-> w] : v \in values, w \in {Text, One}}
CandidateManifests ==
    {[Made("payment") EXCEPT !.parameters = p, !.cost = c] :
        p \in Parameters, c \in {Nothing, Just(Amount("USD", 1)), Just(Amount("USD", 2)), Just(Amount("EUR", 1))}}

Plan == [nodes |-> {"m1"}, keys |-> {"org", "peer"}]

Says(id, by, decision, role, at, until, manifest, key) ==
    [id |-> id, by |-> by, decision |-> decision, role |-> role, at |-> at, until |-> until,
     manifest |-> manifest, policy |-> Quorum2, key |-> key]
StatementInputs ==
    {Says(1, Alice, "approve", Just("risk"), 0, 2, "m1", "org"),
     Says(2, Alice, "approve", Nothing, 1, 2, "m1", "org"),
     Says(3, Alice, "dissent", Nothing, 1, 2, "m1", "org"),
     Says(4, Bob, "approve", Just("risk"), 0, 2, "m1", "peer"),
     Says(5, Bob, "dissent", Nothing, 0, 1, "m1", "peer"),
     Says(6, Carol, "approve", Nothing, 1, 2, "m1", "org"),
     Says(7, Service, "approve", Just("risk"), 0, 2, "m1", "org"),
     Says(8, Dave, "approve", Just("risk"), 0, 2, "m1", "org"),
     Says(9, Bob, "approve", Just("risk"), 0, 2, "m2", "peer"),
     Says(10, [Bob EXCEPT !.type = "service"], "approve", Nothing, 0, 2, "m1", "peer")}

\* Both parties as they are, either of them twice, or each in the other's place.
Named == {Dave, Service}

WitnessRules == [required |-> 2, forbidActor |-> TRUE, forbidSubject |-> TRUE, matched |-> TRUE, max |-> 3]
Saw(id, by, digest, matched, at, until, key) ==
    [id |-> id, by |-> by, manifest |-> "m1", policy |-> WitnessRules, digest |-> digest,
     matched |-> matched, at |-> at, until |-> until, key |-> key]
WitnessInputs ==
    {Saw(1, Alice, "after", TRUE, 0, 2, "org"), Saw(2, Alice, "after", TRUE, 1, 3, "org"),
     Saw(3, Bob, "after", TRUE, 1, 2, "peer"), Saw(4, Bob, "other", FALSE, 1, 3, "peer"),
     Saw(5, Service, "after", TRUE, 0, 3, "org"), Saw(6, Dave, "after", TRUE, 1, 3, "org")}

EvidenceRules == [maxAge |-> 1, minKind |-> "adapter_reobserve", requireDigest |-> TRUE,
                  rejectUnattributed |-> TRUE, max |-> 2]
Observed(id, kind, digest, at) ==
    EvidenceFromOutcomeProof(id, "m1", [digest |-> digest, at |-> at], kind, at) @@ [at |-> at]
EvidenceInputs ==
    {Observed(1, "provider_claim", {"after"}, 1), Observed(2, "independent_ledger", {"after"}, 0),
     Observed(3, "adapter_reobserve", Nothing, 1), Observed(4, "adapter_reobserve", {"after"}, 1)}

FactInputs ==
    [depth : {7, 8}, recurrence : {0, 5}, failures : {0, 1, 2}, idempotent : {{}, {TRUE}, {FALSE}},
     feasible : {{}, {TRUE}, {FALSE}}, crossTenant : BOOLEAN, unusual : BOOLEAN, violations : {FALSE}]
Classifications ==
    [risk : {"low", "medium", "high"}, blast : {"single_resource", "unbounded"},
     reversibility : {"reversible", "compensatable", "irreversible"},
     cost : {Nothing, Just(Amount("USD", 5000000))}, fingerprint : {TRUE}, preconditions : BOOLEAN,
     ttl : {3600}, matches : {0}, restricted : {FALSE}]
ProfileInputs ==
    [manifest : Classifications, facts : {f \in FactInputs : f.failures <= f.recurrence}]

RiskBundles == {RiskBundle}
QuorumBundles == {Quorum2}
Plans == {Plan}
WitnessRuleSets == {WitnessRules}
EvidenceRuleSets == {EvidenceRules}
=============================================================================
