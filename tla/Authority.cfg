SPECIFICATION Spec
CONSTANTS
    Manifests = {"m1"}
    Elsewhere = "m2"
    Removable = {"peer"}
    Content <- Contents
    Subject <- Service
    SealKey = "org"
    Keys = {"org", "peer"}
    Capabilities <- Adapters
    Tenant = {}
    HasRegistry = TRUE
    Leeway = 0
    Requests <- RequestInputs
    Attenuations <- AttenuationInputs
    PolicyBundles <- RiskBundles
    EnvelopeInputs <- EnvelopeChoices
    Graphs <- Plans
    ApprovalBundles <- QuorumBundles
    Statements <- StatementInputs
    Parties <- Named
    Profiles <- ProfileInputs
    EnvelopePairs <- Pairs
    Candidates <- CandidateManifests
    WitnessPolicies <- WitnessRuleSets
    WitnessStatements <- WitnessInputs
    EvidencePolicies <- EvidenceRuleSets
    EvidenceRecords <- EvidenceInputs
    MaxTime = 2
    MaxGrants = 3
    MaxBatch = 3
CHECK_DEADLOCK FALSE
INVARIANTS
    RevocationReachesDescendants
    CommitWithinChain
    JudgedByOthers
    EnvelopesOnlyNarrow
    RiskIsMonotone
