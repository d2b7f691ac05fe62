SPECIFICATION SideSpec
CONSTANTS
    CaptureSchema = "v1"
    Rivals = {"promotion", "task", "review", "decision"}
    TaskOutcomes = {"ours", "failed"}
    MaxFaults = 3
    Operations = {"synthetic", "mixed"}
    MaxRevision = 4
    FactKeys = {"family.budget", "student.intended_field"}
    Rank <- KeyOrder
    MaxMessages = 3
    Members = {"student", "parent"}
    PageLimit = 1
    MaxUndecided = 2
    MaxRuns = 1
    MaxResearch = 2
CHECK_DEADLOCK FALSE
INVARIANTS
    FactsFollowVerdicts
    ReadersComplete
    ApprovalsExact
    ReceiptsTruthful
PROPERTIES
    CandidateLifecycle
    SourceGuarded
