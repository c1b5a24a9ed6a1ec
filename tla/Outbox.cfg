SPECIFICATION FairSpec
CONSTANTS
    Events = {e1, e2}
    Replicas = {r1, r2}
    Poison = {e2}
    Batch = 2
    MaxTime = 1
    MaxRefusals = 1
    MaxFailures = 2
INVARIANTS
    NoOvertaking
    OutboxInv
    DuplicatesAreExplained
PROPERTIES
    DeliversAtLeastOnce
    EventuallyProcessed
