\* Three slots, eight frames, three sessions: the queue fills, evicts, drains, is cleared
\* and fills again.  The run may end when the bound on pushes is used up.
SPECIFICATION Spec
CONSTANTS
    Configured = 3
    MaxPushes = 8
    MaxConsumers = 3
CHECK_DEADLOCK FALSE
INVARIANTS
    BoundedAllocation
PROPERTIES
    StreamSpec
