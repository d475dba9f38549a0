SPECIFICATION Spec
CONSTANTS
    r1 = r1
    r2 = r2
    r3 = r3
    None = None
    ThreadCount = 2
    Runnables <- MCRunnables
    Spawners = {}
    SlotFaults = {}
INVARIANT
    JoinDrains
\* The owner may destroy the queue, hang in the destructor, or crash.
CHECK_DEADLOCK FALSE
