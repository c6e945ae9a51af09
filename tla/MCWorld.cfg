CONSTANTS
    k1 = k1
    t1 = t1
    t2 = t2
    t3 = t3
    NoThread = NoThread
    Thread <- AllOfThree
    User <- GameThreads
    First <- KernelFirst
    MaxThreads = 4
SPECIFICATION Spec
INVARIANTS   AllOrNothing
PROPERTIES GameSuspensionKept ImplementsWorldAbs
CHECK_DEADLOCK FALSE
