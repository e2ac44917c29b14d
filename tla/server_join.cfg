SPECIFICATION Spec
CONSTANTS
    NPlugins = 1
    Slots = {s1, s2}
    MainThread = MainThread
INVARIANT InFlightFinished
CHECK_DEADLOCK FALSE
