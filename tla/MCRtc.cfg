CONSTANTS
    Starts <- MCStarts
    Naps = {1, 2}
    Horizon = 30
    LastCall = 2
    MaxTicks = 2
SPECIFICATION Spec
INVARIANTS TypeOK TimeWasTrue UtimeRight
PROPERTIES SleepsLongEnough CallsReturn
