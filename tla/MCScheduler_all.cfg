SPECIFICATION FairSpec
CONSTANTS
    Coros = {r1, r2, r3}
    Stub = Stub
    Null = Null
    Loop = Loop
    r1 = r1
    r2 = r2
    r3 = r3
    MaxRpcs <- OneAwaits
    TryAgain = 2
CHECK_DEADLOCK FALSE
INVARIANTS Consistent FrameSafe
PROPERTIES ImplementsTaskQueue FrameReleased
