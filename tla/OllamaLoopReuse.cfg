SPECIFICATION ClientSpec
CONSTANTS
    CallThreads = {t1, t2}
    LoopIds = {i1, i2}
    MaxLoops = 3
    MaxRetries = 1
INVARIANTS ClientOfOwnLoop
CHECK_DEADLOCK FALSE
