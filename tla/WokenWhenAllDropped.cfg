SPECIFICATION ShutdownSpec
CONSTANT Tasks = {t1, t2}
INVARIANT WokenWhenAllDropped
CHECK_DEADLOCK FALSE
