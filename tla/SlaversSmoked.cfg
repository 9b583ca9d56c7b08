SPECIFICATION Spec
CONSTANT DoubleBoss = FALSE
INVARIANT SlaversReopen
CHECK_DEADLOCK FALSE
