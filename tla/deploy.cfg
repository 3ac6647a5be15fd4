SPECIFICATION Spec
CONSTANT Written <- Options
INVARIANT ValidatorsAgree
CHECK_DEADLOCK FALSE
