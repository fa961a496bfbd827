SPECIFICATION Spec
CONSTANT Exceptions = {0, 14}
CHECK_DEADLOCK FALSE
INVARIANT ReturnInRax
