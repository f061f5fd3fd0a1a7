SPECIFICATION Spec
INVARIANT AcceptedValuesAreValid
CHECK_DEADLOCK FALSE
