CONSTANT Faults = TRUE
SPECIFICATION Spec
INVARIANT StateIsAsAsked
