SPECIFICATION MCSpec
INVARIANT EvaluatesTree
CHECK_DEADLOCK FALSE
