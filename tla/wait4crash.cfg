SPECIFICATION Spec
CONSTANT MaxRetries = 3
INVARIANTS LostOnlyToALateKill NothingLeft
PROPERTIES RoundEnds
\* the loop ends
CHECK_DEADLOCK FALSE
