SPECIFICATION KeysSpec
CHECK_DEADLOCK FALSE
CONSTANT NULL = NULL
INVARIANTS AcceptsOnlyKeys FieldCongruent FieldCanonical PublicKeyCorrect
