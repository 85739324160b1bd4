CONSTANT MaxLen = 9
SPECIFICATION FairSpec
INVARIANT TypeOK
INVARIANT FindsTheParting
PROPERTY Ends
CHECK_DEADLOCK FALSE
