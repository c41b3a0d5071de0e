CONSTANT MAX_RANKS = 63
SPECIFICATION Spec
INVARIANTS TypeOK ChildrenInRange ParentAndChildAgree
PROPERTIES HopsHalve
CHECK_DEADLOCK FALSE
