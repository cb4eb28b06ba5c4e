\* A reply ends.
SPECIFICATION RepliesSpec
INVARIANT RepliesAreDeclared
CHECK_DEADLOCK FALSE
