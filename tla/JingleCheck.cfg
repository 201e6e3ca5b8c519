SPECIFICATION Spec
CONSTANT MaxElements = 3
INVARIANTS HandlersSafe ContentsFreed
CHECK_DEADLOCK FALSE
