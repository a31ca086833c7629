SPECIFICATION Spec
CONSTANT Inodes = {1, 2}
INVARIANT JournalExplains
INVARIANT RefusedWhenForbidden
PROPERTY ImplementsDurableChange
CHECK_DEADLOCK FALSE
