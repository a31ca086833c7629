SPECIFICATION Spec
CONSTANT N = 3
INVARIANT JournalExplains
INVARIANT SuccessIsWhole
INVARIANT PendingIsTakenUp
PROPERTY UnexplainedIsLeftAlone
