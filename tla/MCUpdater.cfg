SPECIFICATION Spec
CONSTANTS
    Callers = {1, 2}
    Keep = 2
    MaxVersion = 4
INVARIANT Recoverable
INVARIANT RolledBackIsRestored
