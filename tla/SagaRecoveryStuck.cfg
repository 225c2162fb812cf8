SPECIFICATION Spec
CONSTANTS
    c1 = c1  c2 = c2
    Length = 2
    Callers = {c1}
    MaxRestarts = 0
PROPERTIES
    RecoveryContinues
