SPECIFICATION Spec
CONSTANTS
    i1 = i1  i2 = i2  c1 = c1  c2 = c2  r1 = r1  none = none
    Isolate <- MCIsolate
    Config <- MCConfig
    Load = {r1}
    None <- none
SYMMETRY Symmetry
CONSTRAINT FewTorn
INVARIANTS TypeOK NeverHalfConfigured AnsweredIsDurable
PROPERTIES ImplementsTargetStore
CHECK_DEADLOCK FALSE
