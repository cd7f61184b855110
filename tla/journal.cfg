CONSTANTS
    None = None
    i1 = i1  i2 = i2
    k1 = k1
    Intent = {i1, i2}
    Key = {k1}
    KeyOf <- MCKeyOf
SPECIFICATION Spec
INVARIANTS IndexLeadsToEntry ReservedBeforeUse
PROPERTIES NeverOverwritten ImplementsLog
