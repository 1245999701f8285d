CONSTANTS
  i1 = i1
  i2 = i2
  s1 = s1
  s2 = s2
  Items <- MCItems
  SetItems <- MCSetItems
  NULL = NULL
  maxElem = 4
SPECIFICATION Spec
INVARIANTS RingConsistent NoLeak
PROPERTY ImplementsFifo
