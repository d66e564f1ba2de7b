CONSTANTS
  c1 = c1 c2 = c2 t1 = t1 t2 = t2 t3 = t3 k1 = k1 k2 = k2
  NULL = NULL Garbage = Garbage
  Callers = {c1, c2}
  Tensors = {t1, t2, t3}
  KeyOf <- MCKeyOf
  Buffers = {b1, b2, b3}
  MaxLoads = 2
SYMMETRY Symmetry
SPECIFICATION Spec
INVARIANTS TypeOK OneOwner SharedPack PackUsable
PROPERTY MissingOnlyRacing
