SPECIFICATION Spec
CONSTANTS
  Writer = {w1, w2}
  Payload = {v1, v2}
  Inode = {i1, i2, i3, i4}
  Chunks = 2
  Locked = TRUE
  Absent = Absent
  Hole = Hole
  Nobody = Nobody
SYMMETRY Symmetry
INVARIANTS
  TypeOK
  FinalWhole
PROPERTY
  ImplementsRegister
