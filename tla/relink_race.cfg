\* Two re-links of one stored account overlap.
SPECIFICATION RelinkSpec
CONSTANTS
  Null = Null
  Grants = {g1, g2, g3, g4}
  Permanent = {}
  Ids = {i1}
  Callers = {}
  Clerks = {k1, k2}
  Faults = {}
SYMMETRY Interchangeable
INVARIANT
  AllRetiredAreRevoked
