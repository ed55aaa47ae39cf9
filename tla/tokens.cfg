\* No fault: refreshes, links and unlinks of one account overlap, and the app
\* stops issuing refresh tokens or starts again.
SPECIFICATION Spec
CONSTANTS
  Null = Null
  Grants = {g1, g2, g3}
  Permanent = {g3}
  Ids = {i1, i2, i3}
  Callers = {c1, c2}
  Clerks = {k1, k2}
  Faults = {}
SYMMETRY Interchangeable
INVARIANTS
  TypeOK
  AccountStaysUsable
  RetiredAreRevoked
PROPERTY
  ImplementsLinkedAccount
