\* Every fault: calls wait for the row lock and for the provider.
SPECIFICATION FairSpec
CONSTANTS
  Null = Null
  Grants = {g1, g2}
  Permanent = {}
  Ids = {i1, i2, i3}
  Callers = {c1, c2}
  Clerks = {k1}
  Faults = {"reply", "store", "revoke", "withdraw", "crash"}
PROPERTY
  EveryoneAnswered
