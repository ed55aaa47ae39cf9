\* One browser whose requests overlap, with a Redis that fails to read or write.
SPECIFICATION Spec
CONSTANTS
  Null = Null
  Browsers = {b1}
  Requests = {r1, r2}
  Ids = {i1, i2, i3, i4}
  States = {s1, s2}
  Users = {u1}
  Idle = 1
  Absolute = 1
  WhatHappens = {"overlap", "read", "write", "lost"}
  Trouble <- MCTrouble
SYMMETRY Interchangeable
INVARIANTS
  LoginChangesId
  FlowsEndWhereTheyBegan
  AbsoluteLimit
