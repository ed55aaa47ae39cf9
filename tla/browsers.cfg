\* Two browsers that send one request at a time, and a DEL that fails.
SPECIFICATION Spec
CONSTANTS
  Null = Null
  Browsers = {b1, b2}
  Requests = {r1, r2}
  Ids = {i1, i2, i3, i4}
  States = {s1, s2}
  Users = {u1}
  Idle = 1
  Absolute = 1
  WhatHappens = {"destroy"}
  Trouble <- MCTrouble
SYMMETRY Interchangeable
INVARIANTS
  TypeOK
  FlowsEndWhereTheyBegan
  StateUsedOnce
  StaysSignedIn
