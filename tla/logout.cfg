\* One browser, one request at a time, and no failure.
SPECIFICATION Spec
CONSTANTS
  Null = Null
  Browsers = {b1}
  Requests = {r1}
  Ids = {i1, i2, i3}
  States = {s1}
  Users = {u1}
  Idle = 1
  Absolute = 2
  WhatHappens = {}
  Trouble <- MCTrouble
SYMMETRY Interchangeable
INVARIANT
  LogoutEndsSession
