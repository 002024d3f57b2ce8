SPECIFICATION Spec
CONSTANTS
  svc = svc
  app = app
  plain = plain
  secret = secret
  dev = dev
  prod = prod
  v = v
  w = w
  blank = blank
  bad = bad
  none = none
  any = any
  b1 = b1
  b2 = b2
  Product = {svc, app}
  Key = {plain, secret}
  Picky = {plain}
  Uid = {1, 2}
  EnvOrder <- MCOrder
  Flag = {1, 2}
  Typed = {v, w}
  Blank = blank
  Bad = bad
  Absent = none
  Any = any
  Browser = {b1, b2}
  Drafts <- MCDrafts
  Stores <- MCStores
  MaxPosts = 2
SYMMETRY Symmetric
INVARIANTS TypeOK ProductsAreWhole
PROPERTIES CommitIsSerial WhatLandsValidates ConfirmedIsWhatHappens EditorsKeepOthers
CHECK_DEADLOCK FALSE
