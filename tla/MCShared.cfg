SPECIFICATION SharedSpec
CONSTANTS
  Threads = {t1, t2}
  Blocks = {b1, b2, b3, b4}
  NoBlock = NoBlock
  Sizes = {0, 3, 4, 5, 15}
  Granule = 4
  Width = 16
  Capacity = 2
  Users = {u1, u2, u3}
  NoThread = none
  MaxTime = 3
  MaxLines = 3
SYMMETRY Symmetry
INVARIANTS PoolServes OneForAll TimesAreTrue
CHECK_DEADLOCK FALSE
