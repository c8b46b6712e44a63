SPECIFICATION StoreSpec
CONSTANTS
  Agents = {a1, a2, a3}
  Names = {manager, legacy}
  Manager = manager
  Legacy = legacy
  Files = {soul}
  Upgraded = {soul}
  Notes = {n1, n2}
  Convs = {c1}
  Teams = {t1}
  MaxSuffix = 1
  MaxCmds = 4
  MaxCrashes = 1
  Nil = Nil
SYMMETRY IdSymmetry
INVARIANTS
  StoreSound
PROPERTIES
  NothingTaken
CHECK_DEADLOCK FALSE
