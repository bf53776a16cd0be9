CONSTANTS
  Families <- MCFamilies
  MaxVars = 3
  n1 = n1
  text = text
  n2 = n2
  s1 = s1
  s2 = s2
  IntKeys = {n1, n2}
  Strs = {s1, s2}
  Text <- MCText
  Hash <- MCHash
  Nil = Nil
  Absent = Absent
  Cap0 = 2
  MaxHeld = 1
SPECIFICATION ValuesSpec
SYMMETRY Interchangeable
INVARIANTS NoUseAfterFree NoStaleRead OwnersCounted ProbesArrive RefsCounted
PROPERTIES ImplementsDictionary
CHECK_DEADLOCK FALSE
