CONSTANTS
  Absent = Absent
  Torn = Torn
  None = None
  Default = d
  Config = {d, c1, c2}
  MaxSeq = 4
  FsFaults = {"mkdir", "open", "write", "remove", "rename", "rot"}
SPECIFICATION ConfigSpec
INVARIANT
  SequenceDecides
PROPERTY
  CommitsAreAtomic
