CONSTANTS
  c1 = c1
  c2 = c2
  c3 = c3
  NoCall = NoCall
  Calls = {c1, c2, c3}
  Programs <- Tasks
  Params <- TwoTrusts
  MaxVersions = 2
SPECIFICATION FairSpec
INVARIANTS
  TypeOK
  AskedOnce
  LoginsGoWell
PROPERTY CallsEnd
CHECK_DEADLOCK FALSE
