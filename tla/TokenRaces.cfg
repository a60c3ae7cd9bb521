SPECIFICATION FairSpec
CONSTANTS
  w1 = w1
  w2 = w2
  admin = admin
  Workers = {w1, w2}
  Admin = admin
  Policies = {"rotates", "keeps", "omits"}
  Tokens = {1, 2, 3, 4, 5, 6, 7}
  MaxAuths = 2
  MaxFaults = 1
INVARIANTS TypeOK LockoutOnlyAfterFault
PROPERTIES TokenIsRenewed
