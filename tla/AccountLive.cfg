SPECIFICATION FairSpec
CONSTANTS
  ana = ana
  ben = ben
  nobody = nobody
  Accounts <- OneAccount
  Nobody = nobody
  MaxFaults = 1
PROPERTIES
  OwedIsDelivered
  SignOutEnds
