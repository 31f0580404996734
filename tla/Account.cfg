SPECIFICATION Spec
CONSTANTS
  ana = ana
  ben = ben
  nobody = nobody
  Accounts <- TwoAccounts
  Nobody = nobody
  MaxFaults = 2
INVARIANTS
  RunsOnOwnIdentity
  SignedOutLeavesNothing
  SignedOutForgets
  SlotHasWorker
SYMMETRY Sym
