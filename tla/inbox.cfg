SPECIFICATION FairSpec
CONSTANTS
  latest = latest
  first = first
  ob1 = ob1
  ob2 = ob2
  Key <- MCKey
  Policy <- MCPolicy
  ObligationKey <- MCObligationKey
  Agent = {a1}
  Cadencer = {c1}
  Crasher = {a1,c1}
  Exclusive = TRUE
  MaxId = 2
  MaxTic = 2
  MaxCrash = 1
CHECK_DEADLOCK FALSE
INVARIANT TypeOK
INVARIANT ObligationOnce
INVARIANT ReceiptTruthful
INVARIANT IndexTruthful
PROPERTY MailboxSpec
PROPERTY DeferredReturns
