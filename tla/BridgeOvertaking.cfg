CONSTANTS
  user = user
  relayer = relayer
  Domains = {d1, d2}
  Assets = {a1, a2}
  Accounts = {user, relayer}
  Recipients = {relayer}
  Amounts = {3}
  Expiries = {1, 2}
  Retention = 1
  MaxNonce = 2
  MaxHeight = 3
  Relayers = {relayer}
  InitialBalance <- Holdings
  SupplyCap = 6
  FeePpm = 700000
  MinFees = {1}
  BurnExpiries = {}
SPECIFICATION FairSpec
PROPERTIES LockResolves OvertakenLockRefunded
CHECK_DEADLOCK FALSE
