CONSTANTS
  user = user
  relayer = relayer
  Domains = {d1, d2}
  Assets = {a1}
  Accounts = {user, relayer}
  Amounts = {3}
  Expiries = {1, 2}
  Retention = 1
  MaxNonce = 2
  MaxHeight = 4
  Recipients = {relayer}
  Relayers = {relayer}
  InitialBalance <- Holdings
  SupplyCap = 6
  FeePpm = 700000
  MinFees = {1, 3}
  BurnExpiries = {0}
SPECIFICATION Spec
INVARIANTS PaidOutOnce ValueAccounted RefundedLockNotRelayable
CHECK_DEADLOCK FALSE
SYMMETRY Symmetry
