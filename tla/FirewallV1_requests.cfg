CONSTANTS
  Zero = Zero
  NoRequest = NoRequest
  NoHandle = NoHandle
  Vendors = {v1}
  Accounts = {a, b}
  Wallets = {w1, w2, w3}
  Requesters = {b}
  Nonces = {n1}
  Serials = {1, 2}
SPECIFICATION Spec
INVARIANTS TypeOK ApprovalServesOneRequest
PROPERTIES WalletMovesByApproval ImplementsPolicy
CHECK_DEADLOCK FALSE
