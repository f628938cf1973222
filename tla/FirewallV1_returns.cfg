CONSTANTS
  Zero = Zero
  NoRequest = NoRequest
  NoHandle = NoHandle
  Vendors = {v1}
  Accounts = {a}
  Wallets = {w1, w2}
  Requesters = {a}
  Nonces = {n1, n2}
  Serials = {1, 2, 3}
SPECIFICATION Spec
PROPERTIES RefusedOnceTheWalletMoved
CHECK_DEADLOCK FALSE
