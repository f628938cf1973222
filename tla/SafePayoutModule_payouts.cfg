CONSTANTS
  s = s  a = a  t = t  r = r  w1 = w1  w2 = w2  w3 = w3
  Zero = Zero
  NoRequest = NoRequest
  Vendors = {v1}
  Accounts = {s, a, t, r}
  Wallets = {w1, w2, w3}
  Owners = {s}
  NewOwners = {}
  Enrolments <- Registrations
  Reseatings = {}
  Candidates = {}
  Requesters = {s}
  Nonces = {n1}
  Serials = {k1, k2}  k1 = k1  k2 = k2
  SignalValues = {1}
  MaxEpoch = 1
  RecoveryDelay = 1
  MaxTime = 0
  Safe = s
  Native = Native
  Tokens = {coin, hollow}
  Hollow = {hollow}
  Amounts = {0, 1}
  MaxPayouts = 2
SPECIFICATION SystemSpec
INVARIANTS PayoutTypeOK EventsTellPayments PaidUnderPolicy
PROPERTIES PaysTheCurrentWallet
SYMMETRY Symmetry
CHECK_DEADLOCK FALSE
