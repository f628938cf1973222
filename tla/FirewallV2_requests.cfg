CONSTANTS
  o = o  a = a  t = t  r = r  c = c  d = d  w1 = w1  w2 = w2  w3 = w3  s1 = s1  s2 = s2
  Zero = Zero
  NoRequest = NoRequest
  Vendors = {v1}
  Accounts <- Reviewers
  Wallets = {w1, w2}
  Owners = {o}
  NewOwners = {}
  Enrolments <- Registrations
  Reseatings <- Reviews
  Candidates = {}
  Requesters = {o}
  Nonces = {n1}
  Serials = {1}
  SignalValues = {0, 1, 2}
  MaxEpoch = 2
  RecoveryDelay = 1
  MaxTime = 0
SPECIFICATION Spec
INVARIANTS TypeOK VerdictIsUnanimity
PROPERTIES WalletMovesByUnanimity StaleRequestsAreInert
CHECK_DEADLOCK FALSE
