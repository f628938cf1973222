CONSTANTS
  o = o  a = a  t = t  r = r  c = c  d = d  w1 = w1  w2 = w2  w3 = w3  s1 = s1  s2 = s2
  Zero = Zero
  NoRequest = NoRequest
  Vendors = {v1}
  Accounts <- Reviewers
  Wallets = {w1, w2, w3}
  Owners = {o}
  NewOwners = {}
  Enrolments <- EitherWay
  Reseatings <- NoReviews
  Candidates = {c}
  Requesters = {o}
  Nonces = {n1}
  Serials = {s1, s2}
  SignalValues = {1}
  MaxEpoch = 2
  RecoveryDelay = 1
  MaxTime = 1
SPECIFICATION Spec
INVARIANTS HandleCountsOnce SignersHoldSeats IInv
PROPERTIES ImplementsPolicy
CONSTRAINT FewRequests
SYMMETRY Symmetry
CHECK_DEADLOCK FALSE
