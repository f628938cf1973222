CONSTANTS
  o = o  a = a  t = t  r = r  c = c  d = d  w1 = w1  w2 = w2  w3 = w3  s1 = s1  s2 = s2
  Zero = Zero
  NoRequest = NoRequest
  Vendors = {v1}
  Accounts <- Everyone
  Wallets = {w1}
  Owners = {o}
  NewOwners = {d, Zero}
  Enrolments <- Registrations
  Reseatings <- Reviews
  Candidates <- Nominees
  Requesters = {}
  Nonces = {}
  Serials = {}
  SignalValues = {}
  MaxEpoch = 3
  RecoveryDelay = 2
  MaxTime = 4
SPECIFICATION Spec
INVARIANTS SeatsAreIndependent ConsentIsGenuine
PROPERTIES ApproverChangesByConsent PauseOnlyWithdraws
CHECK_DEADLOCK FALSE
