CONSTANTS
  s = s  a = a  t = t  r = r  w1 = w1  w2 = w2
  Zero = Zero
  NoRequest = NoRequest
  Vendors = {v1}
  Accounts = {s, a, t, r}
  Wallets = {w1, w2}
  Owners = {s}
  NewOwners = {}
  Enrolments <- Registrations
  Reseatings = {}
  Candidates = {}
  Requesters = {a}
  Nonces = {1}
  Serials = {1}
  SignalValues = {0, 1}
  MaxEpoch = 1
  RecoveryDelay = 1
  MaxTime = 0
  DemoVendor = v1
  PROPOSED = w2
  NONCE = 1
  Users = {a, t}
  MaxPending = 1
SPECIFICATION ConsoleSpec
INVARIANTS ConsoleTypeOK PositionCountsAsChosen PositionCountsForItsAccount SettlesOneSealedRequest NoMoveReportedOfRefusal
CHECK_DEADLOCK FALSE
CONSTRAINTS Running Few
