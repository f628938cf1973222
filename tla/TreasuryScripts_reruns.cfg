CONSTANTS
  s = s  k = k  t = t  r = r  c = c  d = d  lw = lw
  live = live  spare = spare  demo = demo
  Zero = Zero
  NoRequest = NoRequest
  Vendors = {live, spare, demo}
  Accounts = {s, k, t, r, c, d}
  Wallets = {k, lw}
  Owners = {k}
  NewOwners = {}
  Enrolments = {}
  Reseatings = {}
  Candidates = {}
  Requesters = {k}
  Nonces = {1}
  Serials = {1, 2}
  SignalValues = {1}
  MaxEpoch = 2
  RecoveryDelay = 1
  MaxTime = 1
  Safe = s
  Key = k
  TreasuryReviewer = t
  RiskReviewer = r
  RotationCandidate = c
  RecoveryCandidate = d
  LiveVendor = live
  RecoveryVendor = spare
  DemoVendor = demo
  LiveWallet = lw
  RecoveryWallet = lw
  DemoWallet = lw
  DemoSeats <- DemoReviewers
  PanelInputs <- Typed
SPECIFICATION FairScriptsSpec
INVARIANTS ScriptsTypeOK OwnedAsAWhole BlockedMeansPaused
PROPERTIES ReportedIsTrue PauseIsLifted
