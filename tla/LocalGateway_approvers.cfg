CONSTANTS
  a1 = a1  a2 = a2  r1 = r1  r2 = r2  r3 = r3
  Approvers = {a1, a2}
  Reviewers = {r1, r2, r3}
  Approvals <- TwoApprovals
  Requests = {}
  Numbers = {1}
  MaxBits = 1
  MaxSignals = 3
  MaxRestarts = 0
  MaxDeploys = 1
SPECIFICATION Spec
INVARIANT ApprovalIsWhatWasSealed
CHECK_DEADLOCK FALSE
