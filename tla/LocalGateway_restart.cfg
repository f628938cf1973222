CONSTANTS
  a1 = a1  a2 = a2  r1 = r1  r2 = r2  r3 = r3
  Approvers = {}
  Reviewers = {r1, r2, r3}
  Approvals = {}
  Requests = {q1, q2}
  Numbers = {0, 1}
  MaxBits = 0
  MaxSignals = 3
  MaxRestarts = 1
  MaxDeploys = 1
SPECIFICATION Spec
INVARIANT VerdictAgreesWithContract
SYMMETRY Symmetry
CHECK_DEADLOCK FALSE
