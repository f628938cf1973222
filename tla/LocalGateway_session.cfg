CONSTANTS
  a1 = a1  a2 = a2  r1 = r1  r2 = r2  r3 = r3
  Approvers = {a1}
  Reviewers = {r1, r2, r3}
  Approvals <- OneApproval
  Requests = {q1}
  Numbers = {1, 2, 65536}
  MaxBits = 1
  MaxSignals = 4
  MaxRestarts = 1
  MaxDeploys = 2
SPECIFICATION Spec
INVARIANTS GatewayTypeOK VerdictIsOfItsLife ApprovalIsWhatWasSealed SealedStaysRevealable InputsAreDistinct
CONSTRAINTS OneHalf FewMinted
SYMMETRY Symmetry
CHECK_DEADLOCK FALSE
