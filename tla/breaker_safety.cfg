SPECIFICATION Spec
CONSTANTS
  Admins = {m1}
  Approvals = {a1, a2}
  None = None
  Mode = "paper"
  L3Days = 2
  L3Return = 2
  Returns <- MCReturns
  NavMayFail = TRUE
  MaxNow = 4
  MaxNormal = 1
  MaxCrashes = 1
INVARIANTS TypeOK ChangesAudited
PROPERTY StopNeedsFreshApproval
SYMMETRY AdminSymmetry
CHECK_DEADLOCK FALSE
