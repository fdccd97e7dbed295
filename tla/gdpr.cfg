SPECIFICATION Spec
CONSTANTS
  Users = {u1}
  Callers = {a1, a2}
  MaxRequests = 3
SYMMETRY CallerSymmetry
INVARIANTS GdprInv LoneConsentTruthful
CHECK_DEADLOCK FALSE
