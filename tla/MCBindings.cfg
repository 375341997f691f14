CONSTANTS
  Documents = {d1, d2}
  Executions = {q1}
  Handles = {h1, h2}
  Addresses = {a1, a2}
  NULL = NULL
  MaxIdentity = 3
  MaxChanges = 3
  MaxCalls = 1

SPECIFICATION MCSpec
SYMMETRY Symmetry
CHECK_DEADLOCK FALSE

INVARIANTS
  HandlesDenote
  OwnershipSafe

PROPERTIES
  HandlesKept
