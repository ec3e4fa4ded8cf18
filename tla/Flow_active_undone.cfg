SPECIFICATION Spec
CONSTANTS
  Requests = {r1, r2}
  Clicks = {c1, c2}
  Pairs = {p1}
  Returned = {"ok", "failed", "timeout", "canceled", "error", "crashed"}
  r1 = r1
  r2 = r2
  c1 = c1
  c2 = c2
  p1 = p1
  NoRow = NoRow
SYMMETRY Symmetry
CHECK_DEADLOCK FALSE
PROPERTY CompensatesPendingOnly
