SPECIFICATION Spec
CONSTANTS
  Requests = {r1, r2, r3}
  Clicks = {c1}
  Pairs = {p1}
  Returned = {"ok", "timeout"}
  r1 = r1
  r2 = r2
  r3 = r3
  c1 = c1
  p1 = p1
  NoRow = NoRow
SYMMETRY Symmetry
CHECK_DEADLOCK FALSE
INVARIANT IInv AtMostOneLive RefreshSingleWinner DoubleOptIn OkRowStays LinkWorks
