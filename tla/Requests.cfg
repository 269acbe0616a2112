\* Two requests over two connections, a table that may hold one row;
\* statements and allocations may fail.
SPECIFICATION Spec
CONSTANTS
  MaxId = 2
  Url = {u1, u2}
  Interval <- TwoIntervals
  NoRow = NoRow
  Faults = TRUE
  u1 = u1
  u2 = u2
  c1 = c1
  c2 = c2
  Conn = {c1, c2}
  Chunking <- Chunkings
  MaxRequests = 2
  Method = {"DELETE", "GET", "PATCH", "POST"}
  Number <- SomeNumbers
  Amount <- TwoAmounts
  Base = 4
  IntModulus = 64
  IntStrLen = 5
  Absent = Absent
  NotJson = NotJson
  NoInfo = NoInfo
INVARIANTS TypeOK RequestsInv OnceOnly
PROPERTIES ChangesAsAsked PatchIsMade
SYMMETRY Urls
CHECK_DEADLOCK FALSE
