\* Two requests that come in one chunk; an INSERT may fail.
SPECIFICATION Spec
CONSTANTS
  MaxId = 2
  Url = {u1, u2}
  Interval <- OneInterval
  NoRow = NoRow
  Faults = TRUE
  u1 = u1
  u2 = u2
  c1 = c1
  c2 = c2
  Conn = {c1}
  Chunking <- OneChunk
  MaxRequests = 2
  Method = {"DELETE", "GET", "PATCH", "POST", "PUT"}
  Number <- SmallNumbers
  Amount <- OneAmount
  Base = 4
  IntModulus = 64
  IntStrLen = 5
  Absent = Absent
  NotJson = NotJson
  NoInfo = NoInfo
INVARIANTS SaidIsMade
CHECK_DEADLOCK FALSE
