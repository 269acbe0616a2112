\* One request.
SPECIFICATION Spec
CONSTANTS
  MaxId = 1
  Url = {u1, u2}
  Interval <- OneInterval
  NoRow = NoRow
  Faults = FALSE
  u1 = u1
  u2 = u2
  c1 = c1
  c2 = c2
  Conn = {c1}
  Chunking <- Chunkings
  MaxRequests = 1
  Method = {"DELETE", "GET", "PATCH", "POST", "PUT"}
  Number <- SmallNumbers
  Amount <- OneAmount
  Base = 4
  IntModulus = 64
  IntStrLen = 5
  Absent = Absent
  NotJson = NotJson
  NoInfo = NoInfo
INVARIANTS BodyAvailable
CHECK_DEADLOCK FALSE
