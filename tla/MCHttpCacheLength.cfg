SPECIFICATION Spec
CONSTANTS
  p1 = p1
  p2 = p2
  p3 = p3
  r1 = r1
  r2 = r2
  r3 = r3
  r4 = r4
  A = A
  B = B
  gone = gone
  Nothing = Nothing
  Failure = Failure
  Offline = Offline
  Requests = {r1, r3, r4}
  Processes = {p1, p2, p3}
  ProcessOf <- MCProcessOf
  Disconnected = {p3}
  TTL <- MCTTL
  Method = "GET"
  Docs = {A, B}
  Status <- MCStatus
  Length <- MCLength
  Retries = 1
  MaxTime = 1
INVARIANTS ReaderFindsItsBody
CHECK_DEADLOCK FALSE
