SPECIFICATION FairSpec
CONSTANTS
  u1 = u1 u2 = u2 u3 = u3 s1 = s1 s2 = s2
  a1 = a1 a2 = a2 w1 = w1 w2 = w2
  None = None
  Uploads = {u1}
  Styles = {s1}
  StyleOf <- OneFile
  Api = {a1}
  Workers = {w1, w2}
  Ops <- RestoreOps
  QueueModes = {"up", "down"}
  MaxUploads = 1
  MaxJobs = 2
  MaxCrashes = 0
INVARIANTS ProcessingIsWork
PROPERTIES HandlersEnd ProcessingEnds JobsSettle
