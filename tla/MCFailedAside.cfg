SPECIFICATION Spec
CONSTANTS
  u1 = u1 u2 = u2 u3 = u3 s1 = s1 s2 = s2
  a1 = a1 a2 = a2 w1 = w1 w2 = w2
  None = None
  Uploads = {u1, u2}
  Styles = {s1}
  StyleOf <- SameStyle
  Api = {a1, a2}
  Workers = {w1}
  Ops <- ContributorOps
  QueueModes = {"up"}
  MaxUploads = 2
  MaxJobs = 1
  MaxCrashes = 0
SYMMETRY Symmetry
INVARIANTS ProcessingIsWork
