SPECIFICATION Spec
CONSTANTS
  None = None
  Api = {a1, a2}
  Families = {fam1}
  Workers = {w1}
  QueueModes = {"queue"}
  Attempts = 1
  MaxEdits = 0
  MaxJobs = 2
  MaxFailures = 0
INVARIANTS IndexSettles
