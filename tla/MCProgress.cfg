SPECIFICATION ProgressSpec
CONSTANTS
  a1 = a1 fam1 = fam1 w1 = w1 pick1 = pick1 pick2 = pick2 u1 = u1 u2 = u2
  None = None
  Api = {a1}
  Families = {fam1}
  Workers = {w1}
  QueueModes = {"queue", "inline"}
  Attempts = 2
  MaxEdits = 1
  MaxJobs = 2
  MaxFailures = 2
  Picks = {pick1, pick2}
  UploadIds = {u1, u2}
  NoUpload = None
  MaxPolls = 2
  MaxLosses = 1
  PageUploads = {u1}
  NoView = None
  MaxSlips = 1
INVARIANTS PageAttended IndexSettles NoGhosts ReadyIsFinished
PROPERTIES Searchable FilesSettle PageFollows
CHECK_DEADLOCK FALSE
