SPECIFICATION LibrarySpec
CONSTANTS
  a1 = a1 a2 = a2 bold = bold text = text e1 = e1 e2 = e2 tag1 = tag1 tag2 = tag2
  ofl = ofl gpl = gpl pub1 = pub1 pub2 = pub2 file1 = file1 w1 = w1 w2 = w2
  None = None
  Api = {a1, a2}
  Styles = {bold, text}
  Regular = {text}
  MaxStamps = 4
  Entries = {e1, e2}
  MaxSlug = 2
  Tags = {tag1, tag2}
  Licenses = {ofl, gpl}
  Fonts = {1, 2, 3}
  Publishers = {pub1, pub2}
  PageSize = 2
  MaxTime = 2
  Files = {file1}
  MaxEvents = 4
  MaxAudit = 3
  Twins = {w1, w2}
  AuditSize = 2
INVARIANTS PackageFaithful ConflictsAreRaces CollectionDates TagsOfOneRequest
  PagesComplete AuditComplete FeedbackExplains IssuesFollowEvents TurnaroundSound
PROPERTIES DefaultKept
CHECK_DEADLOCK FALSE
