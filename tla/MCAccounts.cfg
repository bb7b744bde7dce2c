SPECIFICATION Spec
CONSTANTS
  a1 = a1 a2 = a2 t1 = t1 t2 = t2 n1 = n1 m1 = m1 m2 = m2 s1 = s1 s2 = s2
  None = None
  Api = {a1, a2}
  MaxPasswords = 4
  MaxSessions = 3
  MaxTokens = 3
  Tabs = {t1, t2}
  Logins = {a1, a2}
  Nodes = {n1}
  Threshold = 2
  Limit = 2
  Window = 1
  Lockout = 2
  MaxCount = 3
  MaxFaults = 1
  MaxCut = 1
  Mails = {m1, m2}
  MailAttempts = 3
  MaxPreviews = 2
  MaxMailFaults = 5
  Faces = {s1, s2}
  LinkTime = 1
  CopyTime = 2
INVARIANTS HeldExpires StragglersBounded LinksBounded GuessesBounded CountersExpire CopiesBounded
PROPERTIES RevokedForGood KeptSignedIn LockoutEnds MailArrives LinksEnd
CHECK_DEADLOCK FALSE
