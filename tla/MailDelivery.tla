---------------------------- MODULE MailDelivery ----------------------------
(***************************************************************************)
(* A mail is added to the mail-delivery queue, or sent by the request      *)
(* itself when there is no queue or adding fails.  A call that fails may   *)
(* have done its work: the mail is then sent again.                        *)
(***************************************************************************)
EXTENDS Naturals, Sequences, FiniteSets

CONSTANTS
  Mails,
  MailAttempts,    \* attempts of a job
  MaxPreviews,     \* previews that are kept
  MaxMailFaults    \* bound: calls to Redis and SMTP that fail

ASSUME MailAssumption ==
  MailAttempts \in Nat \ {0} /\ MaxPreviews \in Nat \ {0} /\ MaxMailFaults \in Nat

VARIABLES
  setup,      \* SMTP_URL and MAIL_QUEUE_ENABLED of this system
  mail,       \* new, sending, accepted or refused, as the request sees it
  mailJob,    \* none, waiting, done or dead
  tries,      \* attempts of its job
  sent,       \* how often a mail was sent or put among the previews
  previews,   \* what listPreviews finds in Redis or in memory, newest first
  mailFaults

mailVars == <<setup, mail, mailJob, tries, sent, previews, mailFaults>>

MailTypeOK ==
  /\ setup \in [queue: BOOLEAN, smtp: BOOLEAN]
  /\ mail \in [Mails -> {"new", "sending", "accepted", "refused"}]
  /\ mailJob \in [Mails -> {"none", "waiting", "done", "dead"}]
  /\ tries \in [Mails -> 0..MailAttempts]
  /\ sent \in [Mails -> Nat]
  /\ \A place \in {"redis", "memory"} :
       previews[place] \in Seq(Mails) /\ Len(previews[place]) <= MaxPreviews
  /\ mailFaults \in 0..MaxMailFaults

MailInit ==
  /\ setup \in [queue: BOOLEAN, smtp: BOOLEAN]
  /\ mail = [m \in Mails |-> "new"]
  /\ mailJob = [m \in Mails |-> "none"]
  /\ tries = [m \in Mails |-> 0]
  /\ sent = [m \in Mails |-> 0]
  /\ previews = [redis |-> <<>>, memory |-> <<>>]
  /\ mailFaults = 0

Fails == mailFaults < MaxMailFaults /\ mailFaults' = mailFaults + 1
Works == mailFaults' = mailFaults

Set(f, m, x) == f' = [f EXCEPT ![m] = x]

Newest(list, m) == SubSeq(<<m>> \o list, 1, IF Len(list) < MaxPreviews THEN Len(list) + 1 ELSE MaxPreviews)

\* storePreview: in Redis when the queue is configured, in memory otherwise or
\* when Redis fails, even after it has stored the preview.
StorePreview(m) ==
  LET Kept(place) == previews' = [previews EXCEPT ![place] = Newest(@, m)] IN
  \/ Works /\ Kept(IF setup.queue THEN "redis" ELSE "memory")
  \/ Fails /\ setup.queue /\ Kept("memory")
  \/ /\ Fails /\ setup.queue
     /\ previews' = [place \in {"redis", "memory"} |-> Newest(previews[place], m)]

\* deliverNow succeeds.
Deliver(m) ==
  /\ Set(sent, m, sent[m] + 1)
  /\ IF setup.smtp THEN Works /\ UNCHANGED previews ELSE StorePreview(m)

\* sendMail fails, before or after the server has taken the mail.
DeliverFails(m) ==
  /\ setup.smtp /\ Fails
  /\ sent' = sent \/ Set(sent, m, sent[m] + 1)
  /\ UNCHANGED previews

\* Mutant: a mail that could not be added counts as queued.
SwallowsError(m) ==
  /\ mail[m] = "new" /\ setup.queue
  /\ \/ Works /\ Set(mailJob, m, "waiting") /\ Set(mail, m, "accepted")
     \/ Fails /\ mailJob' = mailJob /\ Set(mail, m, "accepted")
  /\ UNCHANGED <<setup, tries, sent, previews>>

\* dispatch: queue.add, which may fail after the job is there.
Dispatch(m) ==
  /\ mail[m] = "new" /\ setup.queue
  /\ \/ Works /\ Set(mailJob, m, "waiting") /\ Set(mail, m, "accepted")
     \/ /\ Fails /\ Set(mail, m, "sending")
        /\ mailJob' = mailJob \/ Set(mailJob, m, "waiting")
  /\ UNCHANGED <<setup, tries, sent, previews>>

DispatchDirectly(m) ==
  /\ mail[m] = "sending" \/ (mail[m] = "new" /\ ~setup.queue)
  /\ \/ Deliver(m) /\ Set(mail, m, "accepted")
     \/ DeliverFails(m) /\ Set(mail, m, "refused")
  /\ UNCHANGED <<setup, mailJob, tries>>

\* Mutant: a failed job is always tried again.
RetriesForever(t) == "waiting"

\* attempts: 3
AfterFailedTry(t) == IF t = MailAttempts THEN "dead" ELSE "waiting"

\* The worker; a job that fails goes back with a delay, so others overtake it.
Work(m) ==
  /\ mailJob[m] = "waiting"
  /\ Set(tries, m, IF tries[m] < MailAttempts THEN tries[m] + 1 ELSE MailAttempts)
  /\ \/ Deliver(m) /\ Set(mailJob, m, "done")
     \/ DeliverFails(m) /\ Set(mailJob, m, AfterFailedTry(tries'[m]))
  /\ UNCHANGED <<setup, mail>>

MailNext == \E m \in Mails : Dispatch(m) \/ DispatchDirectly(m) \/ Work(m)

MailFairness == \A m \in Mails : WF_mailVars(Work(m))

MailSpec == MailInit /\ [][MailNext]_mailVars /\ MailFairness
-----------------------------------------------------------------------------
(* Properties                                                              *)

\* A request that was told that its mail is queued or sent is right, unless
\* every attempt of the job has failed.
MailArrives ==
  \A m \in Mails : mail[m] = "accepted" ~> (sent[m] > 0 \/ mailJob[m] = "dead")

\* The account holder gets a mail at most once for each attempt of its job, and
\* once more when the request sent it because it took the queue for broken.
CopiesBounded == \A m \in Mails : sent[m] <= MailAttempts + 1
=============================================================================
