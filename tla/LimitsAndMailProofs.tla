------------------------ MODULE LimitsAndMailProofs ------------------------
(***************************************************************************)
(* The limits on guessing, for any number of processes, logins and keys'   *)
(* lifetimes.  A login that fails is counted in Redis after it has tried;  *)
(* the bound follows from counting the logins between the check of the     *)
(* lock and the trial, and those between the trial and its count.  And the *)
(* copies of a mail: one for each attempt of its job, and at most one more *)
(* by the request.                                                         *)
(***************************************************************************)
EXTENDS LoginLimits, MailDelivery, SequenceTheorems, FiniteSetTheorems, TLAPS

Active == [at: Points, node: Nodes, count: 0..MaxCount]
Logging == [Logins -> {L!Idle} \cup Active]

LEMMA Constants ==
  ASSUME LimitsAssumption
  PROVE  /\ 0 \in 0..MaxCount /\ 1 \in 0..MaxCount /\ Threshold \in 0..MaxCount
         /\ 0 \in 0..Forever /\ Window \in 0..Forever /\ Lockout \in 0..Forever
         /\ Forever \in 0..Forever /\ Forever \in Nat
         /\ Window # Forever /\ Lockout # Forever /\ Forever # 0
         /\ Absent \in Entry
BY DEF LimitsAssumption, Forever, Absent, Entry

\* A login that is under way has a process and a count.
LEMMA UnderWay ==
  ASSUME LimitsTypeOK, NEW p \in Logins, login[p].at # "idle"
  PROVE  login[p] \in Active /\ login[p].at \in Points
BY DEF LimitsTypeOK, Active, L!Idle

LEMMA IdleIsNoPoint == "idle" \notin Points /\ L!Idle.at = "idle"
BY DEF Points, L!Idle

LEMMA Moves ==
  ASSUME LimitsTypeOK, NEW p \in Logins, NEW h \in {L!Idle} \cup Active,
         login' = [login EXCEPT ![p] = h]
  PROVE  login' \in Logging
BY DEF LimitsTypeOK, Active, Logging

LEMMA GotoTyped ==
  ASSUME LimitsTypeOK, NEW p \in Logins, login[p].at # "idle", NEW point \in Points,
         Goto(p, point)
  PROVE  login' \in Logging /\ login'[p].at = point /\ login'[p].count = login[p].count
         /\ \A q \in Logins \ {p} : login'[q] = login[q]
<1>1. login[p] \in Active
  BY UnderWay
<1>2. PICK h \in Active : h = [login[p] EXCEPT !.at = point]
  BY <1>1 DEF Active
<1>3. login' = [login EXCEPT ![p] = h]
  BY <1>2 DEF Goto, L!Suspend
<1>4. h.at = point /\ h.count = login[p].count
  BY <1>1, <1>2 DEF Active
<1> QED
  BY <1>3, <1>4, Moves DEF LimitsTypeOK

LEMMA FinishTyped ==
  ASSUME LimitsTypeOK, NEW p \in Logins, L!Finish(p)
  PROVE  login' \in Logging /\ login'[p].at = "idle" /\ \A q \in Logins \ {p} : login'[q] = login[q]
<1>1. login' = [login EXCEPT ![p] = L!Idle]
  BY DEF L!Finish, L!Suspend
<1> QED
  BY <1>1, Moves, IdleIsNoPoint DEF LimitsTypeOK

LEMMA OneMoreTyped ==
  ASSUME LimitsAssumption, NEW e \in Entry, NEW left \in 0..Forever
  PROVE  /\ OneMore(e, left) \in Entry
         /\ OneMore(e, left).count = IF e.count < MaxCount THEN e.count + 1 ELSE e.count
         /\ OneMore(e, left).count \in 1..MaxCount
         /\ OneMore(e, left).left = IF e.count = 0 THEN left ELSE e.left
<1>1. e.count \in 0..MaxCount /\ e.left \in 0..Forever /\ MaxCount \in Nat /\ 0 < MaxCount
  BY DEF Entry, LimitsAssumption
<1> QED
  BY <1>1 DEF OneMore, Entry

LEMMA StoresTyped ==
  ASSUME LimitsAssumption, NEW store \in Store
  PROVE  /\ \A keys : Remove(store, keys) \in Store
         /\ \A k \in Keys : Counted(store, k) \in Store
         /\ Failed(store) \in Store
         /\ Aged(store) \in Store
<1>0. \A k \in Keys : store[k] \in Entry /\ store[k].count \in 0..MaxCount /\ store[k].left \in 0..Forever
  BY DEF Store, Entry
<1>1. \A keys : Remove(store, keys) \in Store
  BY Constants DEF Remove, Store
<1>2. \A k \in Keys : Counted(store, k) \in Store
  BY <1>0, OneMoreTyped, Constants DEF Counted, Store
<1>3. Failed(store) \in Store
  <2>1. [count |-> Threshold, left |-> Lockout] \in Entry
    BY Constants DEF Entry
  <2>2. "failures" \in Keys /\ "lock" \in Keys
    BY DEF Keys
  <2>3. Counted(store, "failures") \in Store /\ Remove(Counted(store, "failures"), {"failures"}) \in Store
    <3>1. Counted(store, "failures") \in Store
      BY <1>2, <2>2
    <3> QED
      BY <3>1, Constants DEF Remove, Store
  <2>4. [Remove(Counted(store, "failures"), {"failures"}) EXCEPT
           !["lock"] = [count |-> Threshold, left |-> Lockout]] \in Store
    BY <2>1, <2>2, <2>3 DEF Store
  <2> QED
    BY <2>3, <2>4 DEF Failed
<1>4. Aged(store) \in Store
  <2>1. ASSUME NEW e \in Entry, Ticks(e)
        PROVE  [e EXCEPT !.left = @ - 1] \in Entry
    BY <2>1, Constants DEF Ticks, Entry
  <2> QED
    BY <1>0, <2>1, Constants DEF Aged, Store
<1> QED
  BY <1>1, <1>2, <1>3, <1>4

LEMMA IncrTyped ==
  ASSUME LimitsAssumption, LimitsTypeOK, NEW k \in Keys, Incr(k)
  PROVE  /\ redis' \in Store
         /\ redis'[k].count = IF redis[k].count < MaxCount THEN redis[k].count + 1
                              ELSE redis[k].count
         /\ redis'[k].left = IF redis[k].count = 0 THEN Forever ELSE redis[k].left
         /\ redis'[k].count \in 1..MaxCount
         /\ \A x \in Keys \ {k} : redis'[x] = redis[x]
<1>1. redis \in Store /\ redis[k] \in Entry /\ redis[k].count \in 0..MaxCount
  BY DEF LimitsTypeOK, Store, Entry
<1>2. redis' \in Store /\ redis'[k] = OneMore(redis[k], Forever)
      /\ \A x \in Keys \ {k} : redis'[x] = redis[x]
  BY <1>1, OneMoreTyped, Constants DEF Incr, Store
<1>3. /\ OneMore(redis[k], Forever).count = IF redis[k].count < MaxCount THEN redis[k].count + 1
                                              ELSE redis[k].count
      /\ OneMore(redis[k], Forever).left = IF redis[k].count = 0 THEN Forever ELSE redis[k].left
      /\ OneMore(redis[k], Forever).count \in 1..MaxCount
  BY <1>1, OneMoreTyped, Constants
<1> QED
  BY <1>2, <1>3

\* A login continues with its counter: what consume and recordFailure remember.
LEMMA CountTyped ==
  ASSUME LimitsTypeOK, NEW p \in Logins, login[p].at # "idle",
         NEW point \in Points, NEW c \in 0..MaxCount,
         L!Suspend(p, [login[p] EXCEPT !.count = c, !.at = point])
  PROVE  login' \in Logging /\ login'[p].at = point /\ login'[p].count = c
         /\ \A q \in Logins \ {p} : login'[q] = login[q]
<1>1. login[p] \in Active
  BY UnderWay
<1>2. PICK h \in Active : h = [login[p] EXCEPT !.count = c, !.at = point]
  BY <1>1 DEF Active
<1>3. login' = [login EXCEPT ![p] = h]
  BY <1>2 DEF L!Suspend
<1>4. h.at = point /\ h.count = c
  BY <1>1, <1>2 DEF Active
<1> QED
  BY <1>3, <1>4, Moves DEF LimitsTypeOK

\* What a command leaves alone.
LEMMA CommandFrame ==
  ASSUME NEW p, NEW point, Command(p, point)
  PROVE  login[p].at = point /\ UNCHANGED <<memory, usable, faults>>
BY DEF Command, L!At

\* A step of one login leaves the others alone.
Others(p) == \A q \in Logins \ {p} : login'[q] = login[q]

LEMMA MemoryTyped ==
  ASSUME LimitsAssumption, LimitsTypeOK, NEW p \in Logins, login[p].at # "idle", InMemory(p)
  PROVE  memory' \in [Nodes -> Store] /\ login' \in Logging /\ Others(p)
<1> DEFINE n == login[p].node
<1>1. n \in Nodes /\ memory[n] \in Store
  BY UnderWay DEF Active, LimitsTypeOK
<1>3. CASE login[p].at = "check_lock" /\ IfLocked(p, Held(memory[n])) /\ UNCHANGED memory
  BY <1>1, <1>3, GotoTyped, FinishTyped DEF IfLocked, LimitsTypeOK, Points, Others
<1>4. CASE memory' = [memory EXCEPT ![n] = Counted(memory[n], "rate")]
           /\ IfThrottled(p, Counted(memory[n], "rate")["rate"].count)
  BY <1>1, <1>4, StoresTyped, GotoTyped, FinishTyped DEF IfThrottled, LimitsTypeOK, Points, Keys, Others
<1>5. CASE memory' = [memory EXCEPT ![n] = Failed(memory[n])] /\ L!Finish(p)
  BY <1>1, <1>5, StoresTyped, FinishTyped DEF LimitsTypeOK, Others
<1>6. CASE memory' = [memory EXCEPT ![n] = Remove(memory[n], {"failures", "lock"})] /\ L!Finish(p)
  BY <1>1, <1>6, StoresTyped, FinishTyped DEF LimitsTypeOK, Others
<1> HIDE DEF n
<1> QED
  BY <1>3, <1>4, <1>5, <1>6 DEF InMemory, n

\* A command, whoever waits for its answer.
LEMMA CommandsTyped ==
  ASSUME LimitsAssumption, LimitsTypeOK
  PROVE  /\ \A k \in Keys : Expire(k) => redis' \in Store
         /\ Lock => redis' \in Store
         /\ \A keys : Delete(keys) => redis' \in Store
         /\ \A point : Executes(point) => redis' \in Store
<1>0. redis \in Store /\ "rate" \in Keys /\ "failures" \in Keys /\ "lock" \in Keys
  BY DEF LimitsTypeOK, Keys
<1>1. ASSUME NEW k \in Keys, Expire(k)
      PROVE  redis' \in Store
  BY <1>0, <1>1, Constants DEF Expire, Store, Entry
<1>2. ASSUME Lock
      PROVE  redis' \in Store
  <2>1. [count |-> 1, left |-> Lockout] \in Entry
    BY Constants DEF Entry
  <2> QED
    BY <1>0, <1>2, <2>1 DEF Lock, Store
<1>3. ASSUME NEW keys, Delete(keys)
      PROVE  redis' \in Store
  BY <1>0, <1>3, StoresTyped DEF Delete
<1>4. ASSUME NEW k \in Keys, Incr(k)
      PROVE  redis' \in Store
  BY <1>4, IncrTyped
<1>5. ASSUME NEW point, Executes(point)
      PROVE  redis' \in Store
  <2>1. \/ \E k \in Keys : Incr(k) \/ Expire(k)
        \/ Lock \/ redis' = redis
        \/ \E keys : Delete(keys)
    BY <1>0, <1>5 DEF Executes
  <2> QED
    BY <1>0, <1>1, <1>2, <1>3, <1>4, <2>1
<1> QED
  BY <1>1, <1>2, <1>3, <1>5

LEMMA AbandonTyped ==
  ASSUME NEW ended, Abandon(ended)
  PROVE  orphaned' \in SUBSET Keys
BY DEF Abandon

\* Commands and resets leave the histories alone or begin them again.
LEMMA HistoryTyped ==
  ASSUME LimitsAssumption, LimitsTypeOK, NEW keys, UNCHANGED history \/ Reset(keys)
  PROVE  /\ guesses' \in Nat /\ cut' \in 0..MaxCut
         /\ UNCHANGED <<guesses, cut>> \/ (guesses' = 0 /\ cut' = 0)
         /\ "failures" \in keys => UNCHANGED history \/ (guesses' = 0 /\ cut' = 0)
BY DEF LimitsAssumption, LimitsTypeOK, history, Reset

LEMMA StepTyped ==
  ASSUME LimitsAssumption, LimitsTypeOK, NEW p \in Logins, LoginStep(p)
  PROVE  LimitsTypeOK'
<1> USE DEF Points
<1>0. redis \in Store /\ memory \in [Nodes -> Store] /\ usable \in [Nodes -> BOOLEAN]
      /\ guesses \in Nat /\ cut \in 0..MaxCut /\ faults \in 0..MaxFaults
      /\ orphaned' \in SUBSET Keys
  BY AbandonTyped DEF LimitsTypeOK, LoginStep
<1>1. ASSUME login' \in Logging, redis' \in Store, guesses' \in Nat, cut' \in 0..MaxCut,
             UNCHANGED <<memory, usable, faults>>
      PROVE  LimitsTypeOK'
  BY <1>0, <1>1 DEF LimitsTypeOK, Logging, Active
<1> USE DEF history
<1>2. CASE CheckLock(p)
  BY <1>0, <1>1, <1>2, GotoTyped, FinishTyped, CommandFrame DEF CheckLock, IfLocked
<1>3. CASE RateTtl(p)
  BY <1>0, <1>1, <1>3, GotoTyped, FinishTyped, CommandFrame DEF RateTtl, IfThrottled
<1>4. CASE RateIncr(p)
  <2>1. redis' \in Store /\ redis'["rate"].count \in 0..MaxCount
    BY <1>4, IncrTyped DEF RateIncr, Keys
  <2>2. login' \in Logging
    <3>1. PICK point \in Points :
            L!Suspend(p, [login[p] EXCEPT !.count = redis'["rate"].count, !.at = point])
      BY <1>4 DEF RateIncr
    <3> QED
      BY <1>4, <2>1, <3>1, CountTyped, CommandFrame DEF RateIncr
  <2>3. UNCHANGED <<memory, usable, faults>> /\ guesses' = guesses /\ cut' = cut
    BY <1>4, CommandFrame DEF RateIncr
  <2> QED
    BY <1>0, <1>1, <2>1, <2>2, <2>3
<1>6. CASE RateExpire(p)
  BY <1>0, <1>1, <1>6, CommandsTyped, GotoTyped, CommandFrame DEF RateExpire, Keys
<1>7. CASE Verify(p)
  BY <1>0, <1>1, <1>7, GotoTyped, CommandFrame DEF Verify
<1>8. CASE FailCheck(p)
  BY <1>0, <1>1, <1>8, GotoTyped, FinishTyped, CommandFrame DEF FailCheck
<1>9. CASE FailIncr(p)
  <2>1. redis' \in Store /\ redis'["failures"].count \in 0..MaxCount
    BY <1>9, IncrTyped DEF FailIncr, Keys
  <2>2. login' \in Logging
    <3>1. PICK point \in Points :
            point = IF redis'["failures"].count = 1 THEN "fail_expire"
                    ELSE AfterFailure(redis'["failures"].count)
      BY DEF AfterFailure
    <3>2. L!Suspend(p, [login[p] EXCEPT !.count = redis'["failures"].count, !.at = point])
      BY <1>9, <3>1 DEF FailIncr
    <3>3. login[p].at # "idle"
      BY <1>9, CommandFrame DEF FailIncr
    <3> QED
      BY <2>1, <3>2, <3>3, CountTyped
  <2>3. UNCHANGED <<memory, usable, faults>> /\ guesses' = guesses /\ cut' = cut
    BY <1>9, CommandFrame DEF FailIncr
  <2> QED
    BY <1>0, <1>1, <2>1, <2>2, <2>3
<1>10. CASE FailExpire(p)
  BY <1>0, <1>1, <1>10, CommandsTyped, GotoTyped, CommandFrame DEF FailExpire, Keys, AfterFailure
<1>11. CASE FailTtl(p)
  BY <1>0, <1>1, <1>11, FinishTyped, CommandFrame DEF FailTtl
<1>12. CASE LockSet(p)
  BY <1>0, <1>1, <1>12, CommandsTyped, GotoTyped, CommandFrame DEF LockSet
<1>13. CASE FailDel(p) \/ Clear(p)
  <2>1. guesses' \in Nat /\ cut' \in 0..MaxCut
    BY <1>13, HistoryTyped DEF FailDel, Clear
  <2> QED
    BY <1>0, <1>1, <1>13, <2>1, CommandsTyped, FinishTyped, CommandFrame DEF FailDel, Clear
<1>14. CASE FallBack(p)
  <2>1. login[p].at # "idle"
    BY <1>14 DEF FallBack, Starts
  <2>2. memory' \in [Nodes -> Store] /\ login' \in Logging
    BY <1>14, <2>1, MemoryTyped DEF FallBack
  <2> QED
    BY <1>0, <1>14, <2>2 DEF FallBack, LimitsTypeOK, Logging, Active
<1> QED
  BY <1>2, <1>3, <1>4, <1>6, <1>7, <1>8, <1>9, <1>10, <1>11, <1>12, <1>13, <1>14 DEF LoginStep

\* The logins that a restart cuts short after a wrong password.
Cut(n) == {p \in Serving(n) : login[p].at \in Tried}

LEMMA CutCounted ==
  ASSUME LimitsAssumption, LimitsTypeOK, NEW n \in Nodes, Restart(n)
  PROVE  /\ IsFiniteSet(Cut(n)) /\ Cardinality(Cut(n)) \in Nat
         /\ cut' \in Nat /\ cut' <= MaxCut
         /\ faults = 0 => cut' = cut + Cardinality(Cut(n))
<1>1. Cut(n) \in SUBSET Logins
  BY DEF Cut, Serving
<1>2. IsFiniteSet(Cut(n)) /\ Cardinality(Cut(n)) \in Nat
  BY <1>1, FS_Subset, FS_CardinalityType DEF LimitsAssumption
<1>3. cut \in Nat
  BY DEF LimitsTypeOK
<1> QED
  BY <1>2, <1>3 DEF Restart, Cut

LEMMA NextTyped ==
  ASSUME LimitsAssumption, LimitsTypeOK, [LimitsNext]_limitVars
  PROVE  LimitsTypeOK'
<1>0. redis \in Store /\ memory \in [Nodes -> Store] /\ usable \in [Nodes -> BOOLEAN]
      /\ guesses \in Nat /\ cut \in 0..MaxCut /\ orphaned \in SUBSET Keys
      /\ faults \in 0..MaxFaults /\ login \in Logging
  BY DEF LimitsTypeOK, Logging, Active
<1>1. ASSUME login' \in Logging, redis' \in Store, memory' \in [Nodes -> Store],
             usable' \in [Nodes -> BOOLEAN], guesses' \in Nat, cut' \in 0..MaxCut,
             orphaned' \in SUBSET Keys, faults' \in 0..MaxFaults
      PROVE  LimitsTypeOK'
  BY <1>1 DEF LimitsTypeOK, Logging, Active
<1>2. ASSUME NEW p \in Logins, RedisFails(p)
      PROVE  LimitsTypeOK'
  <2>1. login[p].at # "idle"
    BY <1>2, IdleIsNoPoint DEF RedisFails
  <2>2. memory' \in [Nodes -> Store] /\ login' \in Logging
    BY <1>2, <2>1, MemoryTyped DEF RedisFails
  <2>3. usable' \in [Nodes -> BOOLEAN] /\ redis' \in Store
    BY <1>0, <1>2, CommandsTyped DEF RedisFails
  <2>4. faults' \in 0..MaxFaults
    BY <1>0, <1>2 DEF RedisFails, LimitsAssumption
  <2>5. guesses' \in Nat /\ cut' \in 0..MaxCut /\ orphaned' \in SUBSET Keys
    BY <1>2, HistoryTyped, AbandonTyped DEF RedisFails
  <2> QED BY <1>1, <2>2, <2>3, <2>4, <2>5
<1>3. ASSUME NEW p \in Logins, NEW n \in Nodes, LoginBegins(p, n)
      PROVE  LimitsTypeOK'
  <2>1. PICK h \in Active : h = [at |-> "check_lock", node |-> n, count |-> 0]
    BY Constants DEF Active, Points
  <2>2. login' \in Logging
    BY <1>3, <2>1, Moves DEF LoginBegins, L!Begin, L!Suspend
  <2> QED
    BY <1>0, <1>1, <1>3, <2>2 DEF LoginBegins, stores, history
<1>4. ASSUME NEW n \in Nodes, ClearLockout(n)
      PROVE  LimitsTypeOK'
  <2>1. redis' \in Store
    BY <1>0, <1>4, CommandsTyped DEF ClearLockout
  <2>2. memory' \in [Nodes -> Store]
    <3>1. Remove(memory[n], Keys) \in Store
      BY <1>0, StoresTyped
    <3> QED
      BY <1>0, <1>4, <3>1 DEF ClearLockout
  <2>3. guesses' \in Nat /\ cut' \in 0..MaxCut /\ orphaned' \in SUBSET Keys
    BY <1>4, HistoryTyped, AbandonTyped DEF ClearLockout, history
  <2> QED
    BY <1>0, <1>1, <1>4, <2>1, <2>2, <2>3 DEF ClearLockout
<1>5. ASSUME NEW n \in Nodes, Restart(n)
      PROVE  LimitsTypeOK'
  <2>1. login' \in Logging
    BY <1>0, <1>5 DEF Restart, Logging
  <2>2. memory' \in [Nodes -> Store]
    BY <1>0, <1>5, StoresTyped DEF Restart
  <2>3. usable' \in [Nodes -> BOOLEAN]
    BY <1>0, <1>5 DEF Restart
  <2>4. cut' \in 0..MaxCut
    BY <1>5, CutCounted DEF LimitsAssumption
  <2>5. orphaned' \in SUBSET Keys
    BY <1>5, AbandonTyped DEF Restart
  <2> QED
    BY <1>0, <1>1, <1>5, <2>1, <2>2, <2>3, <2>4, <2>5 DEF Restart
<1>6. CASE Tick
  <2>1. redis' \in Store
    BY <1>0, <1>6, StoresTyped DEF Tick
  <2>2. memory' \in [Nodes -> Store]
    BY <1>0, <1>6, StoresTyped DEF Tick
  <2>3. guesses' \in Nat /\ cut' \in 0..MaxCut
    BY <1>6, HistoryTyped DEF Tick
  <2> QED
    BY <1>0, <1>1, <1>6, <2>1, <2>2, <2>3 DEF Tick
<1>7. CASE UNCHANGED limitVars
  BY <1>0, <1>1, <1>7 DEF limitVars
<1> QED
  BY <1>2, <1>3, <1>4, <1>5, <1>6, <1>7, StepTyped DEF LimitsNext

LEMMA InitTyped ==
  ASSUME LimitsAssumption, LimitsInit
  PROVE  LimitsTypeOK
<1>1. [k \in Keys |-> Absent] \in Store
  BY Constants DEF Store
<1>2. usable \in [Nodes -> BOOLEAN]
  BY DEF LimitsInit
<1>3. 0 \in 0..MaxFaults /\ 0 \in 0..MaxCut
  BY DEF LimitsAssumption
<1> QED
  BY <1>1, <1>2, <1>3 DEF LimitsInit, LimitsTypeOK

\* Counters, locks and logins keep values of their types, the counters within
\* their bound.
THEOREM LimitsTyped == LimitsSpec => []LimitsTypeOK
BY InitTyped, NextTyped, LimitsAssumption, PTL DEF LimitsSpec

-----------------------------------------------------------------------------
(* While no command fails, all processes use Redis.                        *)

AllUsable == faults = 0 => \A n \in Nodes : usable[n]

\* Everything a step of a login does to Redis, to the guesses and to its own record.
Effect(p) ==
  LET at == login[p].at  at2 == login'[p].at  count == login'[p].count IN
  \/ /\ at = "check_lock" /\ UNCHANGED <<redis, guesses>>
     /\ at2 = IF Held(redis) THEN "idle" ELSE "rate_incr"
  \/ /\ at = "rate_incr" /\ Incr("rate") /\ guesses' = guesses
     /\ at2 = IF redis'["rate"].count = 1 THEN "rate_expire" ELSE "rate_ttl"
  \/ at = "rate_expire" /\ Expire("rate") /\ guesses' = guesses /\ at2 = "rate_ttl"
  \/ at = "rate_ttl" /\ UNCHANGED <<redis, guesses>> /\ at2 \in {"idle", "verify"}
  \/ at = "verify" /\ UNCHANGED <<redis, guesses>> /\ at2 = "clear"
  \/ /\ at = "verify" /\ redis' = redis /\ at2 = "fail_check"
     /\ guesses' = IF faults = 0 THEN guesses + 1 ELSE 0
  \/ /\ at = "fail_check" /\ UNCHANGED <<redis, guesses>>
     /\ at2 = IF Held(redis) THEN "idle" ELSE "fail_incr"
  \/ /\ at = "fail_incr" /\ Incr("failures") /\ guesses' = guesses
     /\ count = redis'["failures"].count
     /\ at2 = IF count = 1 THEN "fail_expire" ELSE AfterFailure(count)
  \/ /\ at = "fail_expire" /\ Expire("failures") /\ guesses' = guesses
     /\ at2 = AfterFailure(login[p].count)
  \/ at = "fail_ttl" /\ UNCHANGED <<redis, guesses>> /\ at2 = "idle"
  \/ /\ at = "lock_set" /\ guesses' = guesses /\ at2 = "fail_del"
     /\ Lock
  \/ at = "fail_del" /\ Delete({"failures"}) /\ guesses' = 0 /\ at2 = "idle"
  \/ at = "clear" /\ Delete({"failures", "lock"}) /\ guesses' = 0 /\ at2 = "idle"

LEMMA StepEffect ==
  ASSUME LimitsAssumption, LimitsTypeOK, NEW p \in Logins, LoginStep(p)
  PROVE  /\ Others(p) /\ UNCHANGED <<faults, usable>>
         /\ Effect(p) \/ FallBack(p)
         /\ UNCHANGED cut \/ (guesses' = 0 /\ cut' = 0)
<1> USE DEF Others, Points, history
<1>1. CASE FallBack(p)
  <2>1. login[p].at # "idle"
    BY <1>1 DEF FallBack, Starts
  <2> QED
    BY <1>1, <2>1, MemoryTyped DEF FallBack
<1>2. CASE CheckLock(p)
  <2>1. login[p].at = "check_lock" /\ UNCHANGED <<memory, usable, faults, redis, guesses, cut>>
    BY <1>2, CommandFrame DEF CheckLock
  <2>2. Others(p) /\ login'[p].at = IF Held(redis) THEN "idle" ELSE "rate_incr"
    <3>1. CASE Held(redis)
      BY <1>2, <3>1, FinishTyped DEF CheckLock, IfLocked
    <3>2. CASE ~Held(redis)
      BY <1>2, <2>1, <3>2, GotoTyped DEF CheckLock, IfLocked
    <3> QED BY <3>1, <3>2
  <2> QED BY <2>1, <2>2 DEF Effect
<1>3. CASE RateIncr(p)
  <2>1. redis'["rate"].count \in 0..MaxCount
    BY <1>3, IncrTyped DEF RateIncr, Keys
  <2>2. PICK point \in Points :
          /\ point = IF redis'["rate"].count = 1 THEN "rate_expire" ELSE "rate_ttl"
          /\ L!Suspend(p, [login[p] EXCEPT !.count = redis'["rate"].count, !.at = point])
    BY <1>3 DEF RateIncr
  <2>3. login[p].at = "rate_incr" /\ UNCHANGED <<memory, usable, faults>>
    BY <1>3, CommandFrame DEF RateIncr
  <2>4. login'[p].at = point /\ Others(p)
    <3>1. login[p].at # "idle" /\ point \in Points
      BY <2>2, <2>3
    <3> QED BY <2>1, <2>2, <3>1, CountTyped
  <2> QED
    BY <1>3, <2>2, <2>3, <2>4 DEF RateIncr, Effect
<1>4. CASE RateExpire(p)
  BY <1>4, GotoTyped, CommandFrame DEF RateExpire, Effect
<1>5. CASE RateTtl(p)
  BY <1>5, GotoTyped, FinishTyped, CommandFrame DEF RateTtl, IfThrottled, Effect
<1>6. CASE Verify(p)
  BY <1>6, GotoTyped, CommandFrame DEF Verify, Effect
<1>7. CASE FailCheck(p)
  BY <1>7, GotoTyped, FinishTyped, CommandFrame DEF FailCheck, Effect
<1>8. CASE FailIncr(p)
  <2>1. PICK c \in 0..MaxCount : c = redis'["failures"].count
    BY <1>8, IncrTyped DEF FailIncr, Keys
  <2>2. PICK point \in Points : point = IF c = 1 THEN "fail_expire" ELSE AfterFailure(c)
    BY DEF AfterFailure
  <2>3. L!Suspend(p, [login[p] EXCEPT !.count = c, !.at = point])
    BY <1>8, <2>1, <2>2 DEF FailIncr
  <2>4. login[p].at = "fail_incr" /\ UNCHANGED <<memory, usable, faults>>
    BY <1>8, CommandFrame DEF FailIncr
  <2>5. login'[p].at = point /\ login'[p].count = c /\ Others(p)
    BY <2>3, <2>4, CountTyped
  <2>6. Incr("failures") /\ guesses' = guesses
    BY <1>8 DEF FailIncr
  <2>7. UNCHANGED <<cut, usable, faults>>
    BY <1>8, <2>4 DEF FailIncr
  <2> QED
    BY <2>1, <2>2, <2>4, <2>5, <2>6, <2>7 DEF Effect
<1>9. CASE FailExpire(p)
  BY <1>9, GotoTyped, CommandFrame DEF FailExpire, AfterFailure, Effect
<1>10. CASE FailTtl(p)
  BY <1>10, FinishTyped, CommandFrame DEF FailTtl, Effect
<1>11. CASE LockSet(p)
  BY <1>11, GotoTyped, CommandFrame DEF LockSet, Effect
<1>12. CASE FailDel(p) \/ Clear(p)
  BY <1>12, FinishTyped, CommandFrame DEF FailDel, Clear, Reset, Effect
<1> QED
  BY <1>1, <1>2, <1>3, <1>4, <1>5, <1>6, <1>7, <1>8, <1>9, <1>10, <1>11, <1>12 DEF LoginStep

\* What happens to Redis between the steps of logins.
LEMMA TickEffect ==
  ASSUME LimitsAssumption, LimitsTypeOK, Tick
  PROVE  /\ UNCHANGED <<usable, login, faults>>
         /\ \A k \in Keys : \/ redis'[k] = redis[k]
                            \/ redis'[k] = Absent
                            \/ /\ redis'[k].count = redis[k].count /\ redis[k].left # 0
                               /\ redis'[k].left # Forever
         /\ guesses' \in {0, guesses}
         /\ \A k \in {"failures", "lock"} :
              redis[k].count > 0 /\ redis'[k].count = 0 => guesses' = 0
<1>1. ASSUME NEW k \in Keys
      PROVE  \/ redis'[k] = redis[k]
             \/ redis'[k] = Absent
             \/ /\ redis'[k].count = redis[k].count /\ redis[k].left # 0
                /\ redis'[k].left # Forever
  <2>1. redis[k] \in Entry /\ redis'[k] = Aged(redis)[k]
    BY DEF Tick, LimitsTypeOK, Store
  <2>2. CASE Ticks(redis[k]) /\ redis[k].left # 1
    <3>1. redis'[k] = [redis[k] EXCEPT !.left = @ - 1]
      BY <2>1, <2>2 DEF Aged
    <3>2. redis[k].left \in 1..(Forever - 1) /\ Forever \in Nat
      BY <2>2, Constants DEF Ticks
    <3> QED
      BY <2>1, <3>1, <3>2 DEF Entry
  <2> QED
    BY <2>1, <2>2 DEF Aged
<1>2. guesses' \in {0, guesses} /\ UNCHANGED <<usable, login, faults>>
  BY DEF Tick, Reset, history
<1>3. \A k \in {"failures", "lock"} : redis[k].count > 0 /\ redis'[k].count = 0 => guesses' = 0
  BY DEF Tick, Reset
<1> QED
  BY <1>1, <1>2, <1>3

LEMMA StaysUsable ==
  ASSUME LimitsAssumption, LimitsTypeOK, AllUsable, [LimitsNext]_limitVars
  PROVE  AllUsable' /\ (faults' = 0 => faults = 0)
<1>0. faults \in Nat /\ usable \in [Nodes -> BOOLEAN]
  BY DEF LimitsTypeOK
<1>1. ASSUME NEW p \in Logins, LoginStep(p)
      PROVE  UNCHANGED <<faults, usable>>
  BY <1>1 DEF LoginStep, CheckLock, RateIncr, RateExpire, RateTtl, Verify, FailCheck, FailIncr,
              FailExpire, FailTtl, LockSet, FailDel, Clear, FallBack, Command
<1>2. ASSUME NEW p \in Logins, RedisFails(p)
      PROVE  faults' = faults + 1
  BY <1>2 DEF RedisFails
<1>3. ASSUME NEW p \in Logins, NEW n \in Nodes, LoginBegins(p, n)
      PROVE  UNCHANGED <<faults, usable>>
  BY <1>3 DEF LoginBegins
<1>4. ASSUME NEW n \in Nodes, ClearLockout(n) \/ Restart(n)
      PROVE  faults' = faults /\ (usable' = usable \/ usable' = [usable EXCEPT ![n] = TRUE])
  BY <1>4 DEF ClearLockout, Restart
<1>5. CASE Tick \/ UNCHANGED limitVars
  BY <1>5 DEF Tick, limitVars, AllUsable
<1> QED
  BY <1>0, <1>1, <1>2, <1>3, <1>4, <1>5 DEF LimitsNext, AllUsable

-----------------------------------------------------------------------------
(* Counters in Redis expire.                                               *)

Expires(k) ==
  /\ redis[k].count = 0 => redis[k].left = 0
  /\ redis[k].left = Forever => k \in orphaned \/ \E p \in Logins : login[p].at = Expirer(k)

\* A lock is always set with its time to live.
CountersOK ==
  /\ Expires("rate") /\ Expires("failures")
  /\ redis["lock"].left # Forever

\* A counter with a time to live needs no login for it.
LEMMA TimedExpires ==
  ASSUME NEW k, redis'[k].left # Forever, redis'[k].count = 0 => redis'[k].left = 0
  PROVE  Expires(k)'
BY DEF Expires

\* Nothing happens to a counter, but some logins end.
LEMMA StillExpires ==
  ASSUME NEW k \in {"rate", "failures"}, Expires(k), NEW ended, Abandon(ended),
         \A q \in Logins : login[q].at = Expirer(k) => login'[q] = login[q] \/ q \in ended,
         redis'[k].left = redis[k].left, redis'[k].count = 0 => redis[k].count = 0
  PROVE  Expires(k)'
<1>1. k \in Keys
  BY DEF Keys
<1> QED
  BY <1>1 DEF Expires, Abandon

\* INCR leaves a counter to the login that made it.
LEMMA IncrExpires ==
  ASSUME LimitsAssumption, LimitsTypeOK, NEW k \in {"rate", "failures"}, Incr(k), Expires(k),
         NEW p \in Logins, Others(p), login[p].at # Expirer(k), NEW ended, Abandon(ended),
         ended # {} \/ (redis'[k].count = 1 => login'[p].at = Expirer(k))
  PROVE  Expires(k)'
<1>1. k \in Keys /\ redis[k].count \in 0..MaxCount /\ MaxCount \in Nat /\ MaxCount > 0
  BY DEF Keys, Store, Entry, LimitsAssumption, LimitsTypeOK
<1>2. /\ redis'[k].count \in 1..MaxCount
      /\ redis'[k].left = IF redis[k].count = 0 THEN Forever ELSE redis[k].left
      /\ redis'[k].count = IF redis[k].count < MaxCount THEN redis[k].count + 1
                           ELSE redis[k].count
  BY <1>1, IncrTyped
<1>3. CASE redis[k].count = 0
  <2>1. redis[k].left # Forever /\ redis'[k].count = 1
    BY <1>1, <1>2, <1>3, Constants DEF Expires
  <2>2. CASE ended # {}
    BY <1>1, <1>2, <1>3, <2>1, <2>2 DEF Abandon, Expires
  <2>3. CASE login'[p].at = Expirer(k)
    BY <2>1, <2>3 DEF Expires
  <2> QED BY <2>1, <2>2, <2>3
<1>4. CASE redis[k].count # 0
  BY <1>1, <1>2, <1>4, StillExpires DEF Others
<1> QED BY <1>3, <1>4

\* A command of a login, which goes on when it is answered and ends if it is not.
LEMMA CommandExpires ==
  ASSUME LimitsAssumption, LimitsTypeOK, CountersOK, NEW p \in Logins, Others(p),
         NEW ended, Abandon(ended),
         UNCHANGED redis \/ Executes(login[p].at),
         ended = {p} \/ /\ ended = {}
                        /\ login[p].at \in {"rate_expire", "fail_expire"} => Executes(login[p].at)
                        /\ \A k \in {"rate", "failures"} :
                             (redis[k].count = 0 /\ redis'[k].count = 1) => login'[p].at = Expirer(k)
  PROVE  CountersOK'
<1> USE DEF CountersOK
<1>1. redis \in Store /\ "rate" \in Keys /\ "failures" \in Keys /\ "lock" \in Keys
      /\ Expirer("rate") = "rate_expire" /\ Expirer("failures") = "fail_expire"
      /\ Forever # 0 /\ Window # Forever /\ Lockout # Forever
      /\ Absent.left = 0 /\ Absent.count = 0
  BY Constants DEF LimitsTypeOK, Keys, Expirer, Absent
<1>2. ASSUME NEW k \in {"rate", "failures"}, redis'[k] = redis[k],
             ended = {p} \/ login[p].at # Expirer(k)
      PROVE  Expires(k)'
  BY <1>2, StillExpires DEF Others
<1>3. CASE redis' = redis /\ (ended = {p} \/ login[p].at \notin {"rate_expire", "fail_expire"})
  BY <1>1, <1>2, <1>3
<1>4. ASSUME NEW k \in {"rate", "failures"}, Incr(k),
             login[p].at \in {"rate_incr", "fail_incr"}
      PROVE  CountersOK'
  <2>0. k \in Keys /\ redis[k].count \in 0..MaxCount /\ MaxCount \in Nat /\ MaxCount > 0
    BY <1>1 DEF Store, Entry, LimitsAssumption
  <2>1. /\ \A x \in Keys \ {k} : redis'[x] = redis[x]
        /\ redis'[k].left = IF redis[k].count = 0 THEN Forever ELSE redis[k].left
    BY <1>1, <1>4, IncrTyped
  <2>2. login[p].at # Expirer(k) /\ login[p].at \notin {"rate_expire", "fail_expire"}
    BY <1>4 DEF Expirer
  <2>3. Expires(k)'
    <3>1. CASE ended = {p}
      BY <1>4, <2>2, <3>1, IncrExpires
    <3>2. CASE ended = {} /\ redis[k].count = 0
      BY <1>4, <2>0, <2>2, <3>2, IncrExpires
    <3>3. CASE ended = {} /\ redis[k].count # 0
      <4>1. redis'[k].count # 0
        BY <1>4, <2>0, IncrTyped
      <4> QED
        BY <2>1, <2>2, <3>3, <4>1, StillExpires DEF Others
    <3> QED BY <3>1, <3>2, <3>3
  <2>4. \A x \in {"rate", "failures"} \ {k} : Expires(x)'
    BY <1>1, <1>2, <2>1, <2>2
  <2> QED BY <1>1, <2>1, <2>3, <2>4
<1>5. ASSUME NEW k \in {"rate", "failures"}, Expire(k), login[p].at = Expirer(k)
      PROVE  CountersOK'
  <2>1. Expires(k)'
    BY <1>1, <1>5 DEF Expire, Expires, Store, Entry
  <2>2. \A x \in Keys \ {k} : redis'[x] = redis[x]
    BY <1>1, <1>5 DEF Expire, Store
  <2>3. \A x \in {"rate", "failures"} \ {k} : Expires(x)'
    BY <1>1, <1>2, <1>5, <2>2
  <2> QED BY <1>1, <2>1, <2>2, <2>3
<1>6. CASE Lock /\ login[p].at = "lock_set"
  <2>1. /\ redis'["lock"].left = Lockout
        /\ \A x \in {"rate", "failures"} : redis'[x] = redis[x]
    BY <1>1, <1>6 DEF Store, Lock
  <2> QED BY <1>1, <1>2, <1>6, <2>1
<1>7. ASSUME NEW keys, Delete(keys), login[p].at \in {"fail_del", "clear"}
      PROVE  CountersOK'
  <2>1. \A k \in Keys : redis'[k] = redis[k] \/ redis'[k] = Absent
    BY <1>1, <1>7 DEF Remove, Store, Delete
  <2>2. \A k \in {"rate", "failures"} : redis'[k] = Absent => Expires(k)'
    BY <1>1, TimedExpires
  <2>3. \A k \in {"rate", "failures"} : redis'[k] = redis[k] => Expires(k)'
    BY <1>1, <1>2, <1>7
  <2> QED BY <1>1, <2>1, <2>2, <2>3
<1>8. CASE Executes(login[p].at)
  <2>1. CASE login[p].at \in {"rate_incr", "fail_incr"}
    BY <1>4, <1>8, <2>1 DEF Executes
  <2>2. CASE login[p].at \in {"rate_expire", "fail_expire"}
    BY <1>1, <1>5, <1>8, <2>2 DEF Executes
  <2>3. CASE login[p].at = "lock_set"
    BY <1>6, <1>8, <2>3 DEF Executes
  <2>4. CASE login[p].at \in {"fail_del", "clear"}
    BY <1>7, <1>8, <2>4 DEF Executes
  <2>5. CASE login[p].at \notin {"rate_incr", "fail_incr", "rate_expire", "fail_expire", "lock_set",
                                 "fail_del", "clear"}
    BY <1>3, <1>8, <2>5 DEF Executes
  <2> QED BY <2>1, <2>2, <2>3, <2>4, <2>5
<1> QED
  BY <1>3, <1>8

LEMMA StepExpires ==
  ASSUME LimitsAssumption, LimitsTypeOK, CountersOK, NEW p \in Logins, LoginStep(p)
  PROVE  CountersOK'
<1>0. Others(p) /\ (Effect(p) \/ FallBack(p)) /\ Abandon({})
  BY StepEffect DEF LoginStep
<1>1. CASE FallBack(p)
  <2>1. redis' = redis /\ login[p].at \notin {"rate_expire", "fail_expire"}
    BY <1>1 DEF FallBack, Starts
  <2>2. \A k \in {"rate", "failures"} : ~(redis[k].count = 0 /\ redis'[k].count = 1)
    BY <2>1
  <2> QED
    BY <1>0, <2>1, <2>2, CommandExpires
<1>2. CASE Effect(p)
  <2>1. UNCHANGED redis \/ Executes(login[p].at)
    BY <1>2 DEF Effect, Executes
  <2>2. login[p].at \in {"rate_expire", "fail_expire"} => Executes(login[p].at)
    BY <1>2 DEF Effect, Executes
  <2>3. ASSUME NEW k \in {"rate", "failures"}, redis[k].count = 0, redis'[k].count = 1
        PROVE  login'[p].at = Expirer(k)
    <3>0. redis \in Store /\ k \in Keys /\ "rate" \in Keys /\ "failures" \in Keys
      BY DEF LimitsTypeOK, Keys
    <3>1. CASE login[p].at = "rate_incr"
      BY <1>2, <2>3, <3>0, <3>1, IncrTyped DEF Effect, Expirer
    <3>2. CASE login[p].at = "fail_incr"
      BY <1>2, <2>3, <3>0, <3>2, IncrTyped DEF Effect, Expirer
    <3>3. CASE login[p].at \in {"rate_expire", "fail_expire"}
      BY <1>2, <2>3, <3>0, <3>3 DEF Effect, Expire, Store, Entry
    <3>4. CASE login[p].at = "lock_set"
      BY <1>2, <2>3, <3>0, <3>4 DEF Effect, Lock, Store
    <3>5. CASE login[p].at \in {"fail_del", "clear"}
      BY <1>2, <2>3, <3>0, <3>5 DEF Effect, Delete, Remove, Absent
    <3>6. CASE login[p].at \notin {"rate_incr", "fail_incr", "rate_expire", "fail_expire",
                                   "lock_set", "fail_del", "clear"}
      BY <1>2, <2>3, <3>6 DEF Effect
    <3> QED BY <3>1, <3>2, <3>3, <3>4, <3>5, <3>6
  <2> QED
    BY <1>0, <2>1, <2>2, <2>3, CommandExpires
<1> QED BY <1>0, <1>1, <1>2

LEMMA NextCounters ==
  ASSUME LimitsAssumption, LimitsTypeOK, CountersOK, [LimitsNext]_limitVars
  PROVE  CountersOK'
<1> USE DEF CountersOK
<1>1. Absent.left = 0 /\ Absent.count = 0 /\ Forever # 0
  BY Constants DEF Absent
<1>2. CASE \E p \in Logins : LoginStep(p)
  BY <1>2, StepExpires
<1>3. ASSUME NEW p \in Logins, RedisFails(p)
      PROVE  CountersOK'
  <2>1. login[p].at # "idle"
    BY <1>3, IdleIsNoPoint DEF RedisFails
  <2>2. Others(p) /\ Abandon({p}) /\ (UNCHANGED redis \/ Executes(login[p].at))
    BY <1>3, <2>1, MemoryTyped DEF RedisFails
  <2> QED BY <2>2, CommandExpires
<1>4. ASSUME redis' = redis, NEW ended, Abandon(ended),
             \A q \in Logins : login'[q] = login[q] \/ q \in ended
      PROVE  CountersOK'
  BY <1>4, StillExpires
<1>5. ASSUME NEW p \in Logins, NEW n \in Nodes, LoginBegins(p, n)
      PROVE  CountersOK'
  <2>1. redis' = redis /\ orphaned' = orphaned /\ Others(p) /\ login[p].at = "idle"
    BY <1>5 DEF LoginBegins, L!Begin, L!Suspend, L!At, stores, Others, LimitsTypeOK
  <2> QED BY <2>1 DEF Expires, Expirer, Others
<1>6. ASSUME NEW n \in Nodes, ClearLockout(n)
      PROVE  CountersOK'
  <2>1. CASE usable[n]
    <3>1. \A k \in Keys : redis'[k] = Absent
      BY <1>6, <2>1 DEF ClearLockout, Remove, Delete
    <3> QED BY <1>1, <3>1, TimedExpires DEF Keys
  <2>2. CASE ~usable[n]
    BY <1>4, <1>6, <2>2 DEF ClearLockout
  <2> QED BY <2>1, <2>2
<1>7. ASSUME NEW n \in Nodes, Restart(n)
      PROVE  CountersOK'
  <2>1. redis' = redis /\ Abandon(Serving(n))
    BY <1>7 DEF Restart
  <2>2. \A q \in Logins : login'[q] = login[q] \/ q \in Serving(n)
    BY <1>7 DEF Restart
  <2> QED BY <1>4, <2>1, <2>2
<1>8. CASE Tick
  <2>1. UNCHANGED <<login, orphaned>>
    BY <1>8 DEF Tick
  <2>2. \A k \in {"rate", "failures"} : Expires(k)'
    BY <1>1, <1>8, <2>1, TickEffect DEF Expires, Keys
  <2>3. redis'["lock"].left # Forever
    BY <1>1, <1>8, TickEffect DEF Keys
  <2> QED BY <2>2, <2>3
<1>9. CASE UNCHANGED limitVars
  BY <1>9 DEF limitVars, Expires
<1> QED
  BY <1>2, <1>3, <1>5, <1>6, <1>7, <1>8, <1>9 DEF LimitsNext

LEMMA InitCounters ==
  ASSUME LimitsAssumption, LimitsInit
  PROVE  CountersOK /\ AllUsable
<1>1. \A k \in Keys : redis[k].count = 0 /\ redis[k].left = 0
  BY DEF LimitsInit, Absent
<1>2. AllUsable
  BY DEF LimitsInit, AllUsable
<1> QED
  BY <1>1, <1>2, Constants DEF CountersOK, Expires, Keys

\* Whatever fails and whenever processes die, a counter in Redis has a time to
\* live, or a login is about to set it, or the login that created it ended
\* between INCR and EXPIRE.
THEOREM NoCounterForGood == LimitsSpec => []CountersExpire
<1>1. CountersOK => CountersExpire
  BY DEF CountersOK, CountersExpire, Expires, L!At, Keys
<1> QED
  BY <1>1, InitTyped, NextTyped, InitCounters, NextCounters, LimitsAssumption, PTL DEF LimitsSpec

-----------------------------------------------------------------------------
(* Guesses.  As long as the account is not locked, every guess is among the *)
(* counted failures, of which Threshold - 1 do not stop their login, or is  *)
(* of a login that has not counted it or is about to lock.  Once it is      *)
(* locked, only logins that passed the check before can still guess.        *)

Before == {"rate_incr", "rate_expire", "rate_ttl", "verify"}
After(h) == \/ h.at \in {"fail_check", "fail_incr", "lock_set"}
            \/ h.at = "fail_expire" /\ h.count >= Threshold

Trying == {p \in Logins : login[p].at \in Before}
Failing == {p \in Logins : After(login[p])}
Harmless == IF redis["failures"].count < Threshold THEN redis["failures"].count
            ELSE Threshold - 1

GuessesOK ==
  faults = 0 =>
    /\ Held(redis) => guesses + Cardinality(Trying) < Threshold + Cardinality(Logins) + cut
    /\ ~Held(redis) => guesses <= Harmless + Cardinality(Failing) + cut

One(b) == IF b THEN 1 ELSE 0

LEMMA OneChanges ==
  ASSUME NEW S, NEW T, IsFiniteSet(S), IsFiniteSet(T), NEW p, S \ {p} = T \ {p}
  PROVE  Cardinality(T) = Cardinality(S) - One(p \in S) + One(p \in T)
<1>1. Cardinality(S) \in Nat /\ Cardinality(T) \in Nat
  BY FS_CardinalityType
<1>2. Cardinality(S \ {p}) = Cardinality(S) - One(p \in S)
  BY <1>1, FS_RemoveElement DEF One
<1>3. Cardinality(T \ {p}) = Cardinality(T) - One(p \in T)
  BY <1>1, FS_RemoveElement DEF One
<1>4. Cardinality(S \ {p}) = Cardinality(T \ {p})
  OBVIOUS
<1> HIDE DEF One
<1>5. One(p \in S) \in Nat /\ One(p \in T) \in Nat
  BY DEF One
<1> QED
  BY <1>1, <1>2, <1>3, <1>4, <1>5

LEMMA LoginsCounted ==
  ASSUME LimitsAssumption
  PROVE  /\ IsFiniteSet(Trying) /\ IsFiniteSet(Failing)
         /\ Cardinality(Trying) \in Nat /\ Cardinality(Failing) \in Nat
         /\ Cardinality(Logins) \in Nat
         /\ Cardinality(Trying) + Cardinality(Failing) <= Cardinality(Logins)
<1>1. Trying \in SUBSET Logins /\ Failing \in SUBSET Logins /\ Trying \cup Failing \in SUBSET Logins
  BY DEF Trying, Failing
<1>2. /\ IsFiniteSet(Trying) /\ IsFiniteSet(Failing)
      /\ Cardinality(Trying) \in Nat /\ Cardinality(Failing) \in Nat
      /\ Cardinality(Logins) \in Nat
      /\ Cardinality(Trying \cup Failing) <= Cardinality(Logins)
  BY <1>1, FS_Subset, FS_CardinalityType DEF LimitsAssumption
<1>3. Trying \cap Failing = {}
  BY DEF Trying, Failing, Before, After
<1>4. Cardinality(Trying \cup Failing) = Cardinality(Trying) + Cardinality(Failing) - Cardinality({})
  BY <1>2, <1>3, FS_Union
<1>5. Cardinality({}) = 0
  BY FS_EmptySet
<1> QED
  BY <1>2, <1>4, <1>5

\* A step of a login moves that login alone in or out of the two sets.
LEMMA Moved ==
  ASSUME LimitsAssumption, LimitsTypeOK, LimitsTypeOK', NEW p \in Logins, Others(p)
  PROVE  /\ Cardinality(Trying') = Cardinality(Trying) - One(login[p].at \in Before)
                                                       + One(login'[p].at \in Before)
         /\ Cardinality(Failing') = Cardinality(Failing) - One(After(login[p]))
                                                         + One(After(login'[p]))
<1>1. Trying \ {p} = Trying' \ {p} /\ Failing \ {p} = Failing' \ {p}
  BY DEF Trying, Failing, Others, After
<1>2. Trying' \in SUBSET Logins /\ Failing' \in SUBSET Logins
  BY DEF Trying, Failing
<1>3. IsFiniteSet(Trying') /\ IsFiniteSet(Failing') /\ IsFiniteSet(Trying) /\ IsFiniteSet(Failing)
  BY <1>2, LoginsCounted, FS_Subset DEF LimitsAssumption
<1>4. /\ Cardinality(Trying') = Cardinality(Trying) - One(p \in Trying) + One(p \in Trying')
      /\ Cardinality(Failing') = Cardinality(Failing) - One(p \in Failing) + One(p \in Failing')
  BY <1>1, <1>3, OneChanges
<1>5. /\ One(p \in Trying) = One(login[p].at \in Before)
      /\ One(p \in Trying') = One(login'[p].at \in Before)
      /\ One(p \in Failing) = One(After(login[p]))
      /\ One(p \in Failing') = One(After(login'[p]))
  BY DEF One, Trying, Failing
<1> QED
  BY <1>4, <1>5

LEMMA StepGuesses ==
  ASSUME LimitsAssumption, LimitsTypeOK, LimitsTypeOK', AllUsable, faults = 0,
         NEW p \in Logins, LoginStep(p), GuessesOK
  PROVE  GuessesOK'
<1> DEFINE at == login[p].at
           at2 == login'[p].at
           Tr == Cardinality(Trying)
           Fa == Cardinality(Failing)
           Tr2 == Cardinality(Trying')
           Fa2 == Cardinality(Failing')
           N == Cardinality(Logins)
<1>a. ~FallBack(p)
  BY UnderWay DEF FallBack, AllUsable, Starts, Active, Points
<1>0. Others(p) /\ Effect(p) /\ faults' = 0 /\ (cut' = cut \/ guesses' = 0)
  BY <1>a, StepEffect
<1>1. /\ redis \in Store /\ redis' \in Store /\ guesses \in Nat /\ Threshold \in Nat \ {0}
      /\ cut \in Nat /\ cut' \in Nat
  BY DEF LimitsTypeOK, LimitsAssumption
<1>2. /\ redis["failures"].count \in Nat /\ redis["lock"].count \in Nat
      /\ Harmless \in 0..(Threshold - 1)
  BY <1>1 DEF Store, Entry, Keys, Harmless
<1>3. Tr \in Nat /\ Fa \in Nat /\ N \in Nat /\ Tr + Fa <= N
  BY LoginsCounted
<1>4. /\ Tr2 = Tr - One(at \in Before) + One(at2 \in Before)
      /\ Fa2 = Fa - One(After(login[p])) + One(After(login'[p]))
  BY <1>0, Moved
<1>5. /\ Held(redis) => guesses + Tr < Threshold + N + cut
      /\ ~Held(redis) => guesses <= Harmless + Fa + cut
  BY DEF GuessesOK
<1>6. GuessesOK' <=> /\ Held(redis') => guesses' + Tr2 < Threshold + N + cut'
                     /\ ~Held(redis') => guesses' <= Harmless' + Fa2 + cut'
  BY <1>0 DEF GuessesOK
<1>7. Trying' \in SUBSET Logins /\ Failing' \in SUBSET Logins
  BY DEF Trying, Failing
<1>8. Tr2 \in Nat /\ Fa2 \in Nat /\ Tr2 <= N
  BY <1>7, FS_Subset, FS_CardinalityType DEF LimitsAssumption
<1> HIDE DEF Tr, Fa, Tr2, Fa2, N
<1>9. CASE guesses' = 0
  <2>1. PICK c \in Nat, h \in Nat : c = cut' /\ h = Harmless'
    BY <1>1 DEF Harmless, Store, Entry, Keys
  <2>2. 0 + Tr2 < Threshold + N + c /\ 0 <= h + Fa2 + c
    BY <1>1, <1>3, <1>8
  <2> QED
    BY <1>6, <1>9, <2>1, <2>2
<1> USE DEF One, Before, After
\* The step leaves the failures and the lock alone, and counts no guess.
<1>10. ASSUME redis'["failures"].count = redis["failures"].count,
              redis'["lock"].count = redis["lock"].count, guesses' = guesses, cut' = cut,
              at2 \in Before => at \in Before \/ ~Held(redis),
              After(login[p]) => After(login'[p]) \/ Held(redis)
       PROVE  GuessesOK'
  <2>1. (Held(redis') <=> Held(redis)) /\ Harmless' = Harmless
    BY <1>10 DEF Held, Harmless
  <2>2. CASE Held(redis)
    BY <1>1, <1>3, <1>4, <1>5, <1>6, <1>8, <1>10, <2>1, <2>2
  <2>3. CASE ~Held(redis)
    BY <1>1, <1>2, <1>3, <1>4, <1>5, <1>6, <1>8, <1>10, <2>1, <2>3
  <2> QED BY <2>2, <2>3
<1>c. SUFFICES ASSUME cut' = cut
              PROVE  GuessesOK'
  BY <1>0, <1>9
<1>11. CASE at = "check_lock" \/ at = "rate_ttl" \/ at = "fail_ttl" \/ at = "fail_check"
            \/ (at = "verify" /\ at2 = "clear")
  <2>1. UNCHANGED <<redis, guesses>> /\ (at2 \in Before => at \in Before \/ ~Held(redis))
        /\ (After(login[p]) => After(login'[p]) \/ Held(redis))
    BY <1>0, <1>11 DEF Effect
  <2> QED BY <1>c, <1>10, <2>1
<1>12. CASE at \in {"rate_incr", "rate_expire"}
  <2>1. /\ redis'["failures"] = redis["failures"] /\ redis'["lock"] = redis["lock"]
        /\ guesses' = guesses /\ at2 \in {"rate_expire", "rate_ttl"}
    BY <1>0, <1>1, <1>12, IncrTyped DEF Effect, Keys, Expire, Store
  <2> QED BY <1>c, <1>10, <1>12, <2>1
<1>13. CASE at = "verify" /\ at2 = "fail_check"
  <2>1. redis' = redis /\ guesses' = guesses + 1
    BY <1>0, <1>13 DEF Effect
  <2>2. (Held(redis') <=> Held(redis)) /\ Harmless' = Harmless
    BY <2>1 DEF Held, Harmless
  <2> QED BY <1>1, <1>2, <1>3, <1>4, <1>5, <1>6, <1>8, <1>c, <1>13, <2>1, <2>2
<1>14. CASE at = "fail_incr"
  <2>1. /\ guesses' = guesses /\ login'[p].count = redis'["failures"].count
        /\ at2 = IF login'[p].count = 1 THEN "fail_expire" ELSE AfterFailure(login'[p].count)
        /\ Incr("failures")
    BY <1>0, <1>14 DEF Effect
  <2>2. /\ redis'["failures"].count = IF redis["failures"].count < MaxCount
                                      THEN redis["failures"].count + 1
                                      ELSE redis["failures"].count
        /\ redis'["lock"] = redis["lock"]
    BY <1>0, <1>14, <2>1, IncrTyped DEF Keys
  <2>3. Held(redis') <=> Held(redis)
    BY <2>2 DEF Held
  <2>4. Threshold < MaxCount /\ MaxCount \in Nat
    BY DEF LimitsAssumption
  <2>5. CASE redis'["failures"].count >= Threshold
    <3>1. After(login'[p]) /\ Harmless' = Threshold - 1 /\ at2 \notin Before
      BY <1>2, <2>1, <2>2, <2>4, <2>5 DEF AfterFailure, Harmless
    <3> QED
      BY <1>1, <1>2, <1>3, <1>4, <1>5, <1>6, <1>8, <1>c, <1>14, <2>1, <2>3, <3>1
  <2>6. CASE redis'["failures"].count < Threshold
    <3>1. Harmless' = Harmless + 1 /\ at2 \notin Before
      BY <1>1, <1>2, <2>1, <2>2, <2>4, <2>6 DEF AfterFailure, Harmless
    <3> QED
      BY <1>1, <1>2, <1>3, <1>4, <1>5, <1>6, <1>8, <1>c, <1>14, <2>1, <2>3, <3>1
  <2>7. redis'["failures"].count \in Nat
    BY <1>2, <2>2
  <2> QED BY <1>1, <2>5, <2>6, <2>7
<1>15. CASE at = "fail_expire"
  <2>1. guesses' = guesses /\ Expire("failures") /\ at2 = AfterFailure(login[p].count)
    BY <1>0, <1>15 DEF Effect
  <2>2. redis'["failures"].count = redis["failures"].count /\ redis'["lock"] = redis["lock"]
    BY <1>1, <2>1 DEF Expire, Keys, Store, Entry
  <2>3. login[p].count \in Nat
    BY <1>15, UnderWay DEF Active
  <2>4. After(login[p]) => After(login'[p])
    BY <1>1, <1>15, <2>1, <2>3 DEF AfterFailure
  <2>5. at2 \notin Before
    BY <2>1 DEF AfterFailure
  <2> QED BY <1>c, <1>10, <2>1, <2>2, <2>4, <2>5
<1>16. CASE at = "lock_set"
  <2>1. /\ guesses' = guesses /\ at2 = "fail_del"
        /\ redis' = [redis EXCEPT !["lock"] = [count |-> 1, left |-> Lockout]]
    BY <1>0, <1>16 DEF Effect, Lock
  <2>2. Held(redis')
    BY <1>1, <2>1 DEF Held, Store, Keys
  <2> QED BY <1>1, <1>2, <1>3, <1>4, <1>5, <1>6, <1>8, <1>c, <1>16, <2>1, <2>2
<1>17. CASE at \in {"fail_del", "clear"}
  BY <1>0, <1>9, <1>17 DEF Effect
<1>18. /\ at \in {"check_lock", "rate_ttl", "fail_ttl", "fail_check", "rate_incr", "rate_expire",
                  "verify", "fail_incr", "fail_expire", "lock_set", "fail_del", "clear"}
       /\ at = "verify" => at2 \in {"clear", "fail_check"}
  BY <1>0 DEF Effect
<1> QED
  BY <1>11, <1>12, <1>13, <1>14, <1>15, <1>16, <1>17, <1>18

LEMMA NextGuesses ==
  ASSUME LimitsAssumption, LimitsTypeOK, LimitsTypeOK', AllUsable, GuessesOK,
         [LimitsNext]_limitVars
  PROVE  GuessesOK'
<1> SUFFICES ASSUME faults' = 0
             PROVE  GuessesOK'
  BY DEF GuessesOK
<1>1. faults = 0 /\ faults \in Nat /\ guesses \in Nat /\ cut \in Nat /\ cut' \in Nat /\ Threshold \in Nat \ {0}
  BY StaysUsable DEF LimitsTypeOK, LimitsAssumption
<1>2. ASSUME redis' = redis, guesses' = guesses, cut' = cut, Trying' = Trying, Failing' = Failing
      PROVE  GuessesOK'
  BY <1>1, <1>2 DEF GuessesOK, Held, Harmless
\* When the guesses are reset, any state of the logins is safe.
<1>3. ASSUME guesses' = 0
      PROVE  GuessesOK'
  <2>1. Trying' \in SUBSET Logins /\ Failing' \in SUBSET Logins
    BY DEF Trying, Failing
  <2>2. /\ Cardinality(Trying') \in Nat /\ Cardinality(Failing') \in Nat
        /\ Cardinality(Logins) \in Nat /\ Cardinality(Trying') <= Cardinality(Logins)
    BY <2>1, FS_Subset, FS_CardinalityType DEF LimitsAssumption
  <2>3. redis'["failures"].count \in Nat
    BY DEF LimitsTypeOK, Store, Entry, Keys
  <2> QED
    BY <1>1, <1>3, <2>2, <2>3 DEF GuessesOK, Harmless
<1>4. CASE \E p \in Logins : LoginStep(p)
  BY <1>1, <1>4, StepGuesses
<1>5. CASE \E p \in Logins : RedisFails(p)
  BY <1>1, <1>5 DEF RedisFails
<1>6. ASSUME NEW p \in Logins, NEW n \in Nodes, LoginBegins(p, n)
      PROVE  GuessesOK'
  <2>1. /\ redis' = redis /\ guesses' = guesses /\ cut' = cut /\ Others(p)
        /\ login[p].at = "idle" /\ login'[p].at = "check_lock"
    BY <1>6 DEF LoginBegins, L!Begin, L!Suspend, L!At, stores, history, Others, LimitsTypeOK
  <2>2. Trying' = Trying /\ Failing' = Failing
    BY <2>1 DEF Trying, Failing, Before, After, Others
  <2> QED BY <1>2, <2>1, <2>2
<1>7. ASSUME NEW n \in Nodes, ClearLockout(n)
      PROVE  guesses' = 0
  BY <1>1, <1>7 DEF ClearLockout, AllUsable, Reset, Keys
<1>8. ASSUME NEW n \in Nodes, Restart(n)
      PROVE  GuessesOK'
  <2>1. /\ redis' = redis /\ guesses' = guesses
        /\ \A p \in Logins : login'[p] = IF p \in Serving(n) THEN L!Idle ELSE login[p]
    BY <1>8 DEF Restart
  <2>2. Trying' \subseteq Trying /\ Failing \subseteq Failing' \cup Cut(n)
    BY <2>1, IdleIsNoPoint DEF Trying, Failing, Before, After, Cut, Tried, Points, L!Idle
  <2>3. Failing' \in SUBSET Logins /\ Trying \in SUBSET Logins
    BY DEF Failing, Trying
  <2>4. /\ IsFiniteSet(Cut(n)) /\ Cardinality(Cut(n)) \in Nat
        /\ cut' = cut + Cardinality(Cut(n))
    BY <1>1, <1>8, CutCounted
  <2>5. /\ IsFiniteSet(Failing') /\ Cardinality(Failing') \in Nat /\ Cardinality(Trying') \in Nat
        /\ Cardinality(Trying') <= Cardinality(Trying)
    BY <2>2, <2>3, FS_Subset, FS_CardinalityType DEF LimitsAssumption
  <2>6. /\ IsFiniteSet(Failing' \cup Cut(n)) /\ IsFiniteSet(Failing' \cap Cut(n))
        /\ Cardinality(Failing' \cup Cut(n)) = Cardinality(Failing') + Cardinality(Cut(n))
                                                - Cardinality(Failing' \cap Cut(n))
    BY <2>4, <2>5, FS_Union, FS_Intersection
  <2>7. /\ Cardinality(Failing' \cap Cut(n)) \in Nat /\ Cardinality(Failing' \cup Cut(n)) \in Nat
        /\ Cardinality(Failing) <= Cardinality(Failing' \cup Cut(n))
    BY <2>2, <2>6, FS_Subset, FS_CardinalityType
  <2>8. /\ Cardinality(Trying) \in Nat /\ Cardinality(Failing) \in Nat
        /\ Cardinality(Logins) \in Nat
    BY LoginsCounted
  <2>9. Harmless' = Harmless /\ (Held(redis') <=> Held(redis)) /\ Harmless \in Int
    BY <1>1, <2>1 DEF Harmless, Held, LimitsTypeOK, Store, Entry, Keys
  <2>10. Cardinality(Failing) <= Cardinality(Failing') + Cardinality(Cut(n))
    BY <2>4, <2>5, <2>6, <2>7, <2>8
  <2>11. CASE Held(redis)
    BY <1>1, <2>1, <2>4, <2>5, <2>8, <2>9, <2>11 DEF GuessesOK
  <2>12. CASE ~Held(redis)
    BY <1>1, <2>1, <2>4, <2>5, <2>8, <2>9, <2>10, <2>12 DEF GuessesOK
  <2> QED BY <2>11, <2>12
<1>9. CASE Tick
  <2>1. CASE guesses' = 0
    BY <1>3, <2>1
  <2>2. CASE guesses' # 0
    <3>1. UNCHANGED <<guesses, cut, login>>
      BY <1>9, <2>2, TickEffect DEF Tick, Reset, history
    <3>2. \A k \in {"failures", "lock"} : redis'[k].count = redis[k].count
      <4>1. \A k \in {"failures", "lock"} : redis[k].count \in Nat
        BY DEF LimitsTypeOK, Store, Entry, Keys
      <4> QED
        BY <1>9, <2>2, <4>1, TickEffect DEF Keys, Absent
    <3>3. Trying' = Trying /\ Failing' = Failing
      BY <3>1 DEF Trying, Failing, After
    <3> QED
      BY <1>1, <3>1, <3>2, <3>3 DEF GuessesOK, Held, Harmless
  <2> QED BY <2>1, <2>2
<1>10. CASE UNCHANGED limitVars
  <2>1. Trying' = Trying /\ Failing' = Failing
    BY <1>10 DEF limitVars, Trying, Failing, After
  <2> QED BY <1>2, <1>10, <2>1 DEF limitVars
<1> QED
  BY <1>3, <1>4, <1>5, <1>6, <1>7, <1>8, <1>9, <1>10 DEF LimitsNext

LEMMA GuessesFew ==
  ASSUME LimitsAssumption, LimitsTypeOK, GuessesOK
  PROVE  GuessesBounded
<1>1. /\ redis["failures"].count \in Nat /\ guesses \in Nat /\ cut \in Nat
      /\ Threshold \in Nat \ {0}
  BY DEF LimitsTypeOK, Store, Entry, Keys, LimitsAssumption
<1>2. Harmless \in 0..(Threshold - 1)
  BY <1>1 DEF Harmless
<1> QED
  BY <1>1, <1>2, LoginsCounted DEF GuessesOK, GuessesBounded

LEMMA InitGuesses ==
  ASSUME LimitsAssumption, LimitsInit
  PROVE  GuessesOK
<1>1. guesses = 0 /\ cut = 0 /\ ~Held(redis) /\ Harmless = 0
  BY DEF LimitsInit, Held, Absent, Keys, Harmless, LimitsAssumption
<1> QED
  BY <1>1, LoginsCounted DEF GuessesOK

\* Before its failures are reset, an account is tried with fewer wrong
\* passwords than the threshold, one for each login under way, and one for each
\* that a restart cut short.
THEOREM GuessesLimited == LimitsSpec => []GuessesBounded
BY InitTyped, NextTyped, InitCounters, StaysUsable, InitGuesses, NextGuesses, GuessesFew,
   LimitsAssumption, PTL DEF LimitsSpec

-----------------------------------------------------------------------------
(* Mails.                                                                  *)

\* What the request knows, the state of the job and the copies agree.  A job
\* that waits has an attempt left: otherwise its attempts would not be counted.
CopiesCounted ==
  \A m \in Mails :
    /\ mail[m] = "new" => mailJob[m] = "none" /\ tries[m] = 0
    /\ mailJob[m] = "none" => tries[m] = 0
    /\ mailJob[m] = "waiting" => tries[m] < MailAttempts
    /\ mail[m] \in {"new", "sending"} => sent[m] <= tries[m]
    /\ mail[m] \in {"accepted", "refused"} => sent[m] <= tries[m] + 1

MailInv == MailTypeOK /\ CopiesCounted

Places == {"redis", "memory"}
Lists == {list \in Seq(Mails) : Len(list) <= MaxPreviews}

\* The list of previews never grows beyond what listPreviews keeps.
LEMMA NewestBounded ==
  ASSUME MailAssumption, NEW list \in Lists, NEW m \in Mails
  PROVE  Newest(list, m) \in Lists
<1>1. list \in Seq(Mails) /\ Len(list) \in Nat /\ Len(list) <= MaxPreviews /\ MaxPreviews \in Nat \ {0}
  BY LenProperties DEF Lists, MailAssumption
<1>2. <<m>> \in Seq(Mails) /\ Len(<<m>>) = 1
  OBVIOUS
<1>3. <<m>> \o list \in Seq(Mails) /\ Len(<<m>> \o list) = Len(list) + 1
  BY <1>1, <1>2, ConcatProperties
<1>4. PICK s \in Seq(Mails) : s = <<m>> \o list
  BY <1>3
<1>5. PICK n \in Nat : n = IF Len(list) < MaxPreviews THEN Len(list) + 1 ELSE MaxPreviews
  BY <1>1
<1>6. n \in 0..Len(s) /\ n <= MaxPreviews
  BY <1>1, <1>3, <1>4, <1>5
<1>7. SubSeq(s, 1, n) \in Seq(Mails) /\ Len(SubSeq(s, 1, n)) = n
  <2>1. 1 \in 1..Len(s) + 1 /\ n \in 0..Len(s) /\ Len(s) \in Nat
    BY <1>1, <1>3, <1>4, <1>6
  <2>2. \A i \in 1..n : i \in 1..Len(s) /\ s[i] \in Mails
    BY <1>6, <2>1, ElementOfSeq
  <2> QED BY <1>4, <1>6, <2>1, <2>2, SubSeqProperties
<1> QED
  BY <1>4, <1>5, <1>6, <1>7 DEF Newest, Lists

LEMMA PreviewsKept ==
  ASSUME MailAssumption, MailTypeOK, NEW m \in Mails, StorePreview(m)
  PROVE  \A place \in Places : previews'[place] \in Lists
<1>1. \A place \in Places : previews[place] \in Lists
  BY DEF MailTypeOK, Places, Lists
<1>2. \A place \in Places : Newest(previews[place], m) \in Lists
  BY <1>1, NewestBounded
<1>3. ASSUME NEW at \in Places, previews' = [previews EXCEPT ![at] = Newest(previews[at], m)]
      PROVE  \A place \in Places : previews'[place] \in Lists
  BY <1>1, <1>2, <1>3
<1>4. CASE previews' = [place \in {"redis", "memory"} |-> Newest(previews[place], m)]
  BY <1>2, <1>4 DEF Places
<1> QED
  BY <1>3, <1>4 DEF StorePreview, Places

\* What an attempt to send leaves behind, whether it succeeds or not.
LEMMA SentOnce ==
  ASSUME MailAssumption, MailTypeOK, NEW m \in Mails, Deliver(m) \/ DeliverFails(m)
  PROVE  /\ mailFaults' \in 0..MaxMailFaults
         /\ \A place \in Places : previews'[place] \in Lists
         /\ sent' \in [Mails -> Nat]
         /\ sent'[m] <= sent[m] + 1 /\ \A n \in Mails \ {m} : sent'[n] = sent[n]
<1>1. mailFaults' \in 0..MaxMailFaults
  BY DEF Deliver, DeliverFails, StorePreview, Fails, Works, MailTypeOK, MailAssumption
<1>2. \A place \in Places : previews'[place] \in Lists
  <2>1. CASE UNCHANGED previews
    BY <2>1 DEF MailTypeOK, Places, Lists
  <2> QED BY <2>1, PreviewsKept DEF Deliver, DeliverFails
<1>3. sent' = sent \/ sent' = [sent EXCEPT ![m] = sent[m] + 1]
  BY DEF Deliver, DeliverFails, Set
<1> QED
  BY <1>1, <1>2, <1>3 DEF MailTypeOK

LEMMA MailInductive ==
  ASSUME MailAssumption, MailInv, [MailNext]_mailVars
  PROVE  MailInv'
<1> USE DEF MailInv
<1>1. ASSUME NEW m \in Mails, Dispatch(m)
      PROVE  MailInv'
  <2>1. MailTypeOK'
    <3>1. UNCHANGED <<setup, tries, sent, previews>>
      BY <1>1 DEF Dispatch
    <3>2. mailFaults' \in 0..MaxMailFaults
      BY <1>1 DEF Dispatch, Fails, Works, MailTypeOK, MailAssumption
    <3>3. PICK seen \in {"accepted", "sending"} : mail' = [mail EXCEPT ![m] = seen]
      BY <1>1 DEF Dispatch, Set
    <3>4. mailJob' = mailJob \/ mailJob' = [mailJob EXCEPT ![m] = "waiting"]
      BY <1>1 DEF Dispatch, Set
    <3>5. /\ mail' \in [Mails -> {"new", "sending", "accepted", "refused"}]
          /\ mailJob' \in [Mails -> {"none", "waiting", "done", "dead"}]
      BY <3>3, <3>4 DEF MailTypeOK
    <3> QED BY <3>1, <3>2, <3>5 DEF MailTypeOK
  <2>2. mail[m] = "new" /\ mailJob[m] = "none" /\ tries[m] = 0 /\ tries[m] < MailAttempts
    BY <1>1 DEF Dispatch, CopiesCounted, MailAssumption
  <2>3. \A n \in Mails : n # m => mail'[n] = mail[n] /\ mailJob'[n] = mailJob[n]
    BY <1>1 DEF Dispatch, Set, MailTypeOK
  <2>4. mail'[m] \in {"accepted", "sending"} /\ mailJob'[m] \in {"none", "waiting"}
    BY <1>1, <2>2 DEF Dispatch, Set, MailTypeOK
  <2>5. UNCHANGED <<tries, sent>> /\ sent[m] <= 0
    BY <1>1, <2>2 DEF Dispatch, CopiesCounted
  <2>6. CopiesCounted'
    <3>1. tries \in [Mails -> 0..MailAttempts] /\ sent \in [Mails -> Nat]
      BY DEF MailTypeOK
    <3> QED BY <2>2, <2>3, <2>4, <2>5, <3>1 DEF CopiesCounted
  <2> QED BY <2>1, <2>6
<1>2. ASSUME NEW m \in Mails, DispatchDirectly(m)
      PROVE  MailInv'
  <2>1. /\ mailFaults' \in 0..MaxMailFaults /\ sent' \in [Mails -> Nat]
        /\ \A place \in Places : previews'[place] \in Lists
        /\ sent'[m] <= sent[m] + 1 /\ \A n \in Mails \ {m} : sent'[n] = sent[n]
    BY <1>2, SentOnce DEF DispatchDirectly
  <2>2. /\ UNCHANGED <<setup, mailJob, tries>>
        /\ mail' = [mail EXCEPT ![m] = "accepted"] \/ mail' = [mail EXCEPT ![m] = "refused"]
    BY <1>2 DEF DispatchDirectly, Set
  <2>3. MailTypeOK'
    BY <2>1, <2>2 DEF MailTypeOK, Places, Lists
  <2>4. mail[m] \in {"new", "sending"}
    BY <1>2 DEF DispatchDirectly
  <2>5. CopiesCounted'
    <3>1. mail'[m] \in {"accepted", "refused"} /\ \A n \in Mails \ {m} : mail'[n] = mail[n]
      BY <2>2 DEF MailTypeOK
    <3>2. tries[m] \in Nat /\ sent[m] \in Nat /\ sent'[m] \in Nat
      BY <2>1 DEF MailTypeOK
    <3>3. sent'[m] <= tries[m] + 1
      BY <2>1, <2>4, <3>2 DEF CopiesCounted
    <3> QED BY <2>1, <2>2, <2>4, <3>1, <3>3 DEF CopiesCounted
  <2> QED BY <2>3, <2>5
<1>3. ASSUME NEW m \in Mails, Work(m)
      PROVE  MailInv'
  <2>1. /\ mailFaults' \in 0..MaxMailFaults /\ sent' \in [Mails -> Nat]
        /\ \A place \in Places : previews'[place] \in Lists
        /\ sent'[m] <= sent[m] + 1 /\ \A n \in Mails \ {m} : sent'[n] = sent[n]
    BY <1>3, SentOnce DEF Work
  <2>2. mailJob[m] = "waiting" /\ tries[m] \in Nat /\ tries[m] < MailAttempts
    BY <1>3 DEF Work, CopiesCounted, MailTypeOK
  <2>3. tries' = [tries EXCEPT ![m] = tries[m] + 1] /\ UNCHANGED <<setup, mail>>
    BY <1>3, <2>2 DEF Work, Set
  <2>4. tries'[m] = tries[m] + 1 /\ tries[m] + 1 \in 0..MailAttempts
    BY <2>2, <2>3 DEF MailTypeOK, MailAssumption
  <2>5. PICK end \in {"done", "dead", "waiting"} :
          /\ mailJob' = [mailJob EXCEPT ![m] = end]
          /\ end = "waiting" => tries[m] + 1 # MailAttempts
    BY <1>3, <2>4 DEF Work, Set, AfterFailedTry
  <2>6. MailTypeOK'
    BY <2>1, <2>3, <2>4, <2>5 DEF MailTypeOK, Places, Lists
  <2>7. CopiesCounted'
    <3>1. /\ sent[m] \in Nat /\ sent'[m] \in Nat /\ MailAttempts \in Nat
          /\ mailJob'[m] = end
      BY <2>1, <2>5 DEF MailTypeOK, MailAssumption
    <3>2. /\ mail[m] # "new"
          /\ mail[m] \in {"new", "sending"} => sent[m] <= tries[m]
          /\ mail[m] \in {"accepted", "refused"} => sent[m] <= tries[m] + 1
      BY <2>2 DEF CopiesCounted
    <3>3. /\ mail'[m] # "new" /\ mailJob'[m] # "none"
          /\ mailJob'[m] = "waiting" => tries'[m] < MailAttempts
          /\ mail'[m] \in {"new", "sending"} => sent'[m] <= tries'[m]
          /\ mail'[m] \in {"accepted", "refused"} => sent'[m] <= tries'[m] + 1
      BY <2>1, <2>2, <2>3, <2>4, <2>5, <3>1, <3>2
    <3>4. ASSUME NEW n \in Mails \ {m}
          PROVE  /\ mail'[n] = mail[n] /\ mailJob'[n] = mailJob[n]
                 /\ tries'[n] = tries[n] /\ sent'[n] = sent[n]
      BY <2>1, <2>3, <2>5 DEF MailTypeOK
    <3> QED BY <3>3, <3>4 DEF CopiesCounted
  <2> QED BY <2>6, <2>7
<1>4. CASE UNCHANGED mailVars
  BY <1>4 DEF mailVars, MailTypeOK, CopiesCounted
<1> QED
  BY <1>1, <1>2, <1>3, <1>4 DEF MailNext

LEMMA MailStarts ==
  ASSUME MailAssumption, MailInit
  PROVE  MailInv
<1>1. MailTypeOK
  BY DEF MailInit, MailTypeOK, MailAssumption
<1>2. CopiesCounted
  BY DEF MailInit, CopiesCounted, MailAssumption
<1> QED
  BY <1>1, <1>2 DEF MailInv

\* Types: the states of a mail and its job, the attempts, and the previews,
\* of which no more are kept than the configuration says.
THEOREM MailTyped == MailSpec => []MailTypeOK
<1>1. MailInit => MailInv
  BY MailStarts, MailAssumption
<1>2. MailInv /\ [MailNext]_mailVars => MailInv'
  BY MailInductive, MailAssumption
<1>3. MailInv => MailTypeOK
  BY DEF MailInv
<1> QED
  BY <1>1, <1>2, <1>3, PTL DEF MailSpec

\* No mail is sent more often than its job has attempts and once more, even
\* when calls fail after they have done their work.
THEOREM FewCopies == MailSpec => []CopiesBounded
<1>1. MailInit => MailInv
  BY MailStarts, MailAssumption
<1>2. MailInv /\ [MailNext]_mailVars => MailInv'
  BY MailInductive, MailAssumption
<1>3. MailInv => CopiesBounded
  <2> SUFFICES ASSUME MailInv, NEW m \in Mails
               PROVE  sent[m] <= MailAttempts + 1
    BY DEF CopiesBounded
  <2>1. sent[m] \in Nat /\ tries[m] \in 0..MailAttempts /\ MailAttempts \in Nat
    BY MailAssumption DEF MailInv, MailTypeOK, MailAssumption
  <2>2. sent[m] <= tries[m] + 1
    <3>1. mail[m] \in {"new", "sending", "accepted", "refused"}
      BY DEF MailInv, MailTypeOK
    <3>2. CASE mail[m] \in {"new", "sending"}
      <4>1. sent[m] <= tries[m]
        BY <3>2 DEF MailInv, CopiesCounted
      <4> QED BY <2>1, <4>1
    <3>3. CASE mail[m] \in {"accepted", "refused"}
      BY <3>3 DEF MailInv, CopiesCounted
    <3> QED BY <3>1, <3>2, <3>3
  <2> QED BY <2>1, <2>2
<1> QED
  BY <1>1, <1>2, <1>3, PTL DEF MailSpec
=============================================================================
