---------------------------- MODULE LoginLimits ----------------------------
(***************************************************************************)
(* What limits the guessing of one account's password: a rate limit and a  *)
(* lockout, counted in Redis by all API processes, or in the memory of a   *)
(* process for which a Redis command has failed.  A login is a sequence of *)
(* Redis commands, and other logins, staff and the clock run in between.   *)
(***************************************************************************)
EXTENDS Naturals, FiniteSets

CONSTANTS
  Logins,     \* logins that may be under way at the same time
  Nodes,      \* API processes
  Threshold,  \* failures that lock the account
  Limit,      \* attempts in a window
  Window,     \* ticks until a counter expires
  Lockout,    \* ticks until a lock expires
  MaxCount,   \* bound: Redis counters are counted up to here
  MaxFaults,  \* bound: Redis commands that fail
  MaxCut      \* bound: logins cut short after a wrong password, until a reset

ASSUME LimitsAssumption ==
  /\ Logins # {} /\ IsFiniteSet(Logins)
  /\ Threshold \in Nat \ {0} /\ Limit \in Nat /\ MaxFaults \in Nat /\ MaxCut \in Nat
  /\ Window \in Nat \ {0} /\ Lockout \in Nat \ {0}
  /\ MaxCount \in Nat /\ Threshold < MaxCount /\ Limit < MaxCount

VARIABLES
  redis,    \* the keys in Redis
  memory,   \* memoryStore of each process
  usable,   \* redisUsable of each process
  login,    \* the logins that are under way
  guesses,  \* history: wrong passwords tried since the failures were reset, until
            \* a command fails
  cut,      \* history: of the logins with these guesses, how many a restart cut short
  orphaned, \* history: the keys without a time to live whose creator has ended
  faults    \* Redis commands that have failed

L == INSTANCE Handlers WITH Api <- Logins, None <- 0, handler <- login

limitVars == <<redis, memory, usable, login, guesses, cut, orphaned, faults>>
stores == <<redis, memory>>
history == <<guesses, cut>>

Keys == {"rate", "failures", "lock"}
Forever == Window + Lockout

\* A key that is absent counts nothing.
Entry == [count: 0..MaxCount, left: 0..Forever]
Absent == [count |-> 0, left |-> 0]
Store == [Keys -> Entry]
Held(store) == store["lock"].count > 0

Points == {"check_lock", "rate_incr", "rate_expire", "rate_ttl", "verify", "fail_check",
           "fail_incr", "fail_expire", "fail_ttl", "lock_set", "fail_del", "clear"}

LimitsTypeOK ==
  /\ redis \in Store
  /\ memory \in [Nodes -> Store]
  /\ usable \in [Nodes -> BOOLEAN]
  /\ login \in [Logins -> {L!Idle} \cup [at: Points, node: Nodes, count: 0..MaxCount]]
  /\ guesses \in Nat /\ cut \in 0..MaxCut
  /\ orphaned \in SUBSET Keys
  /\ faults \in 0..MaxFaults

LimitsInit ==
  /\ redis = [k \in Keys |-> Absent]
  /\ memory = [n \in Nodes |-> [k \in Keys |-> Absent]]
  /\ usable = [n \in Nodes |-> TRUE]
  /\ login = [p \in Logins |-> L!Idle]
  /\ guesses = 0 /\ cut = 0
  /\ orphaned = {}
  /\ faults = 0

Goto(p, point) == L!Suspend(p, [login[p] EXCEPT !.at = point])

\* What a login does with the answer of the store.
IfLocked(p, locked) == IF locked THEN L!Finish(p) ELSE Goto(p, "rate_incr")
IfThrottled(p, count) == IF count > Limit THEN L!Finish(p) ELSE Goto(p, "verify")

\* A counter that is created is given a time to live, and keeps it.
OneMore(e, left) ==
  IF e.count = 0 THEN [count |-> 1, left |-> left]
  ELSE [count |-> IF e.count < MaxCount THEN e.count + 1 ELSE e.count, left |-> e.left]

Remove(store, keys) == [k \in Keys |-> IF k \in keys THEN Absent ELSE store[k]]

\* The guesses count from the last time that the failures were reset.
Reset(keys) ==
  IF "failures" \in keys THEN guesses' = 0 /\ cut' = 0 ELSE UNCHANGED history

\* The command that gives a counter its time to live.
Expirer(k) == IF k = "rate" THEN "rate_expire" ELSE "fail_expire"

\* Some logins do not reach EXPIRE: keys that they made, with an INCR that was
\* answered or not, keep no time to live, until something removes or expires them.
Abandon(ended) ==
  orphaned' = {k \in Keys :
    /\ redis'[k].left = Forever
    /\ \/ k \in orphaned
       \/ \E p \in ended : login[p].at = Expirer(k)
       \/ ended # {} /\ redis[k].left # Forever}
-----------------------------------------------------------------------------
(* In memory: one step for each call, since nothing is awaited.            *)

\* consumeInMemory, and the counter of recordFailureInMemory
Counted(store, k) == [store EXCEPT ![k] = OneMore(@, Window)]

\* recordFailureInMemory: the first failure of a window never locks.
Failed(store) ==
  LET counted == Counted(store, "failures") IN
  CASE Held(store) -> store
    [] ~Held(store) /\ (store["failures"].count = 0 \/ counted["failures"].count < Threshold) ->
         counted
    [] OTHER -> [Remove(counted, {"failures"}) EXCEPT
                   !["lock"] = [count |-> Threshold, left |-> Lockout]]

\* The operation that a command of the login belongs to, done in memory.
InMemory(p) ==
  LET n == login[p].node
      point == login[p].at
      Put(store) == memory' = [memory EXCEPT ![n] = store]
  IN
  /\ \/ point = "check_lock" /\ IfLocked(p, Held(memory[n])) /\ UNCHANGED memory
     \/ /\ point \in {"rate_incr", "rate_expire", "rate_ttl"}
        /\ Put(Counted(memory[n], "rate"))
        /\ IfThrottled(p, Counted(memory[n], "rate")["rate"].count)
     \/ /\ point \in {"fail_check", "fail_incr", "fail_expire", "fail_ttl", "lock_set", "fail_del"}
        /\ Put(Failed(memory[n])) /\ L!Finish(p)
     \/ point = "clear" /\ Put(Remove(memory[n], {"failures", "lock"})) /\ L!Finish(p)

\* An operation asks redisUsable once, when it begins.
Starts == {"check_lock", "rate_incr", "fail_check", "clear"}
FallBack(p) ==
  /\ login[p].at \in Starts /\ ~usable[login[p].node]
  /\ InMemory(p)
  /\ UNCHANGED <<redis, usable, history, faults>>
-----------------------------------------------------------------------------
(* In Redis: one step for each command.                                    *)

Command(p, point) ==
  /\ L!At(p, point)
  /\ point \in Starts => usable[login[p].node]
  /\ UNCHANGED <<memory, usable, faults>>

\* INCR makes a counter that never expires.
Incr(k) == redis' = [redis EXCEPT ![k] = OneMore(@, Forever)]

\* EXPIRE of a key that has been removed does nothing.
Expire(k) ==
  redis' = IF redis[k].count = 0 THEN redis ELSE [redis EXCEPT ![k].left = Window]

Lock == redis' = [redis EXCEPT !["lock"] = [count |-> 1, left |-> Lockout]]
Delete(keys) == redis' = Remove(redis, keys)

LoginBegins(p, n) ==
  /\ L!Begin(p, [at |-> "check_lock", node |-> n, count |-> 0])
  /\ UNCHANGED <<stores, usable, history, orphaned, faults>>

\* Mutant: every attempt on a locked account locks it again for the whole time.
CheckLockExtends(p) ==
  /\ Command(p, "check_lock")
  /\ IfLocked(p, Held(redis))
  /\ IF Held(redis) THEN Lock ELSE UNCHANGED redis
  /\ UNCHANGED history

\* getLockout
CheckLock(p) ==
  /\ Command(p, "check_lock")
  /\ IfLocked(p, Held(redis))
  /\ UNCHANGED <<redis, history>>

\* consume
RateIncr(p) ==
  /\ Command(p, "rate_incr")
  /\ Incr("rate")
  /\ L!Suspend(p, [login[p] EXCEPT !.count = redis'["rate"].count,
                     !.at = IF redis'["rate"].count = 1 THEN "rate_expire" ELSE "rate_ttl"])
  /\ UNCHANGED history

RateExpire(p) ==
  /\ Command(p, "rate_expire")
  /\ Expire("rate")
  /\ Goto(p, "rate_ttl")
  /\ UNCHANGED history

RateTtl(p) ==
  /\ Command(p, "rate_ttl")
  /\ IfThrottled(p, login[p].count)
  /\ UNCHANGED <<redis, history>>

\* The password is right or wrong.
Verify(p) ==
  /\ Command(p, "verify")
  /\ \/ Goto(p, "clear") /\ UNCHANGED history
     \/ /\ Goto(p, "fail_check")
        /\ guesses' = (IF faults = 0 THEN guesses + 1 ELSE 0) /\ UNCHANGED cut
  /\ UNCHANGED redis

\* recordFailure
FailCheck(p) ==
  /\ Command(p, "fail_check")
  /\ IF Held(redis) THEN L!Finish(p) ELSE Goto(p, "fail_incr")
  /\ UNCHANGED <<redis, history>>

\* Mutant: one failure more than the threshold.
LocksLate(count) == IF count <= Threshold THEN "fail_ttl" ELSE "lock_set"

AfterFailure(count) == IF count < Threshold THEN "fail_ttl" ELSE "lock_set"

\* Mutant: no expiry is set for a counter of failures.
FailIncrOnly(p) ==
  /\ Command(p, "fail_incr")
  /\ Incr("failures")
  /\ L!Suspend(p, [login[p] EXCEPT !.count = redis'["failures"].count,
                     !.at = AfterFailure(redis'["failures"].count)])
  /\ UNCHANGED history

FailIncr(p) ==
  /\ Command(p, "fail_incr")
  /\ Incr("failures")
  /\ L!Suspend(p, [login[p] EXCEPT !.count = redis'["failures"].count,
                     !.at = IF redis'["failures"].count = 1 THEN "fail_expire"
                            ELSE AfterFailure(redis'["failures"].count)])
  /\ UNCHANGED history

FailExpire(p) ==
  /\ Command(p, "fail_expire")
  /\ Expire("failures")
  /\ Goto(p, AfterFailure(login[p].count))
  /\ UNCHANGED history

FailTtl(p) ==
  /\ Command(p, "fail_ttl")
  /\ L!Finish(p)
  /\ UNCHANGED <<redis, history>>

LockSet(p) ==
  /\ Command(p, "lock_set")
  /\ Lock
  /\ Goto(p, "fail_del")
  /\ UNCHANGED history

FailDel(p) ==
  /\ Command(p, "fail_del")
  /\ Delete({"failures"}) /\ Reset({"failures"})
  /\ L!Finish(p)

\* clearFailures, after the right password
Clear(p) ==
  /\ Command(p, "clear")
  /\ Delete({"failures", "lock"}) /\ Reset({"failures"})
  /\ L!Finish(p)

\* What a command does to the keys.
Executes(point) ==
  CASE point = "rate_incr" -> Incr("rate")
    [] point = "rate_expire" -> Expire("rate")
    [] point = "fail_incr" -> Incr("failures")
    [] point = "fail_expire" -> Expire("failures")
    [] point = "lock_set" -> Lock
    [] point = "fail_del" -> Delete({"failures"})
    [] point = "clear" -> Delete({"failures", "lock"})
    [] OTHER -> UNCHANGED redis

\* A command fails: Redis has executed it or has not, and what earlier commands
\* of the operation did stays in Redis.  The operation is done in memory.
RedisFails(p) ==
  /\ faults < MaxFaults
  /\ login[p].at \in Points \ {"verify"}
  /\ login[p].at \in Starts => usable[login[p].node]
  /\ InMemory(p)
  /\ UNCHANGED redis \/ Executes(login[p].at)
  /\ Abandon({p})
  /\ usable' = [usable EXCEPT ![login[p].node] = FALSE]
  /\ faults' = faults + 1
  /\ Reset(Keys)
-----------------------------------------------------------------------------
\* clearUserLoginLockout clears the store that its own process uses.
ClearLockout(n) ==
  /\ IF usable[n]
     THEN /\ Delete(Keys) /\ Reset(Keys)
          /\ UNCHANGED memory
     ELSE /\ memory' = [memory EXCEPT ![n] = Remove(@, Keys)]
          /\ UNCHANGED <<redis, history>>
  /\ Abandon({})
  /\ UNCHANGED <<usable, login, faults>>

\* A process dies or is deployed anew, at any time: its memory is gone, and its
\* logins end where they are, some of them after a wrong password.
Tried == {"fail_check", "fail_incr", "fail_expire", "fail_ttl", "lock_set", "fail_del"}
Serving(n) == {p \in Logins : login[p] # L!Idle /\ login[p].node = n}
Restart(n) ==
  LET lost == IF faults = 0 THEN Cardinality({p \in Serving(n) : login[p].at \in Tried}) ELSE 0 IN
  /\ cut + lost <= MaxCut
  /\ cut' = cut + lost
  /\ usable' = [usable EXCEPT ![n] = TRUE]
  /\ memory' = [memory EXCEPT ![n] = Remove(@, Keys)]
  /\ login' = [p \in Logins |-> IF p \in Serving(n) THEN L!Idle ELSE login[p]]
  /\ UNCHANGED <<redis, guesses, faults>>
  /\ Abandon(Serving(n))

Ticks(e) == e.left \in 1..(Forever - 1)
Aged(store) ==
  [k \in Keys |-> CASE ~Ticks(store[k]) -> store[k]
                    [] Ticks(store[k]) /\ store[k].left = 1 -> Absent
                    [] OTHER -> [store[k] EXCEPT !.left = @ - 1]]

Tick ==
  /\ \E k \in Keys : Ticks(redis[k]) \/ \E n \in Nodes : Ticks(memory[n][k])
  /\ redis' = Aged(redis)
  /\ memory' = [n \in Nodes |-> Aged(memory[n])]
  /\ Reset(IF \E k \in {"failures", "lock"} : redis[k].count > 0 /\ redis'[k].count = 0
           THEN {"failures"} ELSE {})
  /\ UNCHANGED <<usable, login, orphaned, faults>>

LoginStep(p) ==
  /\ \/ CheckLock(p) \/ RateIncr(p) \/ RateExpire(p) \/ RateTtl(p) \/ Verify(p)
     \/ FailCheck(p) \/ FailIncr(p) \/ FailExpire(p) \/ FailTtl(p) \/ LockSet(p) \/ FailDel(p)
     \/ Clear(p) \/ FallBack(p)
  /\ Abandon({})

LimitsNext ==
  \/ \E p \in Logins : LoginStep(p) \/ RedisFails(p) \/ \E n \in Nodes : LoginBegins(p, n)
  \/ \E n \in Nodes : ClearLockout(n) \/ Restart(n)
  \/ Tick

\* Time passes, and a process gets on with what it has begun.
LimitsFairness == WF_limitVars(Tick)

LimitsSpec == LimitsInit /\ [][LimitsNext]_limitVars /\ LimitsFairness
-----------------------------------------------------------------------------
(* Properties                                                              *)

\* As long as Redis serves all processes, an account is tried with fewer wrong
\* passwords, before the failures are reset, than the threshold, one for each
\* login that had passed the check of the lock, and one for each login that a
\* restart cut short before its failure was counted.
GuessesBounded == faults = 0 => guesses < Threshold + Cardinality(Logins) + cut

\* Whatever fails, and whenever processes die, a counter in Redis expires, or a
\* login is about to set its expiry, unless the login that created it ended
\* between INCR and EXPIRE: only then does it count for good.
CountersExpire ==
  \A k \in Keys :
    redis[k].left = Forever => k \in orphaned \/ \E p \in Logins : L!At(p, Expirer(k))

\* Whatever fails and whoever goes on guessing, an account does not stay locked,
\* in Redis or in the memory of a process.
LockoutEnds == []<>(~Held(redis)) /\ \A n \in Nodes : []<>(~Held(memory[n]))
=============================================================================
