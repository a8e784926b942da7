---------------------------- MODULE PublicCache ----------------------------
(* The cache of public market data: one key, several server instances.     *)
(* Each instance keeps entries in its own memory and at most one load of a *)
(* key (publicCache's `work`); instances share a Redis entry, a Redis lock *)
(* with an owner token and a lifetime, and, when Redis cannot be reached,  *)
(* the platform's data cache.  A Redis command may fail with or without    *)
(* having taken effect, and a failure opens the instance's circuit breaker.*)
(* A unit of time is longer than the 800 ms a command may take.            *)
EXTENDS Naturals, FiniteSets

CONSTANTS Instances, Requests, None,
          Fresh, Stale,       \* the policy of the key
          LockLife,           \* the lock's PX 20000
          BreakerLength,      \* 10 s without Redis after a failure
          Polls,              \* the bounded wait of a cold miss (8)
          MaxTime, MaxFailures, MaxWorks   \* bounds

(* Every policy of public-policy.ts keeps an entry fresh for some seconds, *)
(* and a cold miss polls at least once.                                    *)
ASSUME CacheAssumption ==
  /\ Fresh \in Nat \ {0} /\ Stale \in Nat /\ Polls \in Nat \ {0}
  /\ MaxTime \in Nat /\ MaxWorks \in Nat

VARIABLES now, version,       \* the clock; what the origin would return
          memory, redis, lock, fallback,
          unavailableUntil, work, request, failures

vars == <<now, version, memory, redis, lock, fallback, unavailableUntil,
          work, request, failures>>

Idle == [pc |-> "idle", serial |-> 0, entry |-> None, online |-> TRUE,
         locked |-> FALSE, tries |-> 0, value |-> None]

Init ==
  /\ now = 0 /\ version = 0 /\ failures = 0
  /\ memory = [i \in Instances |-> None] /\ redis = None /\ lock = None
  /\ fallback = None /\ unavailableUntil = [i \in Instances |-> 0]
  /\ work = [i \in Instances |-> Idle]
  /\ request = [r \in Requests |-> [status |-> "new"]]

Valid(entry, seconds) ==
  entry # None /\ now >= entry.written /\ now - entry.written < seconds
Usable(entry) == Valid(entry, Fresh + Stale)

Owner(i) == <<i, work[i].serial>>
OwnsLock(i) == lock # None /\ lock.owner = Owner(i) /\ now < lock.until
LockFree == ~(lock # None /\ now < lock.until)

(* -------------------------------- Redis -------------------------------- *)

Reachable(i) == unavailableUntil[i] <= now
CommandSucceeds(i) == Reachable(i) /\ UNCHANGED <<unavailableUntil, failures>>
CommandFails(i) ==
  \/ ~Reachable(i) /\ UNCHANGED <<unavailableUntil, failures>>
  \/ /\ Reachable(i) /\ failures < MaxFailures
     /\ failures' = failures + 1
     /\ unavailableUntil' = [unavailableUntil EXCEPT ![i] = now + BreakerLength]
(* The request reached Redis and its answer did not come back.             *)
AnswerLost(i) == Reachable(i) /\ CommandFails(i)

(* ------------------------------- requests ------------------------------ *)

Answer(r, entry) ==
  request' = [request EXCEPT ![r] =
                [status |-> "answered", entry |-> entry, at |-> now]]

(* An instance with MAX_ACTIVE loads of other keys under way refuses a     *)
(* cold key.                                                               *)
Request(r, i, crowded) ==
  /\ request[r].status = "new"
  /\ \/ Valid(memory[i], Fresh) /\ Answer(r, memory[i]) /\ UNCHANGED work
     \/ /\ ~Valid(memory[i], Fresh)
        /\ IF Usable(memory[i]) THEN Answer(r, memory[i])
           ELSE request' = [request EXCEPT ![r] =
                  IF crowded /\ work[i].pc = "idle" THEN [status |-> "busy"]
                  ELSE [status |-> "waiting", on |-> i]]
        /\ IF work[i].pc = "idle" /\ ~crowded
           THEN /\ work[i].serial < MaxWorks
                /\ work' = [work EXCEPT ![i] =
                     [Idle EXCEPT !.pc = "get", !.entry = memory[i],
                                  !.serial = work[i].serial + 1]]
           ELSE UNCHANGED work
  /\ UNCHANGED <<now, version, memory, redis, lock, fallback, unavailableUntil,
                 failures>>

KeepsPending(i, outcome) ==
  /\ work' = [work EXCEPT ![i] = IF outcome.status = "answered"
                THEN [Idle EXCEPT !.serial = work[i].serial]
                ELSE [@ EXCEPT !.pc = "rejected"]]
  /\ request' = [r \in Requests |->
       IF request[r] = [status |-> "waiting", on |-> i] THEN outcome
       ELSE request[r]]
(* The work ends: its entry leaves `pending`, and everyone who awaited it  *)
(* gets its value, or its error.                                           *)
Settle(i, outcome) ==
  /\ work' = [work EXCEPT ![i] = [Idle EXCEPT !.serial = work[i].serial]]
  /\ request' = [r \in Requests |->
       IF request[r] = [status |-> "waiting", on |-> i] THEN outcome
       ELSE request[r]]
Resolve(i, entry) ==
  Settle(i, [status |-> "answered", entry |-> entry, at |-> now])
Reject(i, why) == Settle(i, [status |-> why])

Goto(i, pc) == work' = [work EXCEPT ![i].pc = pc] /\ UNCHANGED request
Offline(i) ==
  /\ work' = [work EXCEPT ![i].pc = "load", ![i].online = FALSE]
  /\ UNCHANGED request

(* -------------------------------- the work ----------------------------- *)

Remote == IF redis # None /\ now < redis.expires THEN redis.entry ELSE None

Get(i) ==
  /\ work[i].pc = "get"
  /\ \/ CommandFails(i) /\ Offline(i) /\ UNCHANGED memory
     \/ /\ CommandSucceeds(i) /\ Usable(Remote)
        /\ memory' = [memory EXCEPT ![i] = Remote]
        /\ IF Valid(Remote, Fresh) THEN Resolve(i, Remote)
           ELSE /\ work' = [work EXCEPT ![i].pc = "lock", ![i].entry = Remote]
                /\ UNCHANGED request
     \/ /\ CommandSucceeds(i) /\ ~Usable(Remote)
        /\ Goto(i, "lock") /\ UNCHANGED memory
  /\ UNCHANGED <<now, version, redis, lock, fallback>>

TakeLock(i) == lock' = [owner |-> Owner(i), until |-> now + LockLife]

Lock(i) ==
  /\ work[i].pc = "lock"
  /\ \/ CommandFails(i) /\ Offline(i) /\ UNCHANGED lock
     \/ AnswerLost(i) /\ LockFree /\ TakeLock(i) /\ Offline(i)
     \/ /\ CommandSucceeds(i) /\ LockFree /\ TakeLock(i)
        /\ work' = [work EXCEPT ![i].pc = "load", ![i].locked = TRUE]
        /\ UNCHANGED request
     \/ /\ CommandSucceeds(i) /\ ~LockFree /\ UNCHANGED lock
        /\ IF Usable(work[i].entry) THEN Resolve(i, work[i].entry)
           ELSE Goto(i, "wait")
  /\ UNCHANGED <<now, version, memory, redis, fallback>>

(* A cold miss waits for the owner of the lock.  A failing command here is *)
(* not caught: the work, and every request on it, is rejected.             *)
Poll(i) ==
  /\ work[i].pc = "wait"
  /\ \/ CommandFails(i) /\ Reject(i, "failed") /\ UNCHANGED memory
     \/ /\ CommandSucceeds(i) /\ Usable(Remote)
        /\ memory' = [memory EXCEPT ![i] = Remote] /\ Resolve(i, Remote)
     \/ /\ CommandSucceeds(i) /\ ~Usable(Remote) /\ UNCHANGED memory
        /\ IF work[i].tries + 1 = Polls THEN Reject(i, "busy")
           ELSE /\ work' = [work EXCEPT ![i].tries = @ + 1]
                /\ UNCHANGED request
  /\ UNCHANGED <<now, version, redis, lock, fallback>>

(* load() reads the origin, and the entry is stamped when it returns.      *)
ReadOrigin(i) ==
  /\ work[i].pc = "load"
  /\ work' = [work EXCEPT ![i].pc = "loading", ![i].value = version]
  /\ UNCHANGED <<now, version, memory, redis, lock, fallback,
                 unavailableUntil, request, failures>>

Loaded(i) ==
  LET value == [version |-> work[i].value, written |-> now] IN
  /\ work[i].pc = "loading"
  /\ work' = [work EXCEPT ![i].value = value,
                ![i].pc = IF work[i].locked THEN "publish" ELSE "remember"]
  /\ fallback' = IF work[i].online THEN fallback ELSE value
  /\ UNCHANGED <<now, version, memory, redis, lock, unavailableUntil, request,
                 failures>>

(* Without Redis the data cache answers, with an entry of any age.         *)
AnyAge(entry) == TRUE
Acceptable(entry) == Usable(entry)

ReadFallback(i) ==
  /\ work[i].pc = "load" /\ ~work[i].online
  /\ fallback # None /\ Acceptable(fallback)
  /\ work' = [work EXCEPT ![i].pc = "remember", ![i].value = fallback]
  /\ UNCHANGED <<now, version, memory, redis, lock, fallback,
                 unavailableUntil, request, failures>>

(* load() fails: an entry that is still usable is served in its place.     *)
LoadFails(i) ==
  /\ work[i].pc = "loading" /\ failures < MaxFailures
  /\ failures' = failures + 1
  /\ LET last == IF Usable(work[i].entry) THEN work[i].entry ELSE None IN
     IF work[i].locked
     THEN /\ work' = [work EXCEPT ![i].pc = "unlock", ![i].value = last]
          /\ UNCHANGED request
     ELSE IF last = None THEN Reject(i, "failed") ELSE Resolve(i, last)
  /\ UNCHANGED <<now, version, memory, redis, lock, fallback,
                 unavailableUntil>>

AnyLock(i) == lock # None
MayPublish(i) == OwnsLock(i)

Publish(i) ==
  /\ work[i].pc = "publish"
  /\ \/ CommandFails(i) /\ UNCHANGED redis
     \/ /\ CommandSucceeds(i) \/ AnswerLost(i)
        /\ redis' = IF MayPublish(i)
                    THEN [entry |-> work[i].value, expires |-> now + Fresh + Stale]
                    ELSE redis
  /\ Goto(i, "remember")
  /\ UNCHANGED <<now, version, memory, lock, fallback>>

Remember(i) ==
  /\ work[i].pc = "remember"
  /\ memory' = [memory EXCEPT ![i] = work[i].value]
  /\ IF work[i].locked THEN Goto(i, "unlock") ELSE Resolve(i, work[i].value)
  /\ UNCHANGED <<now, version, redis, lock, fallback, unavailableUntil,
                 failures>>

Unlock(i) ==
  /\ work[i].pc = "unlock"
  /\ \/ CommandFails(i) /\ UNCHANGED lock
     \/ /\ CommandSucceeds(i) \/ AnswerLost(i)
        /\ lock' = IF OwnsLock(i) THEN None ELSE lock
  /\ IF work[i].value = None THEN Reject(i, "failed")
     ELSE Resolve(i, work[i].value)
  /\ UNCHANGED <<now, version, memory, redis, fallback>>

(* ----------------------------- environment ----------------------------- *)

(* The instance goes: its memory, its load and the requests on it.        *)
Crash(i) ==
  /\ work[i].pc # "idle" /\ failures < MaxFailures
  /\ failures' = failures + 1
  /\ Reject(i, "failed") /\ memory' = [memory EXCEPT ![i] = None]
  /\ unavailableUntil' = [unavailableUntil EXCEPT ![i] = 0]
  /\ UNCHANGED <<now, version, redis, lock, fallback>>

Change ==
  /\ version < now /\ version' = version + 1
  /\ UNCHANGED <<now, memory, redis, lock, fallback, unavailableUntil, work,
                 request, failures>>

(* Only a load, and the pause between two polls, take time.                *)
Tick ==
  /\ now < MaxTime /\ now' = now + 1
  /\ \A i \in Instances : work[i].pc \in {"idle", "loading", "wait"}
  /\ UNCHANGED <<version, memory, redis, lock, fallback, unavailableUntil,
                 work, request, failures>>

WorkStep(i) ==
  \/ Get(i) \/ Lock(i) \/ Poll(i) \/ ReadOrigin(i) \/ Loaded(i) \/ LoadFails(i)
  \/ ReadFallback(i) \/ Publish(i) \/ Remember(i) \/ Unlock(i)

Next ==
  \/ \E r \in Requests, i \in Instances, crowded \in BOOLEAN :
       Request(r, i, crowded)
  \/ \E i \in Instances : WorkStep(i) \/ Crash(i)
  \/ Change \/ Tick

Spec == Init /\ [][Next]_vars
(* Every command has its timeout and every load its statement timeout.     *)
Fairness == \A i \in Instances : WF_vars(WorkStep(i))
FairSpec == Spec /\ Fairness

(* ------------------------------ properties ----------------------------- *)

Entry == [version : Nat, written : 0..MaxTime]
TypeOK ==
  /\ memory \in [Instances -> Entry \cup {None}]
  /\ redis = None \/ redis.entry \in Entry
  /\ lock = None \/ lock.owner \in Instances \X (1..MaxWorks)
  /\ \A i \in Instances : work[i].tries < Polls

(* "An expired loader cannot overwrite a newer refresh" (public-cache.ts): *)
(* whatever loaders outlive their lock, the shared entry never goes back   *)
(* to an older state of the origin.                                        *)
EntryIsNewer == redis # None => redis'.entry.version >= redis.entry.version
RefreshNeverRegresses == [][EntryIsNewer]_vars

(* "Must not make arbitrarily old prices appear current": no answer is     *)
(* older than the policy allows, with Redis up, down or coming back.       *)
AnswersAreRecent ==
  \A r \in Requests : request[r].status = "answered" =>
    request[r].at - request[r].entry.written < Fresh + Stale

(* With the types of the state, what the run checks.                       *)
AnswersAreCurrent == TypeOK /\ AnswersAreRecent

(* Every request that awaits a load gets an answer, a 503 or an error.     *)
EveryRequestEnds ==
  \A r \in Requests :
    request[r].status = "waiting" ~> request[r].status # "waiting"
=============================================================================
