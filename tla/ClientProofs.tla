---------------------------- MODULE ClientProofs ----------------------------
(***************************************************************************)
(* Theorems about ten parts of MCClients, which share nothing, for every   *)
(* value of their constants.                                               *)
(*                                                                         *)
(* The public cache, which is PublicCache itself: for any instances,       *)
(* requests, policy and number of loads, and any interleaving of loaders   *)
(* that outlive their lock, lost answers, outages and crashes. While a     *)
(* loader owns the lock nobody else can write the shared entry, so what it *)
(* read from the origin after it took the lock is at least as new as that  *)
(* entry (OwnerInv). Only a load and the pause of a poll take time, so     *)
(* what a work holds when it has loaded is as young when it is answered    *)
(* (WorkInv).                                                              *)
(*                                                                         *)
(* The transaction review, an instance of WalletReview: whatever a page, a *)
(* call or an answer under way says of an intent was true when it was said *)
(* and is final if it is over (Told).                                      *)
(*                                                                         *)
(* The deployment console, an instance of DeploymentConsole: for any       *)
(* artifact, number of consoles, crashes, failed and lost transactions.    *)
(* The lock lets one console run, whose journal is the one on disk         *)
(* (RunningInv). An entry that is settled is so on the chain (ChainInv), a *)
(* new approval is prepared only when every entry is settled (PlanInv),    *)
(* and submitted only when none is pending. So what can still land belongs *)
(* to one approval, and nothing changes the buffer between the decision to *)
(* deploy it and the deployment. Every transaction is paid from what its   *)
(* entry reserved, so the reservations bound what is paid (BudgetInv).     *)
(*                                                                         *)
(* The launch form, the retirement review, pool setup and the lifecycle    *)
(* script, whose arguments are short: a form is read back by the wallet    *)
(* that stored it (FormInv); an allocation cannot be undone before the     *)
(* program is replaced (UnusedInv); of the reviews of a pair all but the   *)
(* last are over and cannot land, unless they landed and were marked       *)
(* expired all the same (SetupInv); a label is signed again only           *)
(* when what was signed for it can no longer land (ScriptInv).             *)
(*                                                                         *)
(* The market lists, the fee dashboard, the replies to the form and the    *)
(* portfolios. What the lists keep was read after the last confirmed trade *)
(* (FeedInv); the request of a claim panel that is still live is about the *)
(* challenge the panel shows (PanelInv), and pages are merged without      *)
(* showing a token twice (DashboardInv); a lookup of the form that is not  *)
(* aborted is about what is in the field (AwaitedInv), and a launch was    *)
(* sent for a ticker that was answered (LaunchesInv); a tab shows its own  *)
(* wallet's portfolio (PortfolioInv).                                      *)
(***************************************************************************)
EXTENDS MCClients, FiniteSums, TLAPS

(* ------------------------------ public cache --------------------------- *)

Pcs == {"idle", "get", "lock", "wait", "load", "loading", "publish", "remember",
        "unlock"}

Work ==
  [pc : Pcs, serial : 0..MaxWorks, entry : Entry \cup {None}, online : BOOLEAN,
   locked : BOOLEAN, tries : 0..(Polls - 1), value : Entry \cup {None} \cup Nat]

Reply ==
  [status : {"new", "busy", "failed"}] \cup [status : {"waiting"}, on : Instances]
    \cup [status : {"answered"}, entry : Entry, at : 0..MaxTime]

Young(entry) == now >= entry.written /\ now - entry.written < Fresh + Stale

WorkInv(i) ==
  /\ work[i].pc # "idle" => work[i].serial # 0
  /\ work[i].pc = "loading" => work[i].value \in Nat /\ work[i].value <= version
  /\ work[i].pc \in {"publish", "remember"} =>
       work[i].value \in Entry /\ Young(work[i].value)
  /\ work[i].pc = "publish" => work[i].value.version <= version
  /\ work[i].pc = "unlock" /\ work[i].value # None =>
       work[i].value \in Entry /\ Young(work[i].value)

(* The owner of the lock has read what is as new as the shared entry.      *)
OwnerInv(i) ==
  lock # None /\ lock.owner = Owner(i) /\ redis # None =>
    /\ work[i].pc = "loading" => redis.entry.version <= work[i].value
    /\ work[i].pc = "publish" => redis.entry.version <= work[i].value.version

RedisInv == redis # None => redis.entry \in Entry /\ redis.entry.version <= version

Typed ==
  /\ now \in 0..MaxTime /\ version \in Nat
  /\ memory \in [Instances -> Entry \cup {None}]
  /\ fallback \in Entry \cup {None}
  /\ lock = None \/ lock.owner \in Instances \X (1..MaxWorks)
  /\ work \in [Instances -> Work]
  /\ request \in [Requests -> Reply]

CacheInv ==
  /\ Typed
  /\ RedisInv
  /\ \A i \in Instances : WorkInv(i) /\ OwnerInv(i)
  /\ AnswersAreRecent

-----------------------------------------------------------------------------
(* What a step leaves alone *)

(* The answers of the requests already answered stay; a new one is as      *)
(* young as the policy asks.                                               *)
LEMMA Answered ==
  ASSUME CacheInv, NEW r \in Requests, NEW entry \in Entry, Young(entry),
         Answer(r, entry)
  PROVE  request' \in [Requests -> Reply] /\ AnswersAreRecent'
<1> DEFINE reply == [status |-> "answered", entry |-> entry, at |-> now]
<1>1. reply \in Reply
  BY DEF CacheInv, Typed, Reply
<1>2. request' = [request EXCEPT ![r] = reply]
  BY DEF Answer
<1>3. reply.status = "answered" /\ reply.at = now /\ reply.entry = entry
  OBVIOUS
<1> HIDE DEF reply
<1>4. request' \in [Requests -> Reply]
  BY <1>1, <1>2 DEF CacheInv, Typed
<1>5. \A q \in Requests : request'[q] = IF q = r THEN reply ELSE request[q]
  BY <1>2 DEF CacheInv, Typed
<1>6. AnswersAreRecent'
  BY <1>3, <1>5 DEF CacheInv, AnswersAreRecent, Young
<1> QED BY <1>4, <1>6

LEMMA IdleIsWork == Idle \in Work /\ Idle.pc = "idle"
<1>1. "idle" \in Pcs /\ 0 \in 0..MaxWorks /\ 0 \in 0..(Polls - 1)
  BY CacheAssumption DEF Pcs
<1>2. None \in Entry \cup {None} /\ None \in Entry \cup {None} \cup Nat
  OBVIOUS
<1> QED BY <1>1, <1>2 DEF Idle, Work

LEMMA SerialsCount ==
  ASSUME Typed, NEW i \in Instances
  PROVE  work[i].serial \in 0..MaxWorks
BY DEF Typed, Work

(* A work that ends is idle; who awaited it gets the outcome.              *)
LEMMA Settled ==
  ASSUME CacheInv, NEW i \in Instances, NEW outcome \in Reply, Settle(i, outcome),
         outcome.status = "answered" =>
           outcome.at - outcome.entry.written < Fresh + Stale
  PROVE  /\ work' \in [Instances -> Work]
         /\ work'[i].pc = "idle" /\ work'[i].serial = work[i].serial
         /\ \A j \in Instances \ {i} : work'[j] = work[j]
         /\ request' \in [Requests -> Reply]
         /\ AnswersAreRecent'
<1> DEFINE ended == [Idle EXCEPT !.serial = work[i].serial]
<1>1. ended \in Work /\ ended.pc = "idle" /\ ended.serial = work[i].serial
  <2>1. work[i].serial \in 0..MaxWorks
    BY SerialsCount DEF CacheInv
  <2> QED BY <2>1, IdleIsWork DEF Work
<1>2. work' = [work EXCEPT ![i] = ended]
  BY DEF Settle
<1> HIDE DEF ended
<1>3. /\ work' \in [Instances -> Work] /\ work'[i] = ended
      /\ \A j \in Instances \ {i} : work'[j] = work[j]
  BY <1>1, <1>2 DEF CacheInv, Typed
<1>4. request' \in [Requests -> Reply]
  <2> DEFINE waits(r) == request[r] = [status |-> "waiting", on |-> i]
  <2>1. request' = [r \in Requests |-> IF waits(r) THEN outcome ELSE request[r]]
    BY DEF Settle
  <2>2. \A r \in Requests : request[r] \in Reply
    BY DEF CacheInv, Typed
  <2> HIDE DEF waits
  <2> QED BY <2>1, <2>2
<1>5. \A r \in Requests : request'[r] \in {outcome, request[r]}
  BY DEF Settle
<1>6. AnswersAreRecent'
  BY <1>5 DEF CacheInv, AnswersAreRecent
<1> QED BY <1>1, <1>3, <1>4, <1>6

LEMMA Resolved ==
  ASSUME CacheInv, NEW i \in Instances, NEW entry \in Entry, Young(entry),
         Resolve(i, entry)
  PROVE  /\ work' \in [Instances -> Work]
         /\ work'[i].pc = "idle" /\ work'[i].serial = work[i].serial
         /\ \A j \in Instances \ {i} : work'[j] = work[j]
         /\ request' \in [Requests -> Reply]
         /\ AnswersAreRecent'
<1> DEFINE reply == [status |-> "answered", entry |-> entry, at |-> now]
<1>1. reply \in Reply
  BY DEF CacheInv, Typed, Reply
<1>2. reply.at - reply.entry.written < Fresh + Stale
  BY DEF Young
<1>3. Settle(i, reply)
  BY DEF Resolve
<1> HIDE DEF reply
<1> QED BY <1>1, <1>2, <1>3, Settled

LEMMA Rejected ==
  ASSUME CacheInv, NEW i \in Instances, NEW why \in {"busy", "failed"}, Reject(i, why)
  PROVE  /\ work' \in [Instances -> Work]
         /\ work'[i].pc = "idle" /\ work'[i].serial = work[i].serial
         /\ \A j \in Instances \ {i} : work'[j] = work[j]
         /\ request' \in [Requests -> Reply]
         /\ AnswersAreRecent'
<1> DEFINE reply == [status |-> why]
<1>1. reply \in Reply /\ reply.status # "answered"
  BY DEF Reply
<1>2. Settle(i, reply)
  BY DEF Reject
<1> HIDE DEF reply
<1> QED BY <1>1, <1>2, Settled

(* A work that moves on, with fields the types allow.                      *)
LEMMA Moved ==
  ASSUME CacheInv, NEW i \in Instances, NEW job \in Work,
         work' = [work EXCEPT ![i] = job], UNCHANGED request
  PROVE  /\ work' \in [Instances -> Work] /\ work'[i] = job
         /\ \A j \in Instances \ {i} : work'[j] = work[j]
         /\ request' \in [Requests -> Reply] /\ AnswersAreRecent'
BY DEF CacheInv, Typed, AnswersAreRecent

(* A usable entry is an entry, and young.                                  *)
LEMMA UsableIsYoung ==
  ASSUME Typed, NEW entry \in Entry \cup {None},
         Usable(entry) \/ Valid(entry, Fresh)
  PROVE  entry \in Entry /\ Young(entry)
BY CacheAssumption DEF Usable, Valid, Young, Entry, Typed

(* What holds of the works, the lock and the shared entry, put together.   *)
LEMMA WorksKeep ==
  ASSUME CacheInv, NEW i \in Instances, UNCHANGED <<now, version, redis>>,
         \A j \in Instances \ {i} : work'[j] = work[j],
         lock' # None => lock' = lock \/ lock'.owner = <<i, work'[i].serial>>,
         WorkInv(i)', OwnerInv(i)'
  PROVE  RedisInv' /\ \A j \in Instances : WorkInv(j)' /\ OwnerInv(j)'
<1>1. RedisInv'
  BY DEF CacheInv, RedisInv
<1>2. ASSUME NEW j \in Instances, j # i
      PROVE  WorkInv(j)' /\ OwnerInv(j)'
  <2>1. work'[j] = work[j] /\ WorkInv(j) /\ OwnerInv(j)
    BY <1>2 DEF CacheInv
  <2>2. WorkInv(j)'
    BY <2>1 DEF WorkInv, Young
  <2>3. lock' # None /\ lock'.owner = Owner(j)' => lock' = lock
    BY <1>2 DEF Owner
  <2>4. OwnerInv(j)'
    BY <2>1, <2>3 DEF OwnerInv, Owner
  <2> QED BY <2>2, <2>4
<1> QED BY <1>1, <1>2

-----------------------------------------------------------------------------
(* Every step *)

LEMMA InitCacheInv == Init => CacheInv
<1> SUFFICES ASSUME Init PROVE CacheInv
  OBVIOUS
<1>1. Idle \in Work /\ Idle.pc = "idle"
  BY IdleIsWork
<1>2. [status |-> "new"] \in Reply
  BY DEF Reply
<1>3. Typed
  BY <1>1, <1>2, CacheAssumption DEF Init, Typed
<1>4. \A i \in Instances : work[i].pc = "idle"
  BY <1>1 DEF Init
<1>5. \A i \in Instances : WorkInv(i) /\ OwnerInv(i)
  BY <1>4 DEF WorkInv, OwnerInv
<1>6. RedisInv /\ AnswersAreRecent
  BY DEF Init, RedisInv, AnswersAreRecent
<1> QED BY <1>3, <1>5, <1>6 DEF CacheInv

(* A request is answered from memory, waits for a work or is turned away.  *)
LEMMA RequestKeeps ==
  ASSUME CacheInv, NEW r \in Requests, NEW i \in Instances,
         NEW crowded \in BOOLEAN, Request(r, i, crowded)
  PROVE  CacheInv'
<1>1. memory[i] \in Entry \cup {None} /\ Typed /\ AnswersAreRecent
  BY DEF CacheInv, Typed
<1>2. request' \in [Requests -> Reply] /\ AnswersAreRecent'
  <2>1. CASE Answer(r, memory[i]) /\ (Usable(memory[i]) \/ Valid(memory[i], Fresh))
    BY <1>1, <2>1, UsableIsYoung, Answered
  <2>2. CASE request' = [request EXCEPT ![r] = [status |-> "busy"]]
    <3>1. [status |-> "busy"] \in Reply
      BY DEF Reply
    <3>2. \A q \in Requests : request'[q].status = "answered" => request'[q] = request[q]
      BY <1>1, <2>2 DEF Typed
    <3> QED BY <1>1, <2>2, <3>1, <3>2 DEF Typed, AnswersAreRecent
  <2>3. CASE request' = [request EXCEPT ![r] = [status |-> "waiting", on |-> i]]
    <3>1. [status |-> "waiting", on |-> i] \in Reply
      BY DEF Reply
    <3>2. \A q \in Requests : request'[q].status = "answered" => request'[q] = request[q]
      BY <1>1, <2>3 DEF Typed
    <3> QED BY <1>1, <2>3, <3>1, <3>2 DEF Typed, AnswersAreRecent
  <2> QED BY <2>1, <2>2, <2>3 DEF Request
<1>3. CASE UNCHANGED work
  BY <1>1, <1>2, <1>3 DEF Request, CacheInv, Typed, RedisInv, WorkInv, OwnerInv, Owner,
     Young
<1>4. CASE work[i].serial < MaxWorks
           /\ work' = [work EXCEPT ![i] =
                [Idle EXCEPT !.pc = "get", !.entry = memory[i],
                             !.serial = work[i].serial + 1]]
  <2> DEFINE job == [Idle EXCEPT !.pc = "get", !.entry = memory[i],
                                 !.serial = work[i].serial + 1]
  <2>1. work[i].serial + 1 \in 0..MaxWorks /\ work[i].serial + 1 # 0
    BY <1>1, <1>4, SerialsCount, CacheAssumption
  <2>2. job \in Work /\ job.pc = "get" /\ job.serial # 0
    <3>1. "get" \in Pcs
      BY DEF Pcs
    <3> QED BY <1>1, <2>1, <3>1, IdleIsWork DEF Work
  <2>3. work' = [work EXCEPT ![i] = job]
    BY <1>4
  <2> HIDE DEF job
  <2>4. /\ work' \in [Instances -> Work] /\ work'[i] = job
        /\ \A j \in Instances \ {i} : work'[j] = work[j]
    BY <1>1, <2>2, <2>3 DEF Typed
  <2>5. WorkInv(i)' /\ OwnerInv(i)'
    BY <2>2, <2>4 DEF WorkInv, OwnerInv
  <2>6. UNCHANGED <<now, version, memory, redis, lock, fallback>>
    BY DEF Request
  <2>7. RedisInv' /\ \A j \in Instances : WorkInv(j)' /\ OwnerInv(j)'
    BY <2>4, <2>5, <2>6, WorksKeep
  <2>8. Typed'
    BY <1>1, <1>2, <2>4, <2>6 DEF Typed
  <2> QED BY <1>2, <2>7, <2>8 DEF CacheInv
<1> QED BY <1>3, <1>4 DEF Request

(* A work that has not begun to load, or has ended, promises nothing.      *)
Early == {"get", "lock", "wait", "load"}

LEMMA StepKeeps ==
  ASSUME CacheInv, NEW i \in Instances, UNCHANGED <<now, version, redis>>,
         memory' \in [Instances -> Entry \cup {None}],
         fallback' \in Entry \cup {None},
         lock' = lock \/ lock' = None \/ lock'.owner = <<i, work[i].serial>>,
         work' \in [Instances -> Work],
         work'[i].serial = work[i].serial, work[i].serial # 0,
         \A j \in Instances \ {i} : work'[j] = work[j],
         request' \in [Requests -> Reply], AnswersAreRecent',
         \/ work'[i].pc \in {"idle"} \cup Early
         \/ WorkInv(i)' /\ OwnerInv(i)'
  PROVE  CacheInv'
<1>1. WorkInv(i)' /\ OwnerInv(i)'
  <2>1. CASE work'[i].pc \in {"idle"} \cup Early
    BY <2>1 DEF Early, WorkInv, OwnerInv
  <2> QED BY <2>1
<1>2. RedisInv' /\ \A j \in Instances : WorkInv(j)' /\ OwnerInv(j)'
  BY <1>1, WorksKeep
<1>3. lock' = None \/ lock'.owner \in Instances \X (1..MaxWorks)
  <2>1. work[i].serial \in 1..MaxWorks
    BY SerialsCount, CacheAssumption DEF CacheInv
  <2> QED BY <2>1 DEF CacheInv, Typed
<1>4. Typed'
  BY <1>3 DEF CacheInv, Typed
<1> QED BY <1>2, <1>4 DEF CacheInv

(* A work that moves to an early place, or writes some of its fields.      *)
LEMMA Goes ==
  ASSUME CacheInv, NEW i \in Instances, NEW pc \in Pcs, Goto(i, pc)
  PROVE  /\ work' \in [Instances -> Work]
         /\ work'[i] = [work[i] EXCEPT !.pc = pc]
         /\ work'[i].pc = pc /\ work'[i].serial = work[i].serial
         /\ work'[i].value = work[i].value
         /\ \A j \in Instances \ {i} : work'[j] = work[j]
         /\ request' \in [Requests -> Reply] /\ AnswersAreRecent'
<1> DEFINE job == [work[i] EXCEPT !.pc = pc]
<1>1. work[i] \in Work
  BY DEF CacheInv, Typed
<1>2. /\ job \in Work /\ job.pc = pc /\ job.serial = work[i].serial
      /\ job.value = work[i].value
  BY <1>1 DEF Work
<1>3. work' = [work EXCEPT ![i] = job] /\ UNCHANGED request
  BY DEF Goto
<1> HIDE DEF job
<1>4. /\ work' \in [Instances -> Work] /\ work'[i] = job
      /\ \A j \in Instances \ {i} : work'[j] = work[j]
      /\ request' \in [Requests -> Reply] /\ AnswersAreRecent'
  BY <1>2, <1>3, Moved
<1> QED BY <1>2, <1>4 DEF job

LEMMA GoesOffline ==
  ASSUME CacheInv, NEW i \in Instances, Offline(i)
  PROVE  /\ work' \in [Instances -> Work]
         /\ work'[i].pc = "load" /\ work'[i].serial = work[i].serial
         /\ \A j \in Instances \ {i} : work'[j] = work[j]
         /\ request' \in [Requests -> Reply] /\ AnswersAreRecent'
<1> DEFINE job == [work[i] EXCEPT !.pc = "load", !.online = FALSE]
<1>1. work[i] \in Work /\ "load" \in Pcs
  BY DEF CacheInv, Typed, Pcs
<1>2. job \in Work /\ job.pc = "load" /\ job.serial = work[i].serial
  BY <1>1 DEF Work
<1>3. work' = [work EXCEPT ![i] = job] /\ UNCHANGED request
  BY DEF Offline
<1> HIDE DEF job
<1>4. /\ work' \in [Instances -> Work] /\ work'[i] = job
      /\ \A j \in Instances \ {i} : work'[j] = work[j]
      /\ request' \in [Requests -> Reply] /\ AnswersAreRecent'
  BY <1>2, <1>3, Moved
<1> QED BY <1>2, <1>4

LEMMA RemoteIsEntry ==
  ASSUME CacheInv
  PROVE  Remote \in Entry \cup {None}
BY DEF Remote, CacheInv, RedisInv

LEMMA GetKeeps ==
  ASSUME CacheInv, NEW i \in Instances, Get(i)
  PROVE  CacheInv'
<1>1. /\ UNCHANGED <<now, version, redis, lock, fallback>>
      /\ work[i].serial # 0 /\ Typed /\ Remote \in Entry \cup {None}
      /\ memory \in [Instances -> Entry \cup {None}] /\ fallback' \in Entry \cup {None}
  BY RemoteIsEntry DEF Get, CacheInv, WorkInv, Typed
<1>2. CASE Offline(i) /\ UNCHANGED memory
  BY <1>1, <1>2, GoesOffline, StepKeeps DEF Early
<1>3. CASE Goto(i, "lock") /\ UNCHANGED memory
  <2>1. "lock" \in Pcs
    BY DEF Pcs
  <2> QED BY <1>1, <1>3, <2>1, Goes, StepKeeps DEF Early
<1>4. CASE Usable(Remote) /\ memory' = [memory EXCEPT ![i] = Remote]
           /\ Resolve(i, Remote)
  <2>1. Remote \in Entry /\ Young(Remote)
    BY <1>1, <1>4, UsableIsYoung
  <2>2. memory' \in [Instances -> Entry \cup {None}]
    BY <1>1, <1>4
  <2> QED BY <1>1, <1>4, <2>1, <2>2, Resolved, StepKeeps
<1>5. CASE /\ memory' = [memory EXCEPT ![i] = Remote]
           /\ work' = [work EXCEPT ![i].pc = "lock", ![i].entry = Remote]
           /\ UNCHANGED request
  <2> DEFINE job == [work[i] EXCEPT !.pc = "lock", !.entry = Remote]
  <2>1. memory' \in [Instances -> Entry \cup {None}]
    BY <1>1, <1>5
  <2>2. work[i] \in Work /\ "lock" \in Pcs
    BY <1>1 DEF Typed, Pcs
  <2>3. job \in Work /\ job.pc = "lock" /\ job.serial = work[i].serial
    BY <1>1, <2>2 DEF Work
  <2>4. work' = [work EXCEPT ![i] = job] /\ UNCHANGED request
    BY <1>5
  <2> HIDE DEF job
  <2>5. /\ work' \in [Instances -> Work] /\ work'[i] = job
        /\ \A j \in Instances \ {i} : work'[j] = work[j]
        /\ request' \in [Requests -> Reply] /\ AnswersAreRecent'
    BY <2>3, <2>4, Moved
  <2> QED BY <1>1, <2>1, <2>3, <2>5, StepKeeps DEF Early
<1> QED BY <1>2, <1>3, <1>4, <1>5 DEF Get

LEMMA LockKeeps ==
  ASSUME CacheInv, NEW i \in Instances, Lock(i)
  PROVE  CacheInv'
<1>1. /\ UNCHANGED <<now, version, memory, redis, fallback>>
      /\ work[i].serial # 0 /\ Typed
      /\ memory' \in [Instances -> Entry \cup {None}] /\ fallback' \in Entry \cup {None}
  BY DEF Lock, CacheInv, WorkInv, Typed
<1>2. lock' = lock \/ lock'.owner = <<i, work[i].serial>>
  BY DEF Lock, TakeLock, Owner
<1>3. CASE Offline(i)
  BY <1>1, <1>2, <1>3, GoesOffline, StepKeeps DEF Early
<1>4. CASE Goto(i, "wait")
  <2>1. "wait" \in Pcs
    BY DEF Pcs
  <2> QED BY <1>1, <1>2, <1>4, <2>1, Goes, StepKeeps DEF Early
<1>5. CASE Usable(work[i].entry) /\ Resolve(i, work[i].entry)
  <2>1. work[i].entry \in Entry \cup {None}
    BY <1>1 DEF Typed, Work
  <2>2. work[i].entry \in Entry /\ Young(work[i].entry)
    BY <1>1, <1>5, <2>1, UsableIsYoung
  <2> QED BY <1>1, <1>2, <1>5, <2>2, Resolved, StepKeeps
<1>6. CASE /\ work' = [work EXCEPT ![i].pc = "load", ![i].locked = TRUE]
           /\ UNCHANGED request
  <2> DEFINE job == [work[i] EXCEPT !.pc = "load", !.locked = TRUE]
  <2>1. work[i] \in Work /\ "load" \in Pcs
    BY <1>1 DEF Typed, Pcs
  <2>2. job \in Work /\ job.pc = "load" /\ job.serial = work[i].serial
    BY <2>1 DEF Work
  <2>3. work' = [work EXCEPT ![i] = job] /\ UNCHANGED request
    BY <1>6
  <2> HIDE DEF job
  <2>4. /\ work' \in [Instances -> Work] /\ work'[i] = job
        /\ \A j \in Instances \ {i} : work'[j] = work[j]
        /\ request' \in [Requests -> Reply] /\ AnswersAreRecent'
    BY <2>2, <2>3, Moved
  <2> QED BY <1>1, <1>2, <2>2, <2>4, StepKeeps DEF Early
<1> QED BY <1>3, <1>4, <1>5, <1>6 DEF Lock

LEMMA PollKeeps ==
  ASSUME CacheInv, NEW i \in Instances, Poll(i)
  PROVE  CacheInv'
<1>1. /\ UNCHANGED <<now, version, redis, lock, fallback>>
      /\ work[i].serial # 0 /\ Typed /\ Remote \in Entry \cup {None}
      /\ memory \in [Instances -> Entry \cup {None}] /\ fallback' \in Entry \cup {None}
  BY RemoteIsEntry DEF Poll, CacheInv, WorkInv, Typed
<1>2. CASE UNCHANGED memory /\ (Reject(i, "failed") \/ Reject(i, "busy"))
  BY <1>1, <1>2, Rejected, StepKeeps
<1>3. CASE Usable(Remote) /\ memory' = [memory EXCEPT ![i] = Remote]
           /\ Resolve(i, Remote)
  <2>1. Remote \in Entry /\ Young(Remote)
    BY <1>1, <1>3, UsableIsYoung
  <2>2. memory' \in [Instances -> Entry \cup {None}]
    BY <1>1, <1>3
  <2> QED BY <1>1, <1>3, <2>1, <2>2, Resolved, StepKeeps
<1>4. CASE /\ work[i].tries + 1 # Polls /\ work[i].pc = "wait" /\ UNCHANGED memory
           /\ work' = [work EXCEPT ![i].tries = @ + 1] /\ UNCHANGED request
  <2> DEFINE job == [work[i] EXCEPT !.tries = work[i].tries + 1]
  <2>1. work[i] \in Work /\ work[i].tries \in 0..(Polls - 1)
    BY <1>1 DEF Typed, Work
  <2>2. work[i].tries + 1 \in 0..(Polls - 1)
    BY <1>4, <2>1, CacheAssumption
  <2>3. job \in Work /\ job.pc = "wait" /\ job.serial = work[i].serial
    BY <1>4, <2>1, <2>2 DEF Work
  <2>4. work' = [work EXCEPT ![i] = job] /\ UNCHANGED request
    BY <1>4
  <2> HIDE DEF job
  <2>5. /\ work' \in [Instances -> Work] /\ work'[i] = job
        /\ \A j \in Instances \ {i} : work'[j] = work[j]
        /\ request' \in [Requests -> Reply] /\ AnswersAreRecent'
    BY <2>3, <2>4, Moved
  <2> QED BY <1>1, <1>4, <2>3, <2>5, StepKeeps DEF Early
<1> QED BY <1>2, <1>3, <1>4 DEF Poll

(* What is read from the origin under the lock is as new as the shared     *)
(* entry: that entry came from the origin as well.                         *)
LEMMA ReadOriginKeeps ==
  ASSUME CacheInv, NEW i \in Instances, ReadOrigin(i)
  PROVE  CacheInv'
<1> DEFINE job == [work[i] EXCEPT !.pc = "loading", !.value = version]
<1>1. /\ UNCHANGED <<now, version, memory, redis, lock, fallback, request>>
      /\ work[i].serial # 0 /\ work[i] \in Work /\ version \in Nat
      /\ memory' \in [Instances -> Entry \cup {None}] /\ fallback' \in Entry \cup {None}
  BY DEF ReadOrigin, CacheInv, WorkInv, Typed
<1>2. "loading" \in Pcs /\ version \in Entry \cup {None} \cup Nat
  BY <1>1 DEF Pcs
<1>3. /\ job \in Work /\ job.pc = "loading" /\ job.serial = work[i].serial
      /\ job.value = version
  BY <1>1, <1>2 DEF Work
<1>4. work' = [work EXCEPT ![i] = job]
  BY DEF ReadOrigin
<1> HIDE DEF job
<1>5. /\ work' \in [Instances -> Work] /\ work'[i] = job
      /\ \A j \in Instances \ {i} : work'[j] = work[j]
      /\ request' \in [Requests -> Reply] /\ AnswersAreRecent'
  BY <1>1, <1>3, <1>4, Moved
<1>6. WorkInv(i)'
  BY <1>1, <1>3, <1>5 DEF WorkInv
<1>7. OwnerInv(i)'
  <2>1. redis # None => redis.entry.version <= version
    BY DEF CacheInv, RedisInv
  <2> QED BY <1>1, <1>3, <1>5, <2>1 DEF OwnerInv
<1> QED BY <1>1, <1>3, <1>5, <1>6, <1>7, StepKeeps

LEMMA LoadedKeeps ==
  ASSUME CacheInv, NEW i \in Instances, Loaded(i)
  PROVE  CacheInv'
<1> DEFINE value == [version |-> work[i].value, written |-> now]
           next == IF work[i].locked THEN "publish" ELSE "remember"
           job == [work[i] EXCEPT !.value = value, !.pc = next]
<1>1. /\ UNCHANGED <<now, version, memory, redis, lock, request>>
      /\ work[i].serial # 0 /\ work[i] \in Work /\ now \in 0..MaxTime /\ version \in Nat
      /\ memory' \in [Instances -> Entry \cup {None}] /\ fallback \in Entry \cup {None}
      /\ work[i].pc = "loading" /\ work[i].value \in Nat /\ work[i].value <= version
      /\ OwnerInv(i)
  BY DEF Loaded, CacheInv, WorkInv, Typed
<1>2. value \in Entry /\ value.version = work[i].value /\ value.written = now
  BY <1>1 DEF Entry
<1>3. Young(value)
  BY <1>1, <1>2, CacheAssumption DEF Young
<1>4. next \in Pcs /\ next \in {"publish", "remember"}
  BY DEF Pcs
<1>5. fallback' \in Entry \cup {None}
  BY <1>1, <1>2 DEF Loaded
<1>6. work' = [work EXCEPT ![i] = [work[i] EXCEPT !.value = value, !.pc = next]]
  BY DEF Loaded
<1> HIDE DEF value, next
<1>7. /\ job \in Work /\ job.pc = next /\ job.serial = work[i].serial
      /\ job.value = value
  BY <1>1, <1>2, <1>4 DEF Work
<1>8. work' = [work EXCEPT ![i] = job]
  BY <1>6
<1> HIDE DEF job
<1>9. /\ work' \in [Instances -> Work] /\ work'[i] = job
      /\ \A j \in Instances \ {i} : work'[j] = work[j]
      /\ request' \in [Requests -> Reply] /\ AnswersAreRecent'
  BY <1>1, <1>7, <1>8, Moved
<1>10. WorkInv(i)'
  <2>1. Young(work[i].value)'
    BY <1>1, <1>3, <1>7, <1>9 DEF Young
  <2> QED BY <1>1, <1>2, <1>4, <1>7, <1>9, <2>1 DEF WorkInv
<1>11. OwnerInv(i)'
  BY <1>1, <1>2, <1>4, <1>7, <1>9 DEF OwnerInv, Owner
<1> QED BY <1>1, <1>5, <1>7, <1>9, <1>10, <1>11, StepKeeps

LEMMA ReadFallbackKeeps ==
  ASSUME CacheInv, NEW i \in Instances, ReadFallback(i)
  PROVE  CacheInv'
<1> DEFINE job == [work[i] EXCEPT !.pc = "remember", !.value = fallback]
<1>1. /\ UNCHANGED <<now, version, memory, redis, lock, fallback, request>>
      /\ work[i].serial # 0 /\ work[i] \in Work /\ Typed
      /\ memory' \in [Instances -> Entry \cup {None}] /\ fallback \in Entry \cup {None}
  BY DEF ReadFallback, CacheInv, WorkInv, Typed
<1>2. fallback \in Entry /\ Young(fallback)
  BY <1>1, UsableIsYoung DEF ReadFallback, Acceptable
<1>3. "remember" \in Pcs
  BY DEF Pcs
<1>4. /\ job \in Work /\ job.pc = "remember" /\ job.serial = work[i].serial
      /\ job.value = fallback
  BY <1>1, <1>2, <1>3 DEF Work
<1>5. work' = [work EXCEPT ![i] = job]
  BY DEF ReadFallback
<1> HIDE DEF job
<1>6. /\ work' \in [Instances -> Work] /\ work'[i] = job
      /\ \A j \in Instances \ {i} : work'[j] = work[j]
      /\ request' \in [Requests -> Reply] /\ AnswersAreRecent'
  BY <1>1, <1>4, <1>5, Moved
<1>7. WorkInv(i)' /\ OwnerInv(i)'
  BY <1>1, <1>2, <1>4, <1>6 DEF WorkInv, OwnerInv, Young
<1> QED BY <1>1, <1>4, <1>6, <1>7, StepKeeps

LEMMA LoadFailsKeeps ==
  ASSUME CacheInv, NEW i \in Instances, LoadFails(i)
  PROVE  CacheInv'
<1> DEFINE last == IF Usable(work[i].entry) THEN work[i].entry ELSE None
           job == [work[i] EXCEPT !.pc = "unlock", !.value = last]
<1>1. /\ UNCHANGED <<now, version, memory, redis, lock, fallback>>
      /\ work[i].serial # 0 /\ work[i] \in Work /\ Typed
      /\ memory' \in [Instances -> Entry \cup {None}] /\ fallback' \in Entry \cup {None}
  BY DEF LoadFails, CacheInv, WorkInv, Typed
<1>2. work[i].entry \in Entry \cup {None}
  BY <1>1 DEF Work
<1>3. last = None \/ (last \in Entry /\ Young(last))
  BY <1>1, <1>2, UsableIsYoung
<1>4. \/ work' = [work EXCEPT ![i] = [work[i] EXCEPT !.pc = "unlock", !.value = last]]
         /\ UNCHANGED request
      \/ Reject(i, "failed")
      \/ last # None /\ Resolve(i, last)
  BY DEF LoadFails
<1> HIDE DEF last
<1>5. CASE work' = [work EXCEPT ![i] = job] /\ UNCHANGED request
  <2>1. "unlock" \in Pcs
    BY DEF Pcs
  <2>2. /\ job \in Work /\ job.pc = "unlock" /\ job.serial = work[i].serial
        /\ job.value = last
    BY <1>1, <1>3, <2>1 DEF Work
  <2> HIDE DEF job
  <2>3. /\ work' \in [Instances -> Work] /\ work'[i] = job
        /\ \A j \in Instances \ {i} : work'[j] = work[j]
        /\ request' \in [Requests -> Reply] /\ AnswersAreRecent'
    BY <1>5, <2>2, Moved
  <2>4. WorkInv(i)' /\ OwnerInv(i)'
    BY <1>1, <1>3, <2>2, <2>3 DEF WorkInv, OwnerInv, Young
  <2> QED BY <1>1, <2>2, <2>3, <2>4, StepKeeps
<1>6. CASE Reject(i, "failed")
  BY <1>1, <1>6, Rejected, StepKeeps
<1>7. CASE last # None /\ Resolve(i, last)
  BY <1>1, <1>3, <1>7, Resolved, StepKeeps
<1> QED BY <1>4, <1>5, <1>6, <1>7

(* Only the owner of the lock writes the shared entry, and what it has     *)
(* loaded is as new.                                                       *)
LEMMA PublishNeverRegresses ==
  ASSUME CacheInv, NEW i \in Instances, Publish(i)
  PROVE  /\ redis # None => redis'.entry.version >= redis.entry.version
         /\ RedisInv'
         /\ \/ redis' = redis
            \/ lock # None /\ lock.owner = Owner(i) /\ redis'.entry = work[i].value
<1>1. /\ work[i].pc = "publish" /\ work[i].value \in Entry /\ version' = version
      /\ work[i].value.version <= version /\ version \in Nat
      /\ RedisInv /\ OwnerInv(i)
  BY DEF Publish, CacheInv, WorkInv, Typed
<1>2. work[i].value.version \in Nat /\ (redis # None => redis.entry.version \in Nat)
  BY <1>1 DEF Entry, RedisInv
<1>3. CASE redis' = redis
  BY <1>1, <1>2, <1>3 DEF RedisInv
<1>4. CASE OwnsLock(i) /\
           redis' = [entry |-> work[i].value, expires |-> now + Fresh + Stale]
  <2>1. lock # None /\ lock.owner = Owner(i) /\ redis'.entry = work[i].value
    BY <1>4 DEF OwnsLock
  <2>2. redis # None => redis.entry.version <= work[i].value.version
    BY <1>1, <2>1 DEF OwnerInv
  <2> QED BY <1>1, <1>2, <2>1, <2>2 DEF RedisInv
<1> QED BY <1>3, <1>4 DEF Publish, MayPublish

LEMMA PublishKeeps ==
  ASSUME CacheInv, NEW i \in Instances, Publish(i)
  PROVE  CacheInv'
<1>1. /\ UNCHANGED <<now, version, memory, lock, fallback>>
      /\ work[i].serial # 0 /\ Typed /\ work[i].value \in Entry /\ Young(work[i].value)
      /\ Goto(i, "remember")
  BY DEF Publish, CacheInv, WorkInv
<1>2. "remember" \in Pcs
  BY DEF Pcs
<1>3. /\ work' \in [Instances -> Work]
      /\ work'[i].pc = "remember" /\ work'[i].serial = work[i].serial
      /\ work'[i].value = work[i].value
      /\ \A j \in Instances \ {i} : work'[j] = work[j]
      /\ request' \in [Requests -> Reply] /\ AnswersAreRecent'
  BY <1>1, <1>2, Goes
<1>4. Typed'
  BY <1>1, <1>3 DEF Typed
<1>5. WorkInv(i)' /\ OwnerInv(i)'
  BY <1>1, <1>3 DEF WorkInv, OwnerInv, Young
<1>6. ASSUME NEW j \in Instances, j # i
      PROVE  WorkInv(j)' /\ OwnerInv(j)'
  <2>1. work'[j] = work[j] /\ WorkInv(j) /\ OwnerInv(j)
    BY <1>3, <1>6 DEF CacheInv
  <2>2. WorkInv(j)'
    BY <1>1, <2>1 DEF WorkInv, Young
  <2>3. lock # None /\ lock.owner = Owner(j) => redis' = redis
    BY <1>6, PublishNeverRegresses DEF Owner
  <2>4. OwnerInv(j)'
    BY <1>1, <2>1, <2>3 DEF OwnerInv, Owner
  <2> QED BY <2>2, <2>4
<1> QED BY <1>3, <1>4, <1>5, <1>6, PublishNeverRegresses DEF CacheInv

LEMMA RememberKeeps ==
  ASSUME CacheInv, NEW i \in Instances, Remember(i)
  PROVE  CacheInv'
<1>1. /\ UNCHANGED <<now, version, redis, lock, fallback>>
      /\ work[i].serial # 0 /\ Typed /\ work[i].value \in Entry /\ Young(work[i].value)
      /\ fallback' \in Entry \cup {None}
  BY DEF Remember, CacheInv, WorkInv, Typed
<1>2. memory' \in [Instances -> Entry \cup {None}]
  BY <1>1 DEF Remember, Typed
<1>3. CASE Goto(i, "unlock")
  <2>1. "unlock" \in Pcs
    BY DEF Pcs
  <2>2. /\ work' \in [Instances -> Work]
        /\ work'[i].pc = "unlock" /\ work'[i].serial = work[i].serial
        /\ work'[i].value = work[i].value
        /\ \A j \in Instances \ {i} : work'[j] = work[j]
        /\ request' \in [Requests -> Reply] /\ AnswersAreRecent'
    BY <1>3, <2>1, Goes
  <2>3. WorkInv(i)' /\ OwnerInv(i)'
    BY <1>1, <2>2 DEF WorkInv, OwnerInv, Young
  <2> QED BY <1>1, <1>2, <2>2, <2>3, StepKeeps
<1>4. CASE Resolve(i, work[i].value)
  BY <1>1, <1>2, <1>4, Resolved, StepKeeps
<1> QED BY <1>3, <1>4 DEF Remember

LEMMA UnlockKeeps ==
  ASSUME CacheInv, NEW i \in Instances, Unlock(i)
  PROVE  CacheInv'
<1>1. /\ UNCHANGED <<now, version, memory, redis, fallback>>
      /\ work[i].serial # 0 /\ Typed
      /\ work[i].value # None => work[i].value \in Entry /\ Young(work[i].value)
      /\ memory' \in [Instances -> Entry \cup {None}] /\ fallback' \in Entry \cup {None}
  BY DEF Unlock, CacheInv, WorkInv, Typed
<1>2. lock' = lock \/ lock' = None
  BY DEF Unlock
<1>3. CASE Reject(i, "failed")
  BY <1>1, <1>2, <1>3, Rejected, StepKeeps
<1>4. CASE work[i].value # None /\ Resolve(i, work[i].value)
  BY <1>1, <1>2, <1>4, Resolved, StepKeeps
<1> QED BY <1>3, <1>4 DEF Unlock

LEMMA CrashKeeps ==
  ASSUME CacheInv, NEW i \in Instances, Crash(i)
  PROVE  CacheInv'
<1>1. /\ UNCHANGED <<now, version, redis, lock, fallback>>
      /\ work[i].serial # 0 /\ Typed /\ fallback' \in Entry \cup {None}
  BY DEF Crash, CacheInv, WorkInv, Typed
<1>2. memory' \in [Instances -> Entry \cup {None}]
  BY <1>1 DEF Crash, Typed
<1>3. Reject(i, "failed")
  BY DEF Crash
<1> QED BY <1>1, <1>2, <1>3, Rejected, StepKeeps

(* Time passes only while no work holds what it has loaded.                *)
LEMMA EnvironmentKeeps ==
  ASSUME CacheInv, Change \/ Tick
  PROVE  CacheInv'
<1>1. CASE Change
  <2>1. /\ UNCHANGED <<now, memory, redis, lock, fallback, work, request>>
        /\ version \in Nat /\ version' = version + 1
    BY <1>1 DEF Change, CacheInv, Typed
  <2>2. Typed' /\ AnswersAreRecent'
    BY <2>1 DEF CacheInv, Typed, AnswersAreRecent
  <2>3. RedisInv'
    BY <2>1 DEF CacheInv, RedisInv, Entry
  <2>4. ASSUME NEW i \in Instances
        PROVE  WorkInv(i)' /\ OwnerInv(i)'
    <3>1. WorkInv(i) /\ OwnerInv(i)
      BY DEF CacheInv
    <3>2. OwnerInv(i)'
      BY <2>1, <3>1 DEF OwnerInv, Owner
    <3>3. WorkInv(i)'
      BY <2>1, <3>1 DEF WorkInv, Young, Entry
    <3> QED BY <3>2, <3>3
  <2> QED BY <2>2, <2>3, <2>4 DEF CacheInv
<1>2. CASE Tick
  <2>1. /\ UNCHANGED <<version, memory, redis, lock, fallback, work, request>>
        /\ now < MaxTime /\ now' = now + 1
        /\ \A i \in Instances : work[i].pc \in {"idle", "loading", "wait"}
    BY <1>2 DEF Tick
  <2>2. Typed'
    BY <2>1, CacheAssumption DEF CacheInv, Typed
  <2>3. AnswersAreRecent' /\ RedisInv'
    BY <2>1 DEF CacheInv, RedisInv, AnswersAreRecent
  <2>4. ASSUME NEW i \in Instances
        PROVE  WorkInv(i)' /\ OwnerInv(i)'
    <3>1. WorkInv(i) /\ OwnerInv(i)
      BY DEF CacheInv
    <3>2. OwnerInv(i)'
      BY <2>1, <3>1 DEF OwnerInv, Owner
    <3>3. WorkInv(i)'
      BY <2>1, <3>1 DEF WorkInv
    <3> QED BY <3>2, <3>3
  <2> QED BY <2>2, <2>3, <2>4 DEF CacheInv
<1> QED BY <1>1, <1>2

LEMMA NextKeeps == CacheInv /\ [Next]_vars => CacheInv'
<1> SUFFICES ASSUME CacheInv, [Next]_vars PROVE CacheInv'
  OBVIOUS
<1>1. CASE \E r \in Requests, i \in Instances, crowded \in BOOLEAN : Request(r, i, crowded)
  BY <1>1, RequestKeeps
<1>2. ASSUME NEW i \in Instances, WorkStep(i) \/ Crash(i)
      PROVE  CacheInv'
  BY <1>2, GetKeeps, LockKeeps, PollKeeps, ReadOriginKeeps, LoadedKeeps,
     LoadFailsKeeps, ReadFallbackKeeps, PublishKeeps, RememberKeeps, UnlockKeeps,
     CrashKeeps DEF WorkStep
<1>3. CASE Change \/ Tick
  BY <1>3, EnvironmentKeeps
<1>4. CASE UNCHANGED vars
  BY <1>4 DEF vars, CacheInv, Typed, RedisInv, WorkInv, OwnerInv, Owner, Young,
     AnswersAreRecent
<1> QED BY <1>1, <1>2, <1>3, <1>4 DEF Next

-----------------------------------------------------------------------------
(* Theorems *)

(* The invariant of the public cache holds in every state.                 *)
THEOREM CacheInvariant == Spec => []CacheInv
<1> QED BY InitCacheInv, NextKeeps, PTL DEF Spec

(* No answer is older than the policy of its route allows, with Redis up,  *)
(* down or coming back, and the state is typed.                            *)
THEOREM AnswersStayCurrent == Spec => []AnswersAreCurrent
<1>1. CacheInv => AnswersAreCurrent
  <2> SUFFICES ASSUME CacheInv PROVE TypeOK
    BY DEF CacheInv, AnswersAreCurrent
  <2>1. \A i \in Instances : work[i].tries \in 0..(Polls - 1)
    BY DEF CacheInv, Typed, Work
  <2>2. \A i \in Instances : work[i].tries < Polls
    BY <2>1, CacheAssumption
  <2> QED BY <2>2 DEF CacheInv, Typed, RedisInv, TypeOK
<1> QED BY <1>1, CacheInvariant, PTL

(* An expired loader never overwrites a newer refresh: the shared entry    *)
(* never goes back to an older state of the origin.                        *)
THEOREM SharedEntryOnlyAdvances == Spec => RefreshNeverRegresses
<1>1. CacheInv /\ [Next]_vars => [EntryIsNewer]_vars
  <2> SUFFICES ASSUME CacheInv, [Next]_vars, redis # None
      PROVE  redis'.entry.version >= redis.entry.version
    BY DEF EntryIsNewer
  <2>1. redis.entry.version \in Nat
    BY DEF CacheInv, RedisInv, Entry
  <2>2. CASE redis' = redis
    BY <2>1, <2>2
  <2>3. CASE \E i \in Instances : Publish(i)
    BY <2>3, PublishNeverRegresses
  <2> QED
    BY <2>2, <2>3 DEF Next, vars, Request, WorkStep, Get, Lock, Poll, ReadOrigin,
       Loaded, LoadFails, ReadFallback, Remember, Unlock, Crash, Change, Tick
<1>2. [][CacheInv /\ [Next]_vars => [EntryIsNewer]_vars]_vars
  BY <1>1, PTL
<1> QED BY <1>1, CacheInvariant, PTL DEF Spec, RefreshNeverRegresses

-----------------------------------------------------------------------------
(* The transaction review *)

Status == {"none", "prepared", "submitted"} \cup Review!Terminal
Shown == [shown : Intents \cup {None}, status : Status \cup {"approval-failed"},
          direct : BOOLEAN, error : BOOLEAN,
          signing : {"no", "authenticating", "rebuilding", "wallet", "submitting"},
          current : Intents \cup {None}]
Call == [intent : Intents, resume : BOOLEAN, answer : (Status \ {"none"}) \cup {None}]
Submit == [intent : Intents,
           answer : Review!Terminal \cup {"submitted", "rejected", None}]

(* What is said of an intent agrees with its row: it exists, and what ended *)
(* it is final.                                                            *)
Told(s, i, status) == s[i] # "none" /\ (status \in Review!Terminal => s[i] = status)

PageInv(p, s) ==
  /\ p \in Shown
  /\ p.shown = None <=> p.status = "none"
  /\ p.shown # None => Told(s, p.shown, p.status)
  /\ p.signing = "no" <=> p.current = None
  /\ p.current # None => s[p.current] # "none"

Kept(i, s) == i \in Intents \cup {None} /\ (i # None => s[i] # "none")

CountInv ==
  /\ notified \subseteq Intents
  /\ counted = [i \in Intents |-> IF i \in notified THEN 1 ELSE 0]

CallsInv ==
  /\ calls \subseteq Call
  /\ \A c \in calls : Told(server, c.intent, c.answer)
  /\ late \subseteq Intents
  /\ \A i \in late : server[i] # "none"

SubmitInv ==
  /\ submitted \in Submit \cup {None}
  /\ submitted # None <=> page.signing = "submitting"
  /\ submitted # None =>
       /\ submitted.intent = page.current
       /\ Told(server, submitted.intent, submitted.answer)

ReviewInv ==
  /\ server \in [Intents -> Status]
  /\ PageInv(page, server) /\ Kept(storage, server) /\ CountInv /\ CallsInv /\ SubmitInv

(* Rows only come to be, and what has ended stays.                         *)
Advance(s, t) ==
  /\ s \in [Intents -> Status] /\ t \in [Intents -> Status]
  /\ \A i \in Intents :
       (s[i] # "none" => t[i] # "none") /\ (s[i] \in Review!Terminal => t[i] = s[i])

LEMMA PageAdvances ==
  ASSUME ReviewAssumption, NEW p, NEW s, NEW t, Advance(s, t), PageInv(p, s)
  PROVE  PageInv(p, t)
BY DEF ReviewAssumption, Advance, PageInv, Told, Shown, Status, Review!Terminal

LEMMA NetworkAdvances ==
  ASSUME ReviewAssumption, CallsInv, SubmitInv, PageInv(page, server),
         Advance(server, server'), UNCHANGED Review!network,
         page'.current = page.current, page'.signing = page.signing
  PROVE  CallsInv' /\ SubmitInv'
<1>1. CallsInv'
  BY DEF ReviewAssumption, Advance, CallsInv, Call, Told, Review!network, Status,
     Review!Terminal
<1>2. SubmitInv'
  BY DEF ReviewAssumption, Advance, SubmitInv, Submit, Told, Review!network, Status,
     Review!Terminal
<1>. QED  BY <1>1, <1>2

LEMMA CommitKeeps ==
  ASSUME ReviewAssumption, CountInv, NEW p, NEW k, NEW s, PageInv(p, s), Kept(k, s),
         Review!Commit(p, k)
  PROVE  /\ PageInv(page', s) /\ Kept(storage', s) /\ CountInv'
         /\ page'.signing = p.signing /\ page'.current = p.current
<1> DEFINE ended == /\ p.shown # None /\ p.status = "confirmed"
                    /\ ~Review!Continues(p.shown, p.status) /\ ~Review!Seen(p.shown)
<1>1. CASE ended
  <2>1. /\ page' = [p EXCEPT !.shown = None, !.status = "none", !.error = FALSE]
        /\ storage' = None
        /\ counted' = [counted EXCEPT ![p.shown] = @ + 1]
        /\ notified' = notified \cup {p.shown}
    BY <1>1 DEF Review!Commit
  <2>2. PageInv(page', s) /\ page'.signing = p.signing /\ page'.current = p.current
    BY <2>1 DEF PageInv, Shown, Told, Status, Review!Terminal
  <2>3. p.shown \in Intents /\ p.shown \notin notified
    BY <1>1 DEF PageInv, Shown, Review!Seen
  <2>4. CountInv'
    <3> DEFINE i == p.shown
    <3>1. /\ i \in Intents \ notified /\ notified' = notified \cup {i}
          /\ counted' = [counted EXCEPT ![i] = @ + 1]
      BY <2>1, <2>3
    <3>. HIDE DEF i
    <3>2. counted = [j \in Intents |-> IF j \in notified THEN 1 ELSE 0] /\ counted[i] = 0
      BY <3>1 DEF CountInv
    <3>3. counted \in [Intents -> 0..1]
      BY <3>2
    <3>4. counted' = [counted EXCEPT ![i] = 1]
      BY <3>1, <3>2
    <3>5. counted' \in [Intents -> 0..1]
      BY <3>1, <3>3, <3>4
    <3>6. \A j \in Intents : counted'[j] = IF j \in notified' THEN 1 ELSE 0
      BY <3>1, <3>2, <3>3, <3>4
    <3>7. counted' = [j \in Intents |-> IF j \in notified' THEN 1 ELSE 0]
      BY <3>5, <3>6
    <3>. QED  BY <3>1, <3>7 DEF CountInv
  <2>. QED  BY <2>1, <2>2, <2>4 DEF Kept
<1>2. CASE ~ended
  BY <1>2 DEF Review!Commit, CountInv
<1>. QED  BY <1>1, <1>2

LEMMA SignFailsKeeps ==
  ASSUME ReviewAssumption, ReviewInv, page.signing # "no",
         NEW attempted, NEW rejected, Review!SignFails(attempted, rejected),
         UNCHANGED server
  PROVE  /\ PageInv(page, server)' /\ Kept(storage, server)' /\ CountInv'
         /\ page'.signing = "no"
<1> DEFINE status == Review!TradeSubmissionFailure(attempted, rejected)
           ended == [page EXCEPT !.signing = "no", !.current = None, !.error = TRUE]
           traded == [ended EXCEPT !.shown = page.current, !.status = status]
<1>1. page.current \in Intents /\ status \in {"submitted", "approval-failed"}
  BY DEF ReviewInv, PageInv, Shown, Review!TradeSubmissionFailure
<1>2. PageInv(ended, server) /\ ended.signing = "no"
  BY DEF ReviewAssumption, ReviewInv, PageInv, Shown, Told, Status, Review!Terminal
<1>3. PageInv(traded, server) /\ traded.signing = "no"
  BY <1>1 DEF ReviewAssumption, ReviewInv, PageInv, Shown, Told, Status, Review!Terminal
<1>4. Kept(storage, server) /\ Kept(None, server) /\ CountInv
  BY DEF ReviewInv, Kept
<1>5. CASE page.current \in Trades
  <2>1. PICK k \in {storage, None} : Review!Commit(traded, k)
    BY <1>5, Zenon DEF Review!SignFails
  <2>. HIDE DEF traded
  <2>2. PageInv(page', server) /\ Kept(storage',
  server) /\ CountInv' /\ page'.signing = traded.signing
    BY <1>3, <1>4, <2>1, CommitKeeps
  <2>. QED  BY <1>3, <2>2
<1>6. CASE page.current \notin Trades
  <2>1. Review!Commit(ended, storage)
    BY <1>6 DEF Review!SignFails
  <2>. HIDE DEF ended
  <2>2. PageInv(page', server) /\ Kept(storage',
  server) /\ CountInv' /\ page'.signing = ended.signing
    BY <1>2, <1>4, <2>1, CommitKeeps
  <2>. QED  BY <1>2, <2>2
<1>. QED  BY <1>5, <1>6

LEMMA ReviewKeeps ==
  ASSUME ReviewAssumption, ReviewInv, NEW i \in Intents, Review!Review(i)
  PROVE  ReviewInv'
<1> DEFINE p == [page EXCEPT !.shown = i, !.status = server'[i], !.direct = FALSE,
                             !.error = FALSE]
<1>1. /\ server' \in [Intents -> Status] /\ Advance(server, server')
      /\ server'[i] # "none" /\ Review!Commit(p, i) /\ UNCHANGED Review!network
  BY DEF Review!Review, ReviewInv, Advance, Status, Review!Terminal
<1>2. PageInv(page, server')
  BY <1>1, PageAdvances DEF ReviewInv
<1>3. PageInv(p, server') /\ p.current = page.current /\ p.signing = page.signing
  BY <1>1, <1>2 DEF ReviewAssumption, PageInv, Told, Shown
<1>4. Kept(i, server')
  BY <1>1 DEF Kept
<1>. HIDE DEF p
<1>5. /\ PageInv(page', server') /\ Kept(storage', server') /\ CountInv'
      /\ page'.signing = p.signing /\ page'.current = p.current
  BY <1>1, <1>3, <1>4, CommitKeeps DEF ReviewInv
<1>6. CallsInv' /\ SubmitInv'
  BY <1>1, <1>3, <1>5, NetworkAdvances DEF ReviewInv
<1>. QED  BY <1>1, <1>5, <1>6 DEF ReviewInv

LEMMA ExecuteTradeKeeps ==
  ASSUME ReviewAssumption, ReviewInv, NEW i \in Intents, Review!ExecuteTrade(i)
  PROVE  ReviewInv'
<1>1. /\ server' = [server EXCEPT ![i] = "prepared"] /\ server[i] = "none"
      /\ page' = [page EXCEPT !.shown = i, !.status = "prepared", !.direct = TRUE,
                              !.signing = "authenticating", !.current = i, !.error = FALSE]
      /\ storage' = i /\ page.signing = "no"
      /\ UNCHANGED Review!network /\ UNCHANGED <<counted, notified>>
  BY DEF Review!ExecuteTrade, Review!StartSigning, Review!Busy
<1>2. Advance(server, server') /\ server' \in [Intents -> Status]
  BY <1>1 DEF ReviewInv, Advance, Status, Review!Terminal
<1>3. PageInv(page', server') /\ page'.signing = "authenticating"
  BY <1>1, <1>2 DEF ReviewAssumption, ReviewInv, PageInv, Told, Shown, Status,
     Review!Terminal
<1>4. Kept(storage', server') /\ CountInv'
  BY <1>1 DEF ReviewInv, Kept, CountInv
<1>5. CallsInv'
  BY <1>1, <1>2 DEF ReviewAssumption, ReviewInv, Advance, CallsInv, Call, Told,
     Review!network, Status,
    Review!Terminal
<1>6. SubmitInv'
  BY <1>1, <1>3 DEF ReviewInv, SubmitInv, Review!network
<1>. QED  BY <1>2, <1>3, <1>4, <1>5, <1>6 DEF ReviewInv

LEMMA ApproveKeeps == ASSUME ReviewAssumption, ReviewInv, Review!Approve PROVE ReviewInv'
<1>1. /\ page' = [page EXCEPT !.signing = "authenticating", !.current = page.shown,
                              !.error = FALSE]
      /\ page.signing = "no" /\ page.shown # None
      /\ UNCHANGED <<server, storage, counted, notified>> /\ UNCHANGED Review!network
  BY DEF Review!Approve, Review!StartSigning, Review!Busy
<1>2. PageInv(page', server') /\ page'.signing = "authenticating"
  BY <1>1 DEF ReviewAssumption, ReviewInv, PageInv, Told, Shown, Status, Review!Terminal
<1>. QED
  BY <1>1, <1>2 DEF ReviewInv, Kept, CountInv, CallsInv, SubmitInv, Review!network

LEMMA CloseKeeps == ASSUME ReviewAssumption, ReviewInv, Review!Close PROVE ReviewInv'
<1>1. /\ page' = [page EXCEPT !.shown = None, !.status = "none"]
      /\ UNCHANGED <<server, storage, counted, notified>> /\ UNCHANGED Review!network
  BY DEF Review!Close
<1>2. PageInv(page',
server') /\ page'.signing = page.signing /\ page'.current = page.current
  BY <1>1 DEF ReviewAssumption, ReviewInv, PageInv, Told, Shown, Status, Review!Terminal
<1>. QED
  BY <1>1, <1>2 DEF ReviewInv, Kept, CountInv, CallsInv, SubmitInv, Review!network

(* Failing before the submit call, the page leaves the network alone.      *)
LEMMA EarlyFailureKeeps ==
  ASSUME ReviewAssumption, ReviewInv,
         page.signing \in {"authenticating", "rebuilding", "wallet"},
         Review!SignFails(FALSE, FALSE), UNCHANGED server, UNCHANGED Review!network
  PROVE  ReviewInv'
<1>1. /\ PageInv(page, server)' /\ Kept(storage, server)' /\ CountInv'
      /\ page'.signing = "no"
  BY SignFailsKeeps
<1>2. CallsInv'
  BY DEF ReviewInv, CallsInv, Review!network
<1>3. SubmitInv'
  BY <1>1 DEF ReviewInv, SubmitInv, Review!network
<1>. QED  BY <1>1, <1>2, <1>3 DEF ReviewInv

LEMMA AuthenticateKeeps == ASSUME ReviewAssumption, ReviewInv,
                                  Review!Authenticate PROVE ReviewInv'
<1>1. /\ page.signing = "authenticating" /\ UNCHANGED server /\ UNCHANGED Review!network
  BY DEF Review!Authenticate
<1>2. CASE Review!SignFails(FALSE, FALSE)
  BY <1>1, <1>2, EarlyFailureKeeps
<1>3. ASSUME NEW next \in {"rebuilding", "wallet"},
             page' = [page EXCEPT !.signing = next],
             UNCHANGED <<storage, counted, notified>>
      PROVE  ReviewInv'
  <2>1. PageInv(page', server') /\ page'.signing = next
    BY <1>1, <1>3 DEF ReviewInv, PageInv, Shown
  <2>. QED
    BY <1>1, <1>3, <2>1 DEF ReviewInv, Kept, CountInv, CallsInv, SubmitInv, Review!network
<1>. QED  BY <1>2, <1>3 DEF Review!Authenticate

LEMMA RebuildKeeps == ASSUME ReviewAssumption, ReviewInv, Review!Rebuild PROVE ReviewInv'
<1>1. page.signing = "rebuilding" /\ UNCHANGED Review!network
  BY DEF Review!Rebuild
<1>2. CASE Review!SignFails(FALSE, FALSE) /\ UNCHANGED server
  BY <1>1, <1>2, EarlyFailureKeeps
<1>3. ASSUME NEW i \in Setups,
             server' = IF server[i] = "none" THEN [server EXCEPT ![i] = "prepared"]
                       ELSE server,
             NEW signing \in {"no", "wallet"}, NEW current \in {i, None},
             signing = "no" <=> current = None,
             Review!Commit([page EXCEPT !.shown = i, !.status = server'[i],
                                        !.signing = signing, !.current = current], i)
      PROVE  ReviewInv'
  <2> DEFINE p == [page EXCEPT !.shown = i, !.status = server'[i],
                               !.signing = signing, !.current = current]
  <2>1. /\ i \in Intents /\ Advance(server, server') /\ server'[i] # "none"
        /\ server' \in [Intents -> Status]
    BY <1>3 DEF ReviewAssumption, ReviewInv, Advance, Status, Review!Terminal
  <2>2. PageInv(page, server')
    BY <2>1, PageAdvances DEF ReviewInv
  <2>3. PageInv(p, server') /\ p.signing = signing /\ p.current = current
    BY <1>3, <2>1, <2>2 DEF ReviewAssumption, PageInv, Told, Shown
  <2>4. Kept(i, server') /\ CountInv /\ Review!Commit(p, i)
    BY <1>3, <2>1 DEF Kept, ReviewInv
  <2>. HIDE DEF p
  <2>5. /\ PageInv(page', server') /\ Kept(storage', server') /\ CountInv'
        /\ page'.signing = signing /\ page'.current = current
    BY <2>3, <2>4, CommitKeeps
  <2>6. CallsInv'
    BY <1>1, <2>1 DEF ReviewAssumption, ReviewInv, Advance, CallsInv, Call, Told,
       Review!network, Status, Review!Terminal
  <2>7. SubmitInv'
    BY <1>1, <1>3, <2>5 DEF ReviewInv, SubmitInv, Review!network
  <2>. QED  BY <2>1, <2>5, <2>6, <2>7 DEF ReviewInv
<1>4. ASSUME ~(Review!SignFails(FALSE, FALSE) /\ UNCHANGED server) PROVE ReviewInv'
  <2>1. PICK i \in Setups :
          /\ server' = IF server[i] = "none" THEN [server EXCEPT ![i] = "prepared"]
                       ELSE server
          /\ Review!Commit(
               IF server'[i] = "prepared"
               THEN [[page EXCEPT !.shown = i, !.status = server'[i]] EXCEPT
                       !.signing = "wallet", !.current = i]
               ELSE [[page EXCEPT !.shown = i, !.status = server'[i]] EXCEPT
                       !.signing = "no", !.current = None], i)
    BY <1>4, Zenon DEF Review!Rebuild
  <2>2. page \in Shown /\ i # None
    BY <2>1 DEF ReviewAssumption, ReviewInv, PageInv
  <2>3. CASE server'[i] = "prepared"
    <3>1. [[page EXCEPT !.shown = i, !.status = server'[i]] EXCEPT
             !.signing = "wallet", !.current = i]
          = [page EXCEPT !.shown = i, !.status = server'[i], !.signing = "wallet",
                         !.current = i]
      BY <2>2 DEF Shown
    <3>. QED  BY <1>3, <2>1, <2>2, <2>3, <3>1
  <2>4. CASE server'[i] # "prepared"
    <3>1. [[page EXCEPT !.shown = i, !.status = server'[i]] EXCEPT
             !.signing = "no", !.current = None]
          = [page EXCEPT !.shown = i, !.status = server'[i], !.signing = "no",
                         !.current = None]
      BY <2>2 DEF Shown
    <3>. QED  BY <1>3, <2>1, <2>2, <2>4, <3>1
  <2>. QED  BY <2>3, <2>4
<1>. QED  BY <1>2, <1>4

LEMMA SignKeeps == ASSUME ReviewAssumption, ReviewInv, Review!Sign PROVE ReviewInv'
<1>1. /\ page.signing = "wallet" /\ page' = [page EXCEPT !.signing = "submitting"]
      /\ submitted' = [intent |-> page.current, answer |-> None]
      /\ UNCHANGED <<server, storage, calls, late, counted, notified>>
  BY DEF Review!Sign
<1>2. /\ PageInv(page', server') /\ page'.signing = "submitting"
      /\ page'.current = page.current /\ page.current \in Intents
      /\ server[page.current] # "none"
  BY <1>1 DEF ReviewInv, PageInv, Shown
<1>3. SubmitInv'
  BY <1>1, <1>2 DEF ReviewAssumption, SubmitInv, Submit, Told, Review!Terminal
<1>. QED
  BY <1>1, <1>2, <1>3 DEF ReviewInv, Kept, CountInv, CallsInv

LEMMA DeclineKeeps == ASSUME ReviewAssumption, ReviewInv, Review!Decline PROVE ReviewInv'
BY EarlyFailureKeeps DEF Review!Decline

LEMMA ReviewWalletFeeKeeps ==
  ASSUME ReviewAssumption, ReviewInv, Review!ReviewWalletFee PROVE ReviewInv'
<1>1. /\ page.signing = "wallet" /\ UNCHANGED server /\ UNCHANGED Review!network
  BY DEF Review!ReviewWalletFee
<1>2. CASE server[page.current] # "prepared"
  BY <1>1, <1>2, EarlyFailureKeeps DEF Review!ReviewWalletFee
<1>3. CASE server[page.current] = "prepared"
  <2> DEFINE p == [page EXCEPT !.shown = page.current, !.status = "prepared",
  !.error = TRUE,
                               !.signing = "no", !.current = None]
  <2>1. Review!Commit(p, storage)
    BY <1>3 DEF Review!ReviewWalletFee
  <2>2. PageInv(p, server) /\ p.signing = "no" /\ Kept(storage, server) /\ CountInv
    BY <1>1, <1>3 DEF ReviewAssumption, ReviewInv, PageInv, Told, Shown, Status,
       Review!Terminal
  <2>. HIDE DEF p
  <2>3. /\ PageInv(page', server) /\ Kept(storage', server) /\ CountInv'
        /\ page'.signing = "no"
    BY <2>1, <2>2, CommitKeeps
  <2>4. SubmitInv' /\ CallsInv'
    BY <1>1, <2>3 DEF ReviewInv, SubmitInv, CallsInv, Review!network
  <2>. QED  BY <1>1, <2>3, <2>4 DEF ReviewInv
<1>. QED  BY <1>2, <1>3

LEMMA ServedAdvances ==
  ASSUME ReviewAssumption, server \in [Intents -> Status], NEW i \in Intents,
         NEW reply \in Review!Terminal \cup {"submitted", "rejected"}, Review!Served(i,
         reply),
         server[i] # "none"
  PROVE  Advance(server, server') /\ Told(server', i, reply)
BY DEF Review!Served, Advance, Told, Status, Review!Terminal

(* What the server learns while the page stands still.                     *)
LEMMA ServerAdvances ==
  ASSUME ReviewAssumption, ReviewInv, Advance(server, server'),
         UNCHANGED <<page, storage, counted, notified>>
  PROVE  /\ server' \in [Intents -> Status] /\ PageInv(page, server)'
         /\ Kept(storage, server)' /\ CountInv'
<1>1. PageInv(page, server')
  BY PageAdvances DEF ReviewInv
<1>2. Kept(storage, server')
  BY DEF ReviewInv, Kept, Advance
<1>. QED  BY <1>1, <1>2 DEF ReviewInv, CountInv, Advance

LEMMA ServeSubmitKeeps == ASSUME ReviewAssumption, ReviewInv,
                                 Review!ServeSubmit PROVE ReviewInv'
<1>1. PICK reply \in Review!Terminal \cup {"submitted", "rejected"} :
        /\ Review!Served(submitted.intent, reply)
        /\ submitted' = [submitted EXCEPT !.answer = reply]
  BY DEF Review!ServeSubmit
<1>2. /\ submitted # None /\ submitted \in Submit /\ submitted.intent \in Intents
      /\ server[submitted.intent] # "none" /\ page.signing = "submitting"
      /\ submitted.intent = page.current
      /\ UNCHANGED <<page, storage, calls, late, counted, notified>>
  BY DEF Review!ServeSubmit, ReviewInv, SubmitInv, Submit, Told
<1>3. Advance(server, server') /\ Told(server', submitted.intent, reply)
  BY <1>1, <1>2, ServedAdvances DEF ReviewInv
<1>4. /\ server' \in [Intents -> Status] /\ PageInv(page, server)'
      /\ Kept(storage, server)' /\ CountInv'
  BY <1>2, <1>3, ServerAdvances
<1>5. CallsInv'
  BY <1>2, <1>3 DEF ReviewAssumption, ReviewInv, Advance, CallsInv, Call, Told, Status,
     Review!Terminal
<1>6. /\ submitted' \in Submit /\ submitted'.intent = submitted.intent
      /\ submitted'.answer = reply
  BY <1>1, <1>2 DEF Submit
<1>7. SubmitInv'
  BY <1>2, <1>3, <1>6 DEF ReviewAssumption, SubmitInv, Submit
<1>. QED  BY <1>4, <1>5, <1>7 DEF ReviewInv

LEMMA ServeLateKeeps ==
  ASSUME ReviewAssumption, ReviewInv, NEW i \in Intents,
         Review!ServeLate(i) PROVE ReviewInv'
<1>1. PICK reply \in Review!Terminal \cup {"submitted", "rejected"} : Review!Served(i,
reply)
  BY DEF Review!ServeLate
<1>2. /\ i \in late /\ late' = late \ {i} /\ server[i] # "none"
      /\ UNCHANGED <<page, storage, calls, submitted, counted, notified>>
  BY DEF Review!ServeLate, ReviewInv, CallsInv
<1>3. Advance(server, server')
  BY <1>1, <1>2, ServedAdvances DEF ReviewInv
<1>4. /\ server' \in [Intents -> Status] /\ PageInv(page, server)'
      /\ Kept(storage, server)' /\ CountInv'
  BY <1>2, <1>3, ServerAdvances
<1>5. CallsInv'
  BY <1>2, <1>3 DEF ReviewAssumption, ReviewInv, Advance, CallsInv, Call, Told, Status,
     Review!Terminal
<1>6. SubmitInv'
  BY <1>2, <1>3 DEF ReviewAssumption, ReviewInv, Advance, SubmitInv, Submit, Told,
     Status, Review!Terminal
<1>. QED  BY <1>4, <1>5, <1>6 DEF ReviewInv

LEMMA SettleKeeps ==
  ASSUME ReviewAssumption, ReviewInv, NEW i \in Intents, Review!Settle(i) PROVE ReviewInv'
<1>1. Advance(server, server')
  BY DEF ReviewInv, Review!Settle, Advance, Status, Review!Terminal
<1>2. UNCHANGED <<page, storage, counted, notified>> /\ UNCHANGED Review!network
  BY DEF Review!Settle
<1>3. /\ server' \in [Intents -> Status] /\ PageInv(page, server)'
      /\ Kept(storage, server)' /\ CountInv'
  BY <1>1, <1>2, ServerAdvances
<1>4. CallsInv' /\ SubmitInv'
  BY <1>1, <1>2, NetworkAdvances DEF ReviewInv
<1>. QED  BY <1>3, <1>4 DEF ReviewInv

LEMMA SubmitAnswersKeeps ==
  ASSUME ReviewAssumption, ReviewInv, Review!SubmitAnswers PROVE ReviewInv'
<1> DEFINE p == [page EXCEPT !.shown = page.current, !.status = submitted.answer,
                             !.signing = "no", !.current = None]
<1>1. /\ submitted # None /\ submitted.answer # None /\ submitted \in Submit
      /\ page.signing = "submitting" /\ submitted.intent = page.current
      /\ Told(server, page.current, submitted.answer)
      /\ submitted' = None /\ UNCHANGED <<server, calls, late>>
  BY DEF Review!SubmitAnswers, ReviewInv, SubmitInv
<1>2. /\ PageInv(page, server)' /\ Kept(storage, server)' /\ CountInv'
      /\ page'.signing = "no"
  <2>1. CASE submitted.answer = "rejected"
    BY <1>1, <2>1, SignFailsKeeps DEF Review!SubmitAnswers
  <2>2. CASE submitted.answer # "rejected"
    <3>1. Review!Commit(p, storage)
      BY <2>2 DEF Review!SubmitAnswers
    <3>2. PageInv(p, server) /\ p.signing = "no"
      BY <1>1, <2>2 DEF ReviewAssumption, ReviewInv, PageInv, Submit, Told, Shown,
         Status, Review!Terminal
    <3>3. Kept(storage, server) /\ CountInv
      BY DEF ReviewInv
    <3>. HIDE DEF p
    <3>4. /\ PageInv(page', server) /\ Kept(storage', server) /\ CountInv'
          /\ page'.signing = "no"
      BY <3>1, <3>2, <3>3, CommitKeeps
    <3>. QED  BY <1>1, <3>4
  <2>. QED  BY <2>1, <2>2
<1>3. CallsInv' /\ SubmitInv'
  BY <1>1, <1>2 DEF ReviewInv, CallsInv, SubmitInv
<1>. QED  BY <1>1, <1>2, <1>3 DEF ReviewInv

LEMMA SubmitLostKeeps == ASSUME ReviewAssumption, ReviewInv,
                                Review!SubmitLost PROVE ReviewInv'
<1>1. /\ submitted # None /\ submitted \in Submit /\ page.signing = "submitting"
      /\ Review!SignFails(TRUE, FALSE) /\ late' \subseteq late \cup {submitted.intent}
      /\ server[submitted.intent] # "none"
      /\ submitted' = None /\ UNCHANGED <<server, calls>>
  BY DEF Review!SubmitLost, ReviewInv, SubmitInv, Told
<1>2. /\ PageInv(page, server)' /\ Kept(storage, server)' /\ CountInv'
      /\ page'.signing = "no"
  BY <1>1, SignFailsKeeps
<1>3. CallsInv' /\ SubmitInv'
  BY <1>1, <1>2 DEF ReviewInv, CallsInv, SubmitInv, Submit
<1>. QED  BY <1>1, <1>2, <1>3 DEF ReviewInv

LEMMA CallIsNew ==
  ASSUME ReviewAssumption, NEW i \in Intents, NEW r \in BOOLEAN, NEW s, s[i] # "none",
         NEW c,
         c = [intent |-> i, resume |-> r, answer |-> None]
  PROVE  c \in Call /\ Told(s, c.intent, c.answer)
<1>1. c \in Call /\ c.intent = i /\ c.answer = None
  BY DEF Call
<1>2. None \notin Review!Terminal
  BY DEF ReviewAssumption
<1>. QED  BY <1>1, <1>2 DEF Told

LEMMA StatusPollKeeps == ASSUME ReviewAssumption, ReviewInv, Review!Poll PROVE ReviewInv'
<1>1. /\ calls' = calls \cup {[intent |-> page.shown, resume |-> FALSE, answer |-> None]}
      /\ page.shown # None
      /\ UNCHANGED <<server, page, storage, submitted, late, counted, notified>>
  BY DEF Review!Poll
<1>2. page.shown \in Intents /\ server[page.shown] # "none"
  BY <1>1 DEF ReviewInv, PageInv, Shown, Told
<1>3. PICK c : c = [intent |-> page.shown, resume |-> FALSE, answer |-> None]
  OBVIOUS
<1>4. c \in Call /\ Told(server, c.intent, c.answer)
  BY <1>2, <1>3, CallIsNew
<1>5. CallsInv'
  BY <1>1, <1>3, <1>4 DEF ReviewInv, CallsInv
<1>. QED  BY <1>1, <1>5 DEF ReviewInv, Kept, CountInv, SubmitInv

LEMMA ServeKeeps ==
  ASSUME ReviewAssumption, ReviewInv, NEW c \in calls, Review!Serve(c) PROVE ReviewInv'
<1>1. /\ calls' = (calls \ {c}) \cup {[c EXCEPT !.answer = server[c.intent]]}
      /\ UNCHANGED <<server, page, storage, submitted, late, counted, notified>>
      /\ c \in Call /\ c.intent \in Intents /\ server[c.intent] # "none"
  BY DEF Review!Serve, ReviewInv, CallsInv, Call, Told
<1>2. PICK d : d = [c EXCEPT !.answer = server[c.intent]]
  OBVIOUS
<1>3. d \in Call /\ d.intent = c.intent /\ d.answer = server[d.intent]
  BY <1>1, <1>2 DEF ReviewInv, Call, Status
<1>4. CallsInv'
  BY <1>1, <1>2, <1>3 DEF ReviewInv, CallsInv, Told
<1>. QED  BY <1>1, <1>4 DEF ReviewInv, Kept, CountInv, SubmitInv

(* Answering a call forgets it; the page shows what it says, or not.       *)
LEMMA AnswerKeeps ==
  ASSUME ReviewAssumption, ReviewInv, NEW c \in calls, calls' = calls \ {c},
         UNCHANGED <<server, submitted, late>>,
         NEW p, NEW k, PageInv(p, server), Kept(k, server), Review!Commit(p, k),
         p.signing = page.signing, p.current = page.current
  PROVE  ReviewInv'
<1>1. /\ PageInv(page', server) /\ Kept(storage', server) /\ CountInv'
      /\ page'.signing = page.signing /\ page'.current = page.current
  BY CommitKeeps DEF ReviewInv
<1>2. CallsInv'
  BY DEF ReviewInv, CallsInv
<1>3. SubmitInv'
  BY <1>1 DEF ReviewInv, SubmitInv
<1>. QED  BY <1>1, <1>2, <1>3 DEF ReviewInv

LEMMA PollAnswersKeeps ==
  ASSUME ReviewAssumption, ReviewInv, NEW c \in calls,
         Review!PollAnswers(c) PROVE ReviewInv'
<1>1. /\ calls' = calls \ {c} /\ UNCHANGED <<server, submitted, late>>
      /\ c \in Call /\ c.answer # None /\ Told(server, c.intent, c.answer)
  BY DEF Review!PollAnswers, ReviewInv, CallsInv
<1>2. PICK k \in {None, storage} :
        Review!Commit(IF Review!Merges(c) THEN [page EXCEPT !.status = c.answer]
                      ELSE page, k)
  BY Zenon DEF Review!PollAnswers
<1>3. Kept(k, server) /\ PageInv(page, server)
  BY <1>2 DEF ReviewInv, Kept
<1>4. CASE page.shown = c.intent
  <2> DEFINE p == [page EXCEPT !.status = c.answer]
  <2>1. PageInv(p, server) /\ p.signing = page.signing /\ p.current = page.current
    BY <1>1, <1>3, <1>4 DEF ReviewAssumption, PageInv, Call, Told, Shown, Status,
       Review!Terminal
  <2>2. Review!Commit(p, k)
    BY <1>2, <1>4 DEF Review!Merges
  <2>. HIDE DEF p
  <2>. QED  BY <1>1, <1>3, <2>1, <2>2, AnswerKeeps
<1>5. CASE page.shown # c.intent
  <2>1. Review!Commit(page, k)
    BY <1>2, <1>5 DEF Review!Merges
  <2>. QED  BY <1>1, <1>3, <2>1, AnswerKeeps
<1>. QED  BY <1>4, <1>5

LEMMA PollFailsKeeps ==
  ASSUME ReviewAssumption, ReviewInv, NEW c \in calls, Review!PollFails(c) PROVE ReviewInv'
<1>1. /\ page' = [page EXCEPT !.error = @ \/ ~c.resume] /\ calls' = calls \ {c}
      /\ UNCHANGED <<server, storage, submitted, late, counted, notified>>
      /\ c.resume \in BOOLEAN
  BY DEF Review!PollFails, ReviewInv, CallsInv, Call
<1>2. PICK e \in BOOLEAN : page' = [page EXCEPT !.error = e]
  BY <1>1 DEF ReviewInv, PageInv, Shown
<1>3. PageInv(page', server) /\ page'.signing = page.signing /\ page'.current = page.current
  BY <1>2 DEF ReviewInv, PageInv, Shown
<1>4. CallsInv' /\ SubmitInv'
  BY <1>1, <1>3 DEF ReviewInv, CallsInv, SubmitInv
<1>. QED  BY <1>1, <1>3, <1>4 DEF ReviewInv, Kept, CountInv

LEMMA ResumeAnswersKeeps ==
  ASSUME ReviewAssumption, ReviewInv, NEW c \in calls,
         Review!ResumeAnswers(c) PROVE ReviewInv'
<1> DEFINE p == [page EXCEPT !.shown = c.intent, !.status = c.answer]
<1>1. /\ calls' = calls \ {c} /\ UNCHANGED <<server, submitted, late>>
      /\ c \in Call /\ c.answer # None /\ Told(server, c.intent, c.answer)
  BY DEF Review!ResumeAnswers, ReviewInv, CallsInv
<1>2. CASE c.answer \in {"expired", "failed"}
  <2>1. storage' = None /\ UNCHANGED <<page, counted, notified>>
    BY <1>2 DEF Review!ResumeAnswers
  <2>. QED  BY <1>1, <2>1 DEF ReviewInv, Kept, CountInv, CallsInv, SubmitInv
<1>3. CASE c.answer \notin {"expired", "failed"}
  <2>1. Review!Commit(p, storage)
    BY <1>3 DEF Review!ResumeAnswers
  <2>2. PageInv(p, server) /\ p.signing = page.signing /\ p.current = page.current
    BY <1>1 DEF ReviewAssumption, ReviewInv, PageInv, Call, Told, Shown, Status,
       Review!Terminal
  <2>3. Kept(storage, server)
    BY DEF ReviewInv
  <2>. HIDE DEF p
  <2>. QED  BY <1>1, <2>1, <2>2, <2>3, AnswerKeeps
<1>. QED  BY <1>2, <1>3

LEMMA BlankPage ==
  ASSUME ReviewAssumption, NEW s PROVE PageInv(Review!Blank,
         s) /\ Review!Blank.signing = "no"
BY DEF ReviewAssumption, PageInv, Review!Blank, Shown, Status, Review!Terminal

LEMMA ResumedIsTold ==
  ASSUME ReviewAssumption, ReviewInv
  PROVE  /\ Review!Resumed \subseteq Call
         /\ \A c \in Review!Resumed : Told(server, c.intent, c.answer)
<1>1. CASE storage = None
  BY <1>1 DEF Review!Resumed
<1>2. CASE storage # None
  <2>1. PICK c : c = [intent |-> storage, resume |-> TRUE, answer |-> None]
    OBVIOUS
  <2>2. c \in Call /\ Told(server, c.intent, c.answer)
    BY <1>2, <2>1, CallIsNew DEF ReviewInv, Kept
  <2>. QED  BY <1>2, <2>1, <2>2 DEF Review!Resumed
<1>. QED  BY <1>1, <1>2

LEMMA ConnectKeeps == ASSUME ReviewAssumption, ReviewInv, Review!Connect PROVE ReviewInv'
<1>1. /\ calls' = calls \cup Review!Resumed
      /\ UNCHANGED <<server, page, storage, submitted, late, counted, notified>>
  BY DEF Review!Connect
<1>2. CallsInv'
  BY <1>1, ResumedIsTold DEF ReviewInv, CallsInv
<1>. QED  BY <1>1, <1>2 DEF ReviewInv, Kept, CountInv, SubmitInv

LEMMA ReloadKeeps == ASSUME ReviewAssumption, ReviewInv, Review!Reload PROVE ReviewInv'
<1>1. /\ page' = Review!Blank /\ notified' = {} /\ counted' = [i \in Intents |-> 0]
      /\ submitted' = None /\ UNCHANGED <<server, storage>>
      /\ calls' = Review!Resumed
      /\ submitted # None => late' \subseteq late \cup {submitted.intent}
      /\ submitted = None => late' = late
  BY DEF Review!Reload
<1>2. CountInv'
  BY <1>1 DEF CountInv
<1>3. CallsInv'
  <2>1. late' \subseteq Intents /\ \A i \in late' : server[i] # "none"
    BY <1>1 DEF ReviewInv, CallsInv, SubmitInv, Submit, Told
  <2>2. calls' \subseteq Call /\ \A c \in calls' : Told(server, c.intent, c.answer)
    BY <1>1, ResumedIsTold
  <2>. QED  BY <1>1, <2>1, <2>2 DEF CallsInv
<1>4. PageInv(page', server') /\ SubmitInv'
  BY <1>1, BlankPage DEF SubmitInv
<1>. QED  BY <1>1, <1>2, <1>3, <1>4 DEF ReviewInv, Kept

LEMMA ReviewInit == ASSUME ReviewAssumption, Review!Init PROVE ReviewInv
<1>1. PageInv(page, server) /\ SubmitInv
  BY BlankPage DEF Review!Init, SubmitInv
<1>2. CountInv /\ CallsInv /\ Kept(storage, server)
  BY DEF Review!Init, CountInv, CallsInv, Kept
<1>. QED  BY <1>1, <1>2 DEF Review!Init, ReviewInv, Status

LEMMA ReviewStep == ASSUME ReviewAssumption, ReviewInv,
                           [Review!Next]_(Review!vars) PROVE ReviewInv'
<1>1. CASE UNCHANGED Review!vars
  BY <1>1 DEF Review!vars, ReviewInv, Kept, CountInv, CallsInv, SubmitInv
<1>2. ASSUME NEW i \in Intents,
             \/ Review!Review(i) \/ Review!ExecuteTrade(i)
             \/ Review!ServeLate(i) \/ Review!Settle(i)
      PROVE  ReviewInv'
  BY <1>2, ReviewKeeps, ExecuteTradeKeeps, ServeLateKeeps, SettleKeeps
<1>3. CASE \/ Review!Approve \/ Review!Close \/ Review!Authenticate
           \/ Review!Rebuild \/ Review!Sign \/ Review!Decline \/ Review!ReviewWalletFee
  BY <1>3, ApproveKeeps, CloseKeeps, AuthenticateKeeps, RebuildKeeps, SignKeeps, DeclineKeeps,
     ReviewWalletFeeKeeps
<1>4. CASE \/ Review!ServeSubmit \/ Review!SubmitAnswers \/ Review!SubmitLost
           \/ Review!Poll \/ Review!Connect \/ Review!Reload
  BY <1>4, ServeSubmitKeeps, SubmitAnswersKeeps, SubmitLostKeeps, StatusPollKeeps,
     ConnectKeeps, ReloadKeeps
<1>5. ASSUME NEW c \in calls,
             \/ Review!Serve(c) \/ Review!PollAnswers(c) \/ Review!PollFails(c)
             \/ Review!ResumeAnswers(c)
      PROVE  ReviewInv'
  BY <1>5, ServeKeeps, PollAnswersKeeps, PollFailsKeeps, ResumeAnswersKeeps
<1>. QED  BY <1>1, <1>2, <1>3, <1>4, <1>5 DEF Review!Next

LEMMA ReviewsAreTrue ==
  ASSUME ReviewAssumption, ReviewInv
  PROVE  Review!TypeOK /\ Review!ConfirmedOnce /\ Review!ShownIsTrue
<1>1. Review!TypeOK
  BY DEF ReviewInv, PageInv, Shown, Kept, Review!TypeOK, Status
<1>2. Review!ConfirmedOnce
  BY DEF ReviewInv, CountInv, Review!ConfirmedOnce
<1>3. Review!ShownIsTrue
  BY DEF ReviewInv, PageInv, Told, Review!ShownIsTrue, Review!Terminal
<1>. QED  BY <1>1, <1>2, <1>3

(* However polls, resumes, lost answers and reloads overlap, what a page   *)
(* and the calls under way say of an intent is true.                       *)
THEOREM ReviewInvariant == Review!Spec => []ReviewInv
<1>1. Review!Init => ReviewInv
  BY ReviewInit, ReviewAssumption
<1>2. ReviewInv /\ [Review!Next]_(Review!vars) => ReviewInv'
  BY ReviewStep, ReviewAssumption
<1>. QED  BY <1>1, <1>2, PTL DEF Review!Spec

(* What the page says of an intent that is over is what became of it, and  *)
(* a confirmation counts once (provider.tsx).                              *)
THEOREM TrueReviews == MCClientsSpec => []ReviewIsTrue
<1> DEFINE I == part = "review" => ReviewInv
<1>1. MCClientsInit => I
  BY ReviewInit, ReviewAssumption DEF MCClientsInit
<1>2. I /\ [MCClientsNext]_clientVars => I'
  <2> SUFFICES ASSUME I, [MCClientsNext]_clientVars, part' = "review" PROVE ReviewInv'
    OBVIOUS
  <2>1. part = "review" /\ [Review!Next]_(Review!vars)
    BY DEF MCClientsNext, clientVars, reviewVars, Review!vars
  <2>. QED  BY <2>1, ReviewStep, ReviewAssumption
<1>3. I => ReviewIsTrue
  BY ReviewsAreTrue, ReviewAssumption DEF ReviewIsTrue
<1>. QED  BY <1>1, <1>2, <1>3, PTL DEF MCClientsSpec

-----------------------------------------------------------------------------
(* The deployment console *)

Steps == Chunks \cup {"create-buffer", "deploy", "recover-buffer"}
Final == {"finalized", "failed"}
JournalEntry == [step : Steps, at : Nat, state : {"pending", "expired"} \cup Final]
Transaction == [step : Steps, at : Nat, state : {"sent", "processed"} \cup Final]

SameKey(x, y) == x.step = y.step /\ x.at = y.at
Unique(S) == \A x, y \in S : SameKey(x, y) => x = y

(* Nothing final is known of an entry's transaction: it may still run.     *)
Open(e) == \A t \in ledger : SameKey(t, e) => t.state \notin Final

(* The journal on disk and the chain.                                      *)
DiskInv ==
  /\ disk \subseteq JournalEntry /\ Unique(disk)
  /\ \A e, f \in Console!Pending(disk) : e.at = f.at

LedgerInv ==
  /\ ledger \subseteq Transaction /\ Unique(ledger) /\ height \in Nat
  /\ accountC \in [buffer : (SUBSET Chunks) \cup {None}, program : {Chunks, None}]

ChainInv ==
  /\ Console!SentIsJournaled
  /\ \A e \in disk :
       /\ e.state \in Final => \E t \in ledger : SameKey(t, e) /\ t.state = e.state
       /\ e.state = "expired" => height > e.at + Window

DeployInv ==
  \A e \in disk :
    e.step = "deploy" /\ Open(e) =>
      /\ accountC.buffer = Chunks
      /\ \A f \in disk \ {e} : ~Open(f)

JournalInv == DiskInv /\ LedgerInv /\ ChainInv /\ DeployInv

Ops == {"status", "prepare", "recover", "submit", "rebroadcast"}

(* A console: who runs, and what it knows.  An approval also holds an      *)
(* amount, a sum over a set, of which nothing needs to be known (P).       *)
ConsoleProcess(P) ==
  [pc : {"off", "idle", "refresh", "settle", "broadcast"} \cup Ops,
   op : Ops \cup {None}, journal : SUBSET JournalEntry,
   seen : SUBSET Transaction, prepared : P, queue : SUBSET JournalEntry]

SeenInv(S) ==
  /\ Unique(S)
  /\ \A t \in S : t.state \in Final => t \in ledger

PlanInv(p) ==
  /\ p.steps \subseteq Steps /\ p.at \in Nat
  /\ \A e \in disk : e.state \in Final
  /\ "deploy" \in p.steps => p.steps = {"deploy"} /\ accountC.buffer = Chunks

RunningInv(c, r) ==
  /\ lockC = c /\ r.journal = disk
  /\ SeenInv(r.seen)
  /\ r.queue \subseteq Console!Pending(disk)
  /\ r.pc # "broadcast" => r.queue = {}
  /\ r.pc \in {"refresh", "settle"} => r.op \in Ops
  /\ r.prepared # None => PlanInv(r.prepared)

ConsoleInv(c) ==
  /\ con[c].pc = "off" => con[c] = Console!Off
  /\ con[c].pc # "off" => RunningInv(c, con[c])

ConsolesInv ==
  /\ \E P : con \in [Consoles -> ConsoleProcess(P)]
  /\ lockC \in Consoles \cup {None}
  /\ \A c \in Consoles : ConsoleInv(c)

DeploymentInv == JournalInv /\ ConsolesInv

-----------------------------------------------------------------------------
(* Consoles *)

LEMMA InitInv == ASSUME ConsoleAssumption PROVE Console!Init => DeploymentInv
<1> SUFFICES ASSUME Console!Init PROVE DeploymentInv
  OBVIOUS
<1>1. JournalInv
  BY DEF Console!Init, JournalInv, DiskInv, LedgerInv, ChainInv, DeployInv, Unique,
     Console!Pending,
         Console!SentIsJournaled
<1>2. con \in [Consoles -> ConsoleProcess({None})]
  BY DEF Console!Init, Console!Off, ConsoleProcess, Ops
<1>3. ConsolesInv
  BY <1>2 DEF Console!Init, ConsolesInv, ConsoleInv, Console!Off
<1>. QED  BY <1>1, <1>3 DEF DeploymentInv

(* The lock: beside a console that runs, no other does.                    *)
LEMMA Alone ==
  ASSUME ConsoleAssumption, ConsolesInv, NEW c \in Consoles,
         con[c].pc # "off" \/ lockC = None
  PROVE  \A d \in Consoles \ {c} : con[d] = Console!Off
BY DEF ConsoleAssumption, ConsolesInv, ConsoleInv, RunningInv

(* So a step of one console only has to be checked for that console.       *)
LEMMA OneMoves ==
  ASSUME ConsoleAssumption, ConsolesInv, NEW c \in Consoles, NEW r,
         con[c].pc # "off" \/ lockC = None,
         con' = [con EXCEPT ![c] = r], NEW Q, r \in ConsoleProcess(Q),
         lockC' \in Consoles \cup {None},
         r.pc = "off" => r = Console!Off,
         r.pc # "off" => RunningInv(c, r)'
  PROVE  ConsolesInv'
<1>0. PICK P : con \in [Consoles -> ConsoleProcess(P)]
  BY DEF ConsolesInv
<1>1. \A d \in Consoles \ {c} : con'[d] = Console!Off
  BY <1>0, Alone
<1>2. con'[c] = r
  BY <1>0
<1>3. con' \in [Consoles -> ConsoleProcess(P \cup Q)]
  BY <1>0 DEF ConsoleProcess
<1>4. \A d \in Consoles \ {c} : ConsoleInv(d)'
  BY <1>1 DEF ConsoleInv, Console!Off
<1>5. ConsoleInv(c)'
  BY <1>2 DEF ConsoleInv, RunningInv, SeenInv, PlanInv, Console!Off, Console!Pending
<1>. QED  BY <1>3, <1>4, <1>5 DEF ConsolesInv

Quiet == UNCHANGED <<disk, ledger, accountC, height>>

LEMMA JournalStays == JournalInv /\ Quiet => JournalInv'
BY DEF Quiet, JournalInv, DiskInv, LedgerInv, ChainInv, DeployInv, Unique, SameKey, Open,
       Console!Pending, Console!SentIsJournaled

(* A step that leaves the files and the chain alone.                       *)
LEMMA ConsoleMoves ==
  ASSUME ConsoleAssumption, DeploymentInv, NEW c \in Consoles, NEW r, NEW Q,
         r \in ConsoleProcess(Q),
         con' = [con EXCEPT ![c] = r], Quiet,
         con[c].pc # "off" \/ lockC = None,
         lockC' \in Consoles \cup {None},
         r.pc = "off" => r = Console!Off,
         r.pc # "off" => RunningInv(c, r)'
  PROVE  DeploymentInv'
BY OneMoves, JournalStays DEF DeploymentInv

(* What a running console knows stays true when only pc and op change.     *)
LEMMA RunsOn ==
  ASSUME DeploymentInv, NEW c \in Consoles, con[c].pc # "off", NEW r,
         lockC' = lockC, Quiet, r.journal = con[c].journal, r.seen = con[c].seen,
         r.prepared = con[c].prepared, r.queue = con[c].queue,
         con[c].queue = {} \/ r.pc = "broadcast",
         r.pc \in {"refresh", "settle"} => r.op \in Ops
  PROVE  RunningInv(c, r)'
<1>1. RunningInv(c, con[c])
  BY DEF DeploymentInv, ConsolesInv, ConsoleInv
<1>2. SeenInv(r.seen)'
  BY <1>1 DEF RunningInv, SeenInv, Quiet, Unique, SameKey
<1>3. r.prepared # None => PlanInv(r.prepared)'
  BY <1>1 DEF RunningInv, PlanInv, Quiet
<1>. QED  BY <1>1, <1>2, <1>3 DEF RunningInv, Quiet, Console!Pending

LEMMA Running ==
  ASSUME DeploymentInv, NEW c \in Consoles
  PROVE  /\ con[c].pc # "off" => RunningInv(c, con[c])
         /\ con[c].pc \notin {"off", "broadcast"} => con[c].queue = {}
         /\ lockC \in Consoles \cup {None}
BY DEF DeploymentInv, ConsolesInv, ConsoleInv, RunningInv

LEMMA OperatorKeeps ==
  ASSUME ConsoleAssumption, DeploymentInv, NEW c \in Consoles, NEW op \in Ops,
         Console!Request(c, op)
  PROVE  DeploymentInv'
<1>0. PICK P : con \in [Consoles -> ConsoleProcess(P)]
  BY DEF DeploymentInv, ConsolesInv
<1>b. PICK r : r = [con[c] EXCEPT !.pc = "refresh", !.op = op]
  OBVIOUS
<1>1. con' = [con EXCEPT ![c] = r] /\ con[c].pc = "idle" /\ lockC' = lockC /\ Quiet
  BY <1>b, <1>0 DEF Console!Request, ConsoleProcess, Ops, Quiet
<1>2. r \in ConsoleProcess(P) /\ r.pc = "refresh" /\ r.op = op /\ r.journal = con[c].journal
      /\ r.seen = con[c].seen /\ r.prepared = con[c].prepared /\ r.queue = con[c].queue
  BY <1>b, <1>0 DEF ConsoleProcess, Ops
<1>3. RunningInv(c, r)'
  BY <1>1, <1>2, RunsOn, Running
<1>. QED  BY <1>1, <1>2, <1>3, ConsoleMoves, Running

(* Fail ends a request and forgets what it had read.                       *)
LEMMA FailKeeps ==
  ASSUME ConsoleAssumption, DeploymentInv, NEW c \in Consoles, con[c].pc # "off",
         Console!Fail(c),
         lockC' = lockC, Quiet
  PROVE  DeploymentInv'
<1>0. PICK P : con \in [Consoles -> ConsoleProcess(P)]
  BY DEF DeploymentInv, ConsolesInv
<1>b. PICK r : r = [con[c] EXCEPT !.pc = "idle", !.op = None, !.seen = {}, !.queue = {}]
  OBVIOUS
<1>1. con' = [con EXCEPT ![c] = r]
  BY <1>b, <1>0 DEF Console!Fail, ConsoleProcess, Ops
<1>2. r \in ConsoleProcess(P) /\ r.pc = "idle" /\ r.journal = con[c].journal
      /\ r.seen = {} /\ r.prepared = con[c].prepared /\ r.queue = {}
  BY <1>b, <1>0 DEF ConsoleProcess, Ops
<1>3. RunningInv(c, r)'
  BY <1>2, Running DEF RunningInv, SeenInv, PlanInv, Unique, Quiet
<1>. QED  BY <1>1, <1>2, <1>3, ConsoleMoves, Running

LEMMA StartKeeps ==
  ASSUME ConsoleAssumption, DeploymentInv, NEW c \in Consoles, Console!Start(c)
  PROVE  DeploymentInv'
<1>0. PICK P : con \in [Consoles -> ConsoleProcess(P)]
  BY DEF DeploymentInv, ConsolesInv
<1>b. PICK r : r = [Console!Off EXCEPT !.pc = "idle", !.journal = disk]
  OBVIOUS
<1>1. con' = [con EXCEPT ![c] = r] /\ lockC = None /\ lockC' = c /\ Quiet
  BY <1>b DEF Console!Start, Console!LockFree, Quiet
<1>2. r \in ConsoleProcess({None}) /\ r.pc = "idle" /\ r.journal = disk /\ r.seen = {}
      /\ r.prepared = None /\ r.queue = {}
  BY <1>b DEF Console!Off, ConsoleProcess, Ops, DeploymentInv, JournalInv, DiskInv
<1>3. RunningInv(c, r)'
  BY <1>1, <1>2 DEF RunningInv, SeenInv, Unique, Quiet
<1>. QED  BY <1>1, <1>2, <1>3, ConsoleMoves

(* A crash and an orderly end leave a console that is off.                 *)
LEMMA EndKeeps ==
  ASSUME ConsoleAssumption, DeploymentInv, NEW c \in Consoles,
         Console!Crash(c) \/ Console!Close(c)
  PROVE  DeploymentInv'
<1>1. con' = [con EXCEPT ![c] = Console!Off] /\ con[c].pc # "off" /\ Quiet
  BY DEF Console!Crash, Console!Close, Quiet
<1>2. Console!Off \in ConsoleProcess({None}) /\ Console!Off.pc = "off"
  BY DEF Console!Off, ConsoleProcess, Ops
<1>3. lockC' \in Consoles \cup {None}
  BY Running DEF Console!Crash, Console!Close
<1>. QED  BY <1>1, <1>2, <1>3, ConsoleMoves

LEMMA RemoveStaleLockKeeps ==
  ASSUME ConsoleAssumption, DeploymentInv, Console!RemoveStaleLock
  PROVE  DeploymentInv'
<1>1. \A c \in Consoles : con[c] = Console!Off
  BY DEF DeploymentInv, ConsolesInv, ConsoleInv, RunningInv, Console!RemoveStaleLock
<1>2. ConsolesInv'
  BY <1>1 DEF DeploymentInv, ConsolesInv, ConsoleInv, Console!RemoveStaleLock, Console!Off
<1>. QED  BY <1>2, JournalStays DEF DeploymentInv, Console!RemoveStaleLock, Quiet

LEMMA ReadStatusesKeeps ==
  ASSUME ConsoleAssumption, DeploymentInv, NEW c \in Consoles, Console!ReadStatuses(c)
  PROVE  DeploymentInv'
<1>0. PICK P : con \in [Consoles -> ConsoleProcess(P)]
  BY DEF DeploymentInv, ConsolesInv
<1>a. PICK S : S = {t \in ledger : \E e \in Console!Pending(con[c].journal) :
                     e.step = t.step /\ e.at = t.at /\ t.state # "sent"}
  OBVIOUS
<1>b. PICK r : r = [con[c] EXCEPT !.pc = "settle", !.seen = S]
  OBVIOUS
<1>1. con' = [con EXCEPT ![c] = r] /\ con[c].pc = "refresh" /\ lockC' = lockC /\ Quiet
  BY <1>b, <1>0, <1>a DEF Console!ReadStatuses, ConsoleProcess, Ops, Quiet
<1>2. S \subseteq ledger /\ ledger \subseteq Transaction /\ Unique(ledger)
  BY <1>a DEF DeploymentInv, JournalInv, LedgerInv
<1>3. /\ r \in ConsoleProcess(P) /\ r.pc = "settle" /\ r.op = con[c].op
      /\ r.journal = con[c].journal
      /\ r.seen = S /\ r.prepared = con[c].prepared /\ r.queue = con[c].queue
  BY <1>b, <1>0, <1>2 DEF ConsoleProcess, Ops
<1>4. SeenInv(S)'
  BY <1>1, <1>2 DEF SeenInv, Unique, Quiet
<1>5. RunningInv(c, r)'
  BY <1>1, <1>3, <1>4, Running DEF RunningInv, PlanInv, Quiet
<1>. QED  BY <1>1, <1>3, <1>5, ConsoleMoves, Running

LEMMA RebroadcastKeeps ==
  ASSUME ConsoleAssumption, DeploymentInv, NEW c \in Consoles, Console!Rebroadcast(c)
  PROVE  DeploymentInv'
<1>0. PICK P : con \in [Consoles -> ConsoleProcess(P)]
  BY DEF DeploymentInv, ConsolesInv
<1>a. PICK Q : Q = Console!Pending(con[c].journal)
  OBVIOUS
<1>b. PICK r : r = [con[c] EXCEPT !.pc = "broadcast", !.queue = Q]
  OBVIOUS
<1>1. con' = [con EXCEPT ![c] = r] /\ con[c].pc = "rebroadcast" /\ lockC' = lockC /\ Quiet
  BY <1>b, <1>0, <1>a DEF Console!Rebroadcast, ConsoleProcess, Ops, Quiet
<1>2. Q = Console!Pending(disk) /\ Q \subseteq JournalEntry
  BY <1>a, <1>1, Running DEF RunningInv, DeploymentInv, JournalInv, DiskInv, Console!Pending
<1>3. r \in ConsoleProcess(P) /\ r.pc = "broadcast" /\ r.journal = con[c].journal
      /\ r.seen = con[c].seen /\ r.prepared = con[c].prepared /\ r.queue = Q
  BY <1>b, <1>0, <1>2 DEF ConsoleProcess, Ops
<1>4. RunningInv(c, r)'
  BY <1>1, <1>2, <1>3, Running DEF RunningInv, PlanInv, SeenInv, Unique, Console!Pending,
     Quiet
<1>. QED  BY <1>1, <1>3, <1>4, ConsoleMoves, Running

(* A batch to be sent is of the loader's transactions, and the deployment  *)
(* is alone in its batch and planned over a whole buffer.                  *)
LEMMA PlansAreSound ==
  ASSUME ConsoleAssumption, LedgerInv, NEW size,
         NEW steps \in Console!NextSteps(size)
  PROVE  /\ steps \subseteq Steps
         /\ "deploy" \in steps => steps = {"deploy"} /\ accountC.buffer = Chunks
<1>1. CASE accountC.buffer = None
  BY <1>1 DEF Console!NextSteps, Steps
<1>2. CASE accountC.buffer # None /\ Console!Missing = {}
  <2>1. accountC.buffer = Chunks
    BY <1>2 DEF Console!Missing, Console!Written, LedgerInv
  <2>. QED  BY <1>2, <2>1 DEF Console!NextSteps, Steps
<1>3. CASE accountC.buffer # None /\ Console!Missing # {}
  <2>1. steps \subseteq Console!Missing
    BY <1>3 DEF Console!NextSteps
  <2>. QED  BY <2>1 DEF Console!Missing, Steps, ConsoleAssumption
<1>. QED  BY <1>1, <1>2, <1>3

LEMMA SettledJournal ==
  ASSUME DeploymentInv, Console!MayPrepare(disk)
  PROVE  \A e \in disk : e.state \in Final
BY DEF DeploymentInv, JournalInv, DiskInv, JournalEntry, Console!MayPrepare,
   Console!NothingPending, Console!Pending, Final

(* An approval is prepared or dropped.                                     *)
LEMMA ApprovalKeeps ==
  ASSUME ConsoleAssumption, DeploymentInv, NEW c \in Consoles, con[c].pc \in {"prepare",
         "recover"},
         NEW p,
         con' = [con EXCEPT ![c].pc = "idle", ![c].op = None, ![c].prepared = p],
         lockC' = lockC, Quiet, p # None => PlanInv(p)
  PROVE  DeploymentInv'
<1>0. PICK P : con \in [Consoles -> ConsoleProcess(P)]
  BY DEF DeploymentInv, ConsolesInv
<1>b. PICK r : r = [con[c] EXCEPT !.pc = "idle", !.op = None, !.prepared = p]
  OBVIOUS
<1>1. con' = [con EXCEPT ![c] = r]
  BY <1>0, <1>b DEF ConsoleProcess, Ops
<1>2. r \in ConsoleProcess({p}) /\ r.pc = "idle" /\ r.journal = con[c].journal
      /\ r.seen = con[c].seen /\ r.prepared = p /\ r.queue = con[c].queue
  BY <1>0, <1>b DEF ConsoleProcess, Ops
<1>3. p # None => PlanInv(p)'
  BY DEF PlanInv, Quiet
<1>4. con[c].queue = {} /\ SeenInv(con[c].seen) /\ con[c].journal = disk /\ lockC = c
  BY Running DEF RunningInv
<1>5. RunningInv(c, r)'
  BY <1>2, <1>3, <1>4 DEF RunningInv, SeenInv, Unique, Console!Pending, Quiet
<1>. QED  BY <1>1, <1>2, <1>5, ConsoleMoves, Running

LEMMA PrepareKeeps ==
  ASSUME ConsoleAssumption, DeploymentInv, NEW c \in Consoles, Console!Prepare(c)
  PROVE  DeploymentInv'
<1> DEFINE recover == con[c].pc = "recover"
           plans == IF recover
                    THEN IF accountC.buffer = None THEN {} ELSE {{"recover-buffer"}}
                    ELSE Console!NextSteps(BatchSize)
<1>1. con[c].pc \in {"prepare", "recover"} /\ lockC' = lockC /\ Quiet
  BY DEF Console!Prepare, Quiet
<1>2. con[c].journal = disk
  BY <1>1, Running DEF RunningInv
<1>3. CASE Console!Fail(c)
  BY <1>1, <1>3, FailKeeps
<1>4. CASE con' = [con EXCEPT ![c].pc = "idle", ![c].op = None, ![c].prepared = None]
  BY <1>1, <1>4, ApprovalKeeps
<1>5. ASSUME Console!MayPrepare(disk), NEW steps \in plans, NEW amount,
             con' = [con EXCEPT ![c].pc = "idle", ![c].op = None,
                       ![c].prepared = [steps |-> steps, at |-> height, future |-> amount]]
      PROVE  DeploymentInv'
  <2>a. PICK p : p = [steps |-> steps, at |-> height, future |-> amount]
    OBVIOUS
  <2>1. /\ steps \subseteq Steps
        /\ "deploy" \in steps => steps = {"deploy"} /\ accountC.buffer = Chunks
    <3>1. CASE recover
      BY <3>1, <1>5 DEF Steps
    <3>2. CASE ~recover
      BY <3>2, <1>5, PlansAreSound DEF DeploymentInv, JournalInv
    <3>. QED  BY <3>1, <3>2
  <2>2. PlanInv(p)
    BY <2>a, <2>1, <1>5, SettledJournal DEF PlanInv, DeploymentInv, JournalInv, LedgerInv
  <2>. QED  BY <1>1, <1>5, <2>a, <2>2, ApprovalKeeps
<1>. QED  BY <1>2, <1>3, <1>4, <1>5 DEF Console!Prepare

(* What becomes of an entry when it is compared with what the RPC said.    *)
LEMMA SettledEntry ==
  ASSUME DeploymentInv, NEW c \in Consoles, con[c].pc # "off", NEW e \in disk
  PROVE  /\ Console!Settled(c, e) \in JournalEntry /\ SameKey(Console!Settled(c, e), e)
         /\ e.state # "pending" => Console!Settled(c, e) = e
         /\ Console!Settled(c, e).state = "pending" => Console!Settled(c, e) = e
         /\ Console!Settled(c, e).state \in Final =>
              \E t \in ledger : SameKey(t, Console!Settled(c,
              e)) /\ t.state = Console!Settled(c, e).state
         /\ Console!Settled(c, e).state = "expired" => height > e.at + Window
<1> DEFINE status == {t \in con[c].seen : t.step = e.step /\ t.at = e.at}
<1>1. e \in JournalEntry /\ SeenInv(con[c].seen)
  BY Running DEF DeploymentInv, JournalInv, DiskInv, RunningInv
<1>2. CASE e.state # "pending"
  <2>1. Console!Settled(c, e) = e
    BY <1>2 DEF Console!Settled
  <2>. QED  BY <1>1, <1>2, <2>1 DEF SameKey, DeploymentInv, JournalInv, ChainInv
<1>3. CASE e.state = "pending" /\ \E t \in status : t.state \in Final
  <2>1. PICK t \in status : t.state \in Final
    BY <1>3
  <2>2. \A u \in status : u = t
    BY <1>1, <2>1 DEF SeenInv, Unique, SameKey
  <2>3. (CHOOSE u \in status : TRUE) = t
    BY <2>1, <2>2
  <2>4. Console!Settled(c, e) = [e EXCEPT !.state = t.state]
    BY <1>3, <2>3 DEF Console!Settled, Final
  <2>5. t \in ledger
    BY <1>1, <2>1 DEF SeenInv
  <2>6. /\ [e EXCEPT !.state = t.state] \in JournalEntry
        /\ SameKey([e EXCEPT !.state = t.state], e)
        /\ [e EXCEPT !.state = t.state].state = t.state
    BY <1>1, <2>1 DEF JournalEntry, SameKey
  <2>. QED  BY <1>3, <2>1, <2>4, <2>5, <2>6 DEF SameKey, Final
<1>4. CASE e.state = "pending" /\ ~\E t \in status : t.state \in Final
  <2>1. Console!Settled(c, e) = IF status = {} /\ height > e.at + Window
                        THEN [e EXCEPT !.state = "expired"] ELSE e
    BY <1>4 DEF Console!Settled, Final
  <2>2. /\ [e EXCEPT !.state = "expired"] \in JournalEntry
        /\ SameKey([e EXCEPT !.state = "expired"], e)
        /\ [e EXCEPT !.state = "expired"].state = "expired"
    BY <1>1 DEF JournalEntry, SameKey
  <2>. QED  BY <1>1, <1>4, <2>1, <2>2 DEF SameKey, Final
<1>. QED  BY <1>2, <1>3, <1>4

(* Settling entries keeps their keys, so nothing opens or gets lost.       *)
LEMMA RefreshKeepsJournal ==
  ASSUME DeploymentInv, NEW c \in Consoles, con[c].pc # "off",
         disk' = {Console!Settled(c, e) : e \in disk}, UNCHANGED <<ledger, accountC,
         height>>
  PROVE  JournalInv'
<1> USE SettledEntry
<1>1. \A f \in disk' : \E e \in disk : f = Console!Settled(c, e) /\ SameKey(f, e)
  OBVIOUS
<1>2. \A x, y \in disk : SameKey(Console!Settled(c, x), Console!Settled(c, y)) => x = y
  BY DEF DeploymentInv, JournalInv, DiskInv, Unique, SameKey
<1>3. disk' \subseteq JournalEntry /\ Unique(disk')
  BY <1>2 DEF Unique
<1>4. \A f \in Console!Pending(disk') : f \in Console!Pending(disk)
  BY DEF Console!Pending
<1>5. DiskInv'
  BY <1>3, <1>4 DEF DiskInv, Unique, DeploymentInv, JournalInv
<1>6. Console!SentIsJournaled'
  BY DEF Console!SentIsJournaled, DeploymentInv, JournalInv, ChainInv, SameKey
<1>7. ChainInv'
  BY <1>1, <1>6 DEF ChainInv, SameKey
<1>9. ASSUME NEW x \in disk', x.step = "deploy", Open(x)'
      PROVE  accountC'.buffer = Chunks /\ \A y \in disk' \ {x} : ~Open(y)'
  <2>1. PICK e \in disk : x = Console!Settled(c, e) /\ SameKey(x, e)
    BY <1>1
  <2>2. e.step = "deploy" /\ Open(e)
    BY <1>9, <2>1 DEF Open, SameKey
  <2>3. accountC.buffer = Chunks /\ \A f \in disk \ {e} : ~Open(f)
    BY <2>2 DEF DeploymentInv, JournalInv, DeployInv
  <2>4. ASSUME NEW y \in disk' \ {x}
        PROVE  ~Open(y)'
    <3>1. PICK f \in disk : y = Console!Settled(c, f) /\ SameKey(y, f)
      BY <1>1
    <3>2. f # e /\ ~Open(f)
      BY <2>1, <2>3, <3>1
    <3>. QED  BY <3>1, <3>2 DEF Open, SameKey
  <2>. QED  BY <2>3, <2>4
<1>10. DeployInv'
  BY <1>9 DEF DeployInv
<1>11. LedgerInv'
  BY DEF DeploymentInv, JournalInv, LedgerInv, Unique
<1>. QED  BY <1>5, <1>7, <1>10, <1>11 DEF JournalInv

LEMMA RefreshPendingKeeps ==
  ASSUME ConsoleAssumption, DeploymentInv, NEW c \in Consoles, Console!RefreshPending(c)
  PROVE  DeploymentInv'
<1>0. PICK P : con \in [Consoles -> ConsoleProcess(P)]
  BY DEF DeploymentInv, ConsolesInv
<1>a. PICK J : J = {Console!Settled(c, e) : e \in disk}
  OBVIOUS
<1>b. PICK r : r = [con[c] EXCEPT !.journal = J, !.seen = {}, !.pc = con[c].op]
  OBVIOUS
<1>1. RunningInv(c, con[c]) /\ con[c].pc = "settle" /\ con[c].op \in Ops
      /\ con[c].queue = {} /\ con[c].journal = disk
  BY Running DEF Console!RefreshPending, RunningInv
<1>2. con' = [con EXCEPT ![c] = r] /\ disk' = J /\ lockC' = lockC
      /\ UNCHANGED <<ledger, accountC, height>>
  BY <1>0, <1>1, <1>a, <1>b DEF Console!RefreshPending, ConsoleProcess, Ops
<1>3. J \subseteq JournalEntry
  BY <1>1, <1>a, SettledEntry
<1>4. r \in ConsoleProcess(P) /\ r.pc \in Ops /\ r.journal = J /\ r.seen = {}
      /\ r.prepared = con[c].prepared /\ r.queue = {}
  BY <1>0, <1>1, <1>3, <1>b DEF ConsoleProcess, Ops
<1>5. JournalInv'
  BY <1>1, <1>2, <1>a, RefreshKeepsJournal
<1>6. ASSUME r.prepared # None PROVE PlanInv(r.prepared)'
  <2>1. PlanInv(r.prepared)
    BY <1>1, <1>4, <1>6 DEF RunningInv
  <2>2. J = disk
    BY <1>1, <1>a, <2>1, SettledEntry DEF PlanInv, Final
  <2>. QED  BY <1>2, <2>1, <2>2 DEF PlanInv
<1>7. RunningInv(c, r)'
  BY <1>1, <1>2, <1>4, <1>6 DEF RunningInv, SeenInv, Unique, Ops
<1>8. ConsolesInv'
  BY <1>1, <1>2, <1>4, <1>7, OneMoves, Running DEF Ops, DeploymentInv
<1>. QED  BY <1>5, <1>8 DEF DeploymentInv

(* While an approval is prepared, nothing is open.                         *)
LEMMA NothingOpen ==
  ASSUME DeploymentInv, NEW p, PlanInv(p)
  PROVE  /\ \A e \in disk : ~Open(e)
         /\ \A t \in ledger : t.state \in Final
<1>1. \A e \in disk : ~Open(e)
  BY DEF PlanInv, Open, DeploymentInv, JournalInv, ChainInv
<1>2. ASSUME NEW t \in ledger PROVE t.state \in Final
  <2>1. PICK e \in disk : e.step = t.step /\ e.at = t.at
    BY DEF DeploymentInv, JournalInv, ChainInv, Console!SentIsJournaled
  <2>2. PICK u \in ledger : SameKey(u, e) /\ u.state \in Final
    BY <1>1 DEF Open
  <2>. QED  BY <2>1, <2>2 DEF DeploymentInv, JournalInv, LedgerInv, Unique, SameKey
<1>. QED  BY <1>1, <1>2

(* The whole approval is written to the journal, where nothing is open.    *)
LEMMA SubmitKeepsJournal ==
  ASSUME DeploymentInv, NEW p, PlanInv(p), NEW E,
         E = {[step |-> s, at |-> p.at, state |-> "pending"] : s \in p.steps},
         \A e \in disk : ~(e.step \in p.steps /\ e.at = p.at),
         disk' = disk \cup E, UNCHANGED <<ledger, accountC, height>>
  PROVE  JournalInv' /\ E \subseteq Console!Pending(disk') /\ E \subseteq JournalEntry
<1>1. \A e \in E :
        e \in JournalEntry /\ e.state = "pending" /\ e.at = p.at /\ e.step \in p.steps
  BY DEF PlanInv, JournalEntry
<1>2. \A e \in disk : e.state # "pending"
  BY DEF PlanInv, Final
<1>3. Unique(disk')
  <2>1. \A x, y \in E : SameKey(x, y) => x = y
    BY DEF SameKey
  <2>2. \A x \in E, y \in disk : ~SameKey(x, y) /\ ~SameKey(y, x)
    BY <1>1 DEF SameKey
  <2>. QED  BY <2>1, <2>2 DEF Unique, DeploymentInv, JournalInv, DiskInv
<1>4. DiskInv'
  BY <1>1, <1>2, <1>3 DEF DiskInv, Console!Pending, Unique, DeploymentInv, JournalInv
<1>5. ChainInv'
  BY <1>1 DEF ChainInv, Console!SentIsJournaled, DeploymentInv, JournalInv, Final
<1>6. LedgerInv'
  BY DEF DeploymentInv, JournalInv, LedgerInv, Unique
<1>7. ASSUME NEW e \in disk', e.step = "deploy", Open(e)'
      PROVE  accountC'.buffer = Chunks /\ \A f \in disk' \ {e} : ~Open(f)'
  <2>1. \A f \in disk : ~Open(f)'
    BY NothingOpen DEF Open
  <2>2. e \in E /\ "deploy" \in p.steps
    BY <1>1, <1>7, <2>1
  <2>3. p.steps = {"deploy"} /\ accountC.buffer = Chunks
    BY <2>2 DEF PlanInv
  <2>. QED  BY <2>1, <2>2, <2>3
<1>8. DeployInv'
  BY <1>7 DEF DeployInv
<1>. QED  BY <1>1, <1>4, <1>5, <1>6, <1>8 DEF JournalInv, Console!Pending

LEMMA SubmitKeeps ==
  ASSUME ConsoleAssumption, DeploymentInv, NEW c \in Consoles, Console!Submit(c)
  PROVE  DeploymentInv'
<1>0. PICK P : con \in [Consoles -> ConsoleProcess(P)]
  BY DEF DeploymentInv, ConsolesInv
<1>1. RunningInv(c, con[c]) /\ con[c].pc = "submit" /\ con[c].journal = disk
      /\ con[c].queue = {} /\ lockC' = lockC /\ UNCHANGED <<ledger, accountC, height>>
  BY Running DEF Console!Submit, RunningInv
<1>2. CASE ~Console!Accepts(c)
  BY <1>1, <1>2, FailKeeps DEF Console!Submit, Quiet
<1>3. CASE Console!Accepts(c)
  <2>a. PICK p : p = con[c].prepared
    OBVIOUS
  <2>b. PICK E : E = {[step |-> s, at |-> p.at, state |-> "pending"] : s \in p.steps}
    OBVIOUS
  <2>c. PICK r : r = [con[c] EXCEPT !.pc = "broadcast", !.prepared = None,
                        !.journal = disk \cup E, !.queue = E]
    OBVIOUS
  <2>1. PlanInv(p) /\ \A e \in disk : ~(e.step \in p.steps /\ e.at = p.at)
    BY <1>1, <1>3, <2>a DEF Console!Accepts, RunningInv
  <2>2. con' = [con EXCEPT ![c] = r] /\ disk' = disk \cup E
    <3>1. /\ disk' = disk \cup E
          /\ con' = [con EXCEPT ![c].pc = "broadcast", ![c].prepared = None,
                       ![c].journal = disk \cup E, ![c].queue = E]
      <4>1. con[c].journal \cup {[step |-> s, at |-> con[c].prepared.at,
      state |-> "pending"] :
                                    s \in con[c].prepared.steps} = disk \cup E
            /\ {[step |-> s, at |-> con[c].prepared.at, state |-> "pending"] :
                  s \in con[c].prepared.steps} = E
        BY <1>1, <2>a, <2>b
      <4>. QED  BY <1>3, <4>1, Zenon DEF Console!Submit, Console!Persist
    <3>. QED  BY <1>0, <2>c, <3>1 DEF ConsoleProcess, Ops
  <2>3. JournalInv' /\ E \subseteq Console!Pending(disk') /\ E \subseteq JournalEntry
    BY <1>1, <2>1, <2>2, <2>b, SubmitKeepsJournal
  <2>4. disk \subseteq JournalEntry
    BY DEF DeploymentInv, JournalInv, DiskInv
  <2>5. r \in ConsoleProcess({None}) /\ r.pc = "broadcast" /\ r.journal = disk \cup E
        /\ r.seen = con[c].seen /\ r.prepared = None /\ r.queue = E
    BY <1>0, <2>c, <2>3, <2>4 DEF ConsoleProcess, Ops
  <2>6. RunningInv(c, r)'
    BY <1>1, <2>2, <2>3, <2>5 DEF RunningInv, SeenInv, Unique
  <2>7. ConsolesInv'
    BY <1>1, <2>2, <2>5, <2>6, OneMoves, Running DEF DeploymentInv
  <2>. QED  BY <2>3, <2>7 DEF DeploymentInv
<1>. QED  BY <1>2, <1>3

-----------------------------------------------------------------------------
(* The chain *)

(* A new transaction is that of a pending entry.                           *)
LEMMA SentKeepsJournal ==
  ASSUME DeploymentInv, NEW e \in Console!Pending(disk), \A u \in ledger : ~SameKey(u, e),
         ledger' = ledger \cup {[step |-> e.step, at |-> e.at, state |-> "sent"]},
         UNCHANGED <<disk, accountC, height>>
  PROVE  JournalInv'
<1>a. PICK t : t = [step |-> e.step, at |-> e.at, state |-> "sent"]
  OBVIOUS
<1>1. e \in disk /\ t \in Transaction /\ t.step = e.step /\ t.at = e.at
      /\ t.state \notin Final /\ ledger' = ledger \cup {t}
  BY <1>a DEF Console!Pending, DeploymentInv, JournalInv, DiskInv, JournalEntry,
     Transaction, Final
<1>2. LedgerInv'
  BY <1>1 DEF DeploymentInv, JournalInv, LedgerInv, Unique, SameKey
<1>3. ChainInv'
  BY <1>1 DEF DeploymentInv, JournalInv, ChainInv, Console!SentIsJournaled
<1>4. \A f \in disk : Open(f)' <=> Open(f)
  BY <1>1 DEF Open
<1>5. DeployInv'
  BY <1>4 DEF DeploymentInv, JournalInv, DeployInv
<1>6. DiskInv'
  BY DEF DeploymentInv, JournalInv, DiskInv, Unique, Console!Pending
<1>. QED  BY <1>2, <1>3, <1>5, <1>6 DEF JournalInv

LEMMA BroadcastKeeps ==
  ASSUME ConsoleAssumption, DeploymentInv, NEW c \in Consoles, Console!Broadcast(c)
  PROVE  DeploymentInv'
<1>0. PICK P : con \in [Consoles -> ConsoleProcess(P)]
  BY DEF DeploymentInv, ConsolesInv
<1>1. RunningInv(c, con[c]) /\ con[c].pc = "broadcast" /\ lockC' = lockC
      /\ UNCHANGED <<disk, accountC, height>>
  BY Running DEF Console!Broadcast, RunningInv
<1>2. CASE Console!Fail(c) /\ ledger' = ledger
  BY <1>1, <1>2, FailKeeps DEF Quiet
<1>3. ASSUME NEW e \in con[c].queue, con' = [con EXCEPT ![c].queue = @ \ {e}],
             ledger' = IF \E u \in ledger : u.step = e.step /\ u.at = e.at
                       THEN ledger
                       ELSE ledger \cup {[step |-> e.step, at |-> e.at, state |-> "sent"]}
      PROVE  DeploymentInv'
  <2>a. PICK r : r = [con[c] EXCEPT !.queue = @ \ {e}]
    OBVIOUS
  <2>1. e \in Console!Pending(disk)
    BY <1>1 DEF RunningInv
  <2>2. JournalInv'
    BY <1>1, <1>3, <2>1, SentKeepsJournal, JournalStays DEF SameKey, Quiet, DeploymentInv
  <2>3. con' = [con EXCEPT ![c] = r]
    BY <1>0, <1>3, <2>a DEF ConsoleProcess, Ops
  <2>4. r \in ConsoleProcess(P) /\ r.pc = "broadcast" /\ r.journal = con[c].journal
        /\ r.seen = con[c].seen /\ r.prepared = con[c].prepared
        /\ r.queue \subseteq con[c].queue
    BY <1>0, <1>1, <2>a DEF ConsoleProcess, Ops
  <2>5. ledger \subseteq ledger'
    BY <1>3
  <2>6. RunningInv(c, r)'
    BY <1>1, <2>4, <2>5 DEF RunningInv, SeenInv, PlanInv, Unique, Console!Pending
  <2>7. ConsolesInv'
    BY <1>1, <2>3, <2>4, <2>6, OneMoves, Running DEF DeploymentInv
  <2>. QED  BY <2>2, <2>7 DEF DeploymentInv
<1>. QED  BY <1>2, <1>3 DEF Console!Broadcast

(* A transaction goes on: its key stays, and final ones stay as they are.  *)
LEMMA GoesOn ==
  ASSUME DeploymentInv, NEW t \in ledger, t.state \notin Final, NEW state,
         state \in {"processed"} \cup Final, NEW u, u = [t EXCEPT !.state = state],
         ledger' = (ledger \ {t}) \cup {u},
         UNCHANGED <<lockC, disk, con, height>>,
         accountC' \in [buffer : (SUBSET Chunks) \cup {None}, program : {Chunks, None}]
  PROVE  /\ SameKey(u, t) /\ u.state = state
         /\ LedgerInv' /\ ChainInv' /\ DiskInv'
         /\ \A c \in Consoles : con[c].pc # "off" => SeenInv(con[c].seen)'
         /\ \A e \in disk : Open(e)' => Open(e)
<1>1. ledger \subseteq Transaction /\ Unique(ledger)
  BY DEF DeploymentInv, JournalInv, LedgerInv
<1>2. u \in Transaction /\ SameKey(u, t) /\ u.state = state
  BY <1>1 DEF Transaction, SameKey
<1>3. Unique(ledger')
  <2>1. \A x \in ledger \ {t} : ~SameKey(x, u) /\ ~SameKey(u, x)
    BY <1>1, <1>2 DEF Unique, SameKey
  <2>2. \A x, y \in (ledger \ {t}) \cup {u} : SameKey(x, y) => x = y
    BY <1>1, <2>1 DEF Unique
  <2>. QED  BY <2>2 DEF Unique
<1>4. LedgerInv'
  BY <1>1, <1>2, <1>3 DEF DeploymentInv, JournalInv, LedgerInv, Unique
<1>5. ChainInv'
  <2>1. \A x \in ledger : \E e \in disk : SameKey(e, x)
    BY DEF DeploymentInv, JournalInv, ChainInv, Console!SentIsJournaled, SameKey
  <2>2. \E e \in disk : SameKey(e, u)
    BY <1>2, <2>1 DEF SameKey
  <2>3. Console!SentIsJournaled'
    BY <2>1, <2>2 DEF Console!SentIsJournaled, SameKey
  <2>4. ASSUME NEW e \in disk, e.state \in Final
        PROVE  \E x \in ledger' : SameKey(x, e) /\ x.state = e.state
    <3>1. PICK x \in ledger : SameKey(x, e) /\ x.state = e.state
      BY <2>4 DEF DeploymentInv, JournalInv, ChainInv
    <3>2. x # t
      BY <2>4, <3>1
    <3>. QED  BY <3>1, <3>2
  <2>5. \A e \in disk : e.state = "expired" => height > e.at + Window
    BY DEF DeploymentInv, JournalInv, ChainInv
  <2>. QED  BY <2>3, <2>4, <2>5 DEF ChainInv
<1>6. DiskInv'
  BY DEF DeploymentInv, JournalInv, DiskInv, Unique, Console!Pending
<1>7. \A c \in Consoles : con[c].pc # "off" => SeenInv(con[c].seen)'
  BY Running DEF RunningInv, SeenInv, Unique
<1>8. \A e \in disk : Open(e)' => Open(e)
  BY <1>2 DEF Open, SameKey
<1>. QED  BY <1>2, <1>4, <1>5, <1>6, <1>7, <1>8

(* Nothing moves while an approval is prepared, so no console's plan is    *)
(* overtaken by the chain.                                                 *)
LEMMA ConsolesWatch ==
  ASSUME ConsoleAssumption, DeploymentInv, NEW t \in ledger, t.state \notin Final,
         UNCHANGED <<lockC, disk, con>>,
         \A c \in Consoles : con[c].pc # "off" => SeenInv(con[c].seen)'
  PROVE  ConsolesInv'
<1>1. ASSUME NEW c \in Consoles, con[c].pc # "off" PROVE RunningInv(c, con[c])'
  <2>1. con[c].prepared # None => FALSE
    BY <1>1, Running, NothingOpen DEF RunningInv
  <2>. QED  BY <1>1, <2>1, Running DEF RunningInv, Console!Pending
<1>. QED  BY <1>1 DEF DeploymentInv, ConsolesInv, ConsoleInv, Console!Off

LEMMA ProcessKeeps ==
  ASSUME ConsoleAssumption, DeploymentInv, NEW t, Console!Process(t)
  PROVE  DeploymentInv'
<1>a. PICK u : u = [t EXCEPT !.state = "processed"]
  OBVIOUS
<1>1. t \in ledger /\ t.state \notin Final /\ ledger' = (ledger \ {t}) \cup {u}
      /\ UNCHANGED <<lockC, disk, con, accountC, height>>
  BY <1>a DEF Console!Process, Final
<1>2. accountC' \in [buffer : (SUBSET Chunks) \cup {None}, program : {Chunks, None}]
  BY <1>1 DEF DeploymentInv, JournalInv, LedgerInv
<1>3. /\ LedgerInv' /\ ChainInv' /\ DiskInv'
      /\ \A c \in Consoles : con[c].pc # "off" => SeenInv(con[c].seen)'
      /\ u.state = "processed" /\ SameKey(u, t)
  BY <1>1, <1>2, <1>a, GoesOn
<1>4. \A e \in disk : Open(e)' <=> Open(e)
  BY <1>1, <1>3 DEF Open, SameKey, Final
<1>5. DeployInv'
  BY <1>1, <1>4 DEF DeploymentInv, JournalInv, DeployInv
<1>. QED  BY <1>1, <1>3, <1>5, ConsolesWatch DEF DeploymentInv, JournalInv

(* What a transaction makes of the accounts.                               *)
LEMMA AccountsStay ==
  ASSUME ConsoleAssumption, DeploymentInv, NEW t \in ledger, Console!Valid(t.step),
         t.step = "deploy" => accountC.buffer = Chunks
  PROVE  Console!Applied(t.step) \in
           [buffer : (SUBSET Chunks) \cup {None}, program : {Chunks, None}]
<1>1. t.step \in Steps /\
      accountC \in [buffer : (SUBSET Chunks) \cup {None}, program : {Chunks, None}]
  BY DEF DeploymentInv, JournalInv, LedgerInv, Transaction
<1>. QED  BY <1>1 DEF Console!Applied, Console!Valid, Steps, ConsoleAssumption

LEMMA FinalizeKeeps ==
  ASSUME ConsoleAssumption, DeploymentInv, NEW t, Console!Finalize(t)
  PROVE  DeploymentInv'
<1>1. t \in ledger /\ t.state = "processed" /\ UNCHANGED <<lockC, disk, con, height>>
  BY DEF Console!Finalize
<1>2. PICK state \in Final :
        /\ ledger' = (ledger \ {t}) \cup {[t EXCEPT !.state = state]}
        /\ \/ accountC' = accountC
           \/ Console!Valid(t.step) /\ accountC' = Console!Applied(t.step)
  <2>1. CASE Console!Valid(t.step) /\ accountC' = Console!Applied(t.step)
             /\ ledger' = (ledger \ {t}) \cup {[t EXCEPT !.state = "finalized"]}
    BY <2>1 DEF Final
  <2>2. CASE accountC' = accountC
             /\ ledger' = (ledger \ {t}) \cup {[t EXCEPT !.state = "failed"]}
    BY <2>2 DEF Final
  <2>. QED  BY <2>1, <2>2 DEF Console!Finalize
<1>a. PICK u : u = [t EXCEPT !.state = state]
  OBVIOUS
<1>3. PICK e \in disk : SameKey(e, t)
  BY <1>1 DEF DeploymentInv, JournalInv, ChainInv, Console!SentIsJournaled, SameKey
<1>4. Open(e)
  BY <1>1, <1>3 DEF Open, DeploymentInv, JournalInv, LedgerInv, Unique, SameKey, Final
<1>5. t.step = "deploy" => accountC.buffer = Chunks
  BY <1>3, <1>4 DEF DeploymentInv, JournalInv, DeployInv, SameKey
<1>6. accountC' \in [buffer : (SUBSET Chunks) \cup {None}, program : {Chunks, None}]
  BY <1>1, <1>2, <1>5, AccountsStay DEF DeploymentInv, JournalInv, LedgerInv
<1>7. t.state \notin Final /\ state \in {"processed"} \cup Final
  BY <1>1 DEF Final
<1>8. /\ LedgerInv' /\ ChainInv' /\ DiskInv'
      /\ \A c \in Consoles : con[c].pc # "off" => SeenInv(con[c].seen)'
      /\ \A f \in disk : Open(f)' => Open(f)
      /\ SameKey(u, t) /\ u.state = state
  BY <1>1, <1>2, <1>6, <1>7, <1>a, GoesOn
<1>9. ~Open(e)'
  BY <1>2, <1>3, <1>8, <1>a DEF Open, SameKey
<1>10. \A f \in disk : f.step = "deploy" => ~Open(f)'
  BY <1>3, <1>4, <1>8, <1>9 DEF DeploymentInv, JournalInv, DeployInv
<1>11. DeployInv'
  BY <1>1, <1>10 DEF DeployInv
<1>. QED  BY <1>1, <1>7, <1>8, <1>11, ConsolesWatch DEF DeploymentInv, JournalInv

LEMMA TickKeeps ==
  ASSUME ConsoleAssumption, DeploymentInv, Console!Tick
  PROVE  DeploymentInv'
<1>1. height \in Nat /\ height' = height + 1 /\ UNCHANGED <<lockC, disk, con, ledger,
accountC>>
  BY DEF Console!Tick, DeploymentInv, JournalInv, LedgerInv
<1>2. LedgerInv'
  BY <1>1 DEF DeploymentInv, JournalInv, LedgerInv, Unique
<1>3. ChainInv'
  BY <1>1 DEF DeploymentInv, JournalInv, DiskInv, ChainInv, Console!SentIsJournaled,
     JournalEntry, ConsoleAssumption
<1>4. DiskInv' /\ DeployInv'
  BY <1>1 DEF DeploymentInv, JournalInv, DiskInv, DeployInv, Unique, Console!Pending, Open
<1>5. ConsolesInv'
  BY <1>1 DEF DeploymentInv, ConsolesInv, ConsoleInv, RunningInv, SeenInv, PlanInv,
     Unique, Console!Pending
<1>. QED  BY <1>2, <1>3, <1>4, <1>5 DEF DeploymentInv, JournalInv

-----------------------------------------------------------------------------
(* Theorems *)

LEMMA ConsoleStep ==
  ASSUME ConsoleAssumption
  PROVE  DeploymentInv /\ [Console!Next]_(Console!vars) => DeploymentInv'
<1> SUFFICES ASSUME DeploymentInv, [Console!Next]_(Console!vars) PROVE DeploymentInv'
  OBVIOUS
<1>1. ASSUME NEW c \in Consoles, Console!Start(c) PROVE DeploymentInv'
  BY <1>1, StartKeeps
<1>2. ASSUME NEW c \in Consoles, Console!Crash(c) \/ Console!Close(c) PROVE DeploymentInv'
  BY <1>2, EndKeeps
<1>3. ASSUME NEW c \in Consoles,
             NEW op \in {"status", "prepare", "recover", "submit", "rebroadcast"},
             Console!Request(c, op)
      PROVE  DeploymentInv'
  BY <1>3, OperatorKeeps DEF Ops
<1>4. ASSUME NEW c \in Consoles, Console!ReadStatuses(c) PROVE DeploymentInv'
  BY <1>4, ReadStatusesKeeps
<1>5. ASSUME NEW c \in Consoles,
             Console!RpcFails(c) \/ Console!Status(c) PROVE DeploymentInv'
  BY <1>5, FailKeeps DEF Console!RpcFails, Console!Status, Quiet
<1>6. ASSUME NEW c \in Consoles, Console!RefreshPending(c) PROVE DeploymentInv'
  BY <1>6, RefreshPendingKeeps
<1>7. ASSUME NEW c \in Consoles, Console!Prepare(c) PROVE DeploymentInv'
  BY <1>7, PrepareKeeps
<1>8. ASSUME NEW c \in Consoles, Console!Submit(c) PROVE DeploymentInv'
  BY <1>8, SubmitKeeps
<1>9. ASSUME NEW c \in Consoles, Console!Rebroadcast(c) PROVE DeploymentInv'
  BY <1>9, RebroadcastKeeps
<1>10. ASSUME NEW c \in Consoles, Console!Broadcast(c) PROVE DeploymentInv'
  BY <1>10, BroadcastKeeps
<1>11. ASSUME NEW t \in ledger,
              Console!Process(t) \/ Console!Finalize(t) PROVE DeploymentInv'
  BY <1>11, ProcessKeeps, FinalizeKeeps
<1>12. CASE Console!RemoveStaleLock
  BY <1>12, RemoveStaleLockKeeps
<1>13. CASE Console!Tick
  BY <1>13, TickKeeps
<1>14. ASSUME UNCHANGED <<lockC, disk, con, ledger, accountC, height>> PROVE DeploymentInv'
  <2>1. JournalInv'
    BY <1>14, JournalStays DEF DeploymentInv, Quiet
  <2>2. ConsolesInv'
    BY <1>14 DEF DeploymentInv, ConsolesInv, ConsoleInv, RunningInv, SeenInv, PlanInv,
       Unique,
                 Console!Pending
  <2>. QED  BY <2>1, <2>2 DEF DeploymentInv
<1>15. CASE Console!SignTransactions \/ Console!Cancel \/ UNCHANGED Console!vars
  BY <1>14, <1>15 DEF Console!SignTransactions, Console!Cancel, Console!vars
<1>. QED
  BY <1>1, <1>2, <1>3, <1>4, <1>5, <1>6, <1>7, <1>8, <1>9, <1>10, <1>11, <1>12, <1>13,
     <1>15 DEF Console!Next

(* However consoles crash and whatever is lost: what the journal, the lock *)
(* and a console in progress say of the chain is true.                     *)
THEOREM ConsoleInvariant == Console!Spec => []DeploymentInv
<1>1. Console!Init => DeploymentInv
  BY InitInv, ConsoleAssumption
<1>2. DeploymentInv /\ [Console!Next]_(Console!vars) => DeploymentInv'
  BY ConsoleStep, ConsoleAssumption
<1>. QED  BY <1>1, <1>2, PTL DEF Console!Spec

(* Every transaction the network has seen is in the journal on disk, so a  *)
(* console that is started again accounts for it (deployment-console.ts,   *)
(* submit).                                                                *)
THEOREM EverySentIsJournaled ==
  Console!Spec => []Console!SentIsJournaled
<1>1. DeploymentInv => Console!SentIsJournaled
  BY DEF DeploymentInv, JournalInv, ChainInv
<1>. QED  BY <1>1, ConsoleInvariant, PTL

(* What can still land is of one approval: its entry is pending.            *)
LEMMA OneInFlight == ASSUME DeploymentInv PROVE Console!OneApprovalInFlight
<1> SUFFICES ASSUME NEW t \in ledger, NEW u \in ledger,
                    t.state \in {"sent", "processed"}, u.state \in {"sent", "processed"},
                    height <= t.at + Window, height <= u.at + Window
             PROVE  t.at = u.at
  BY DEF Console!OneApprovalInFlight
<1>1. ASSUME NEW x \in ledger, x.state \in {"sent", "processed"},
             height <= x.at + Window
      PROVE  \E e \in Console!Pending(disk) : e.at = x.at
  <2>1. PICK e \in disk : SameKey(e, x)
    BY DEF DeploymentInv, JournalInv, ChainInv, Console!SentIsJournaled, SameKey
  <2>2. e.state \notin Final
    BY <1>1, <2>1 DEF DeploymentInv, JournalInv, ChainInv, LedgerInv, Unique, SameKey,
       Final
  <2>3. e.state # "expired"
    BY <1>1, <2>1, ConsoleAssumption
    DEF DeploymentInv, JournalInv, ChainInv, LedgerInv, DiskInv,
       JournalEntry, SameKey
  <2>. QED  BY <2>1, <2>2, <2>3 DEF Console!Pending, DeploymentInv, JournalInv,
               DiskInv, JournalEntry, SameKey
<1>2. \E e \in Console!Pending(disk) : e.at = t.at
  BY <1>1
<1>3. \E e \in Console!Pending(disk) : e.at = u.at
  BY <1>1
<1>. QED  BY <1>2, <1>3 DEF DeploymentInv, JournalInv, DiskInv

(* Two approvals are never in flight at once: a step is not signed again   *)
(* while its transaction may still land, over crashes, lost replies and    *)
(* consoles that are started while another one ran (submit, prepare).      *)
THEOREM OneApprovalAtATime ==
  Console!Spec => []Console!OneApprovalInFlight
<1>. QED  BY OneInFlight, ConsoleInvariant, PTL

(* The program on the chain is the whole artifact: nothing changes the     *)
(* buffer between the inspection that found it whole and the deployment    *)
(* (prepareNextDeployment, inspectDeployment).                             *)
THEOREM DeploysTheArtifact ==
  Console!Spec => []Console!DeployedWhole
<1>1. DeploymentInv => Console!DeployedWhole
  BY DEF DeploymentInv, JournalInv, LedgerInv, Console!DeployedWhole, Console!Complete
<1>. QED  BY <1>1, ConsoleInvariant, PTL
-----------------------------------------------------------------------------
(* What a console may spend *)

LEMMA ConsoleSum ==
  ASSUME NEW f PROVE Console!SumFunction(f) = SumFunctionOnSet(f, DOMAIN f)
BY DEF Console!SumFunction, Console!SumFunctionOnSet, Console!FoldFunctionOnSet,
       Console!MapThenFoldSet, SumFunctionOnSet, FoldFunctionOnSet, MapThenFoldSet

(* A reservation covers the fee of a transaction that fails.               *)
LEMMA ReserveIsAmount ==
  ASSUME ConsoleAssumption, NEW s \in Steps
  PROVE  Console!Reserve(s) \in Nat /\ FeeCeiling <= Console!Reserve(s)
BY DEF ConsoleAssumption, Console!Reserve, Console!Funding, Steps

LEMMA SpentIsSum ==
  ASSUME ConsoleAssumption, NEW J, J \subseteq JournalEntry, IsFiniteSet(J)
  PROVE  /\ Console!Spent(J) = SumFunctionOnSet([e \in J |-> Console!Reserve(e.step)], J)
         /\ Console!Spent(J) \in Nat
<1> DEFINE f == [e \in J |-> Console!Reserve(e.step)]
<1>1. Console!Spent(J) = SumFunctionOnSet(f, J)
  BY ConsoleSum DEF Console!Spent, Console!ReserveOf
<1>2. \A e \in J : f[e] \in Nat
  BY ReserveIsAmount DEF JournalEntry
<1> HIDE DEF f
<1>3. SumFunctionOnSet(f, J) \in Nat
  BY <1>2, SumNatural
<1> QED BY <1>1, <1>3 DEF f

LEMMA CostIsSum ==
  ASSUME ConsoleAssumption, NEW S \in SUBSET Steps
  PROVE  /\ IsFiniteSet(S)
         /\ Console!Cost(S) = SumFunctionOnSet([s \in S |-> Console!Reserve(s)], S)
         /\ Console!Cost(S) \in Nat
<1> DEFINE f == [s \in S |-> Console!Reserve(s)]
<1>1. IsFiniteSet(Steps)
  <2>1. IsFiniteSet(Chunks \cup {"create-buffer"})
    BY FS_AddElement DEF ConsoleAssumption
  <2>2. IsFiniteSet((Chunks \cup {"create-buffer"}) \cup {"deploy"})
    BY <2>1, FS_AddElement
  <2>3. IsFiniteSet(((Chunks \cup {"create-buffer"}) \cup {"deploy"}) \cup {"recover-buffer"})
    BY <2>2, FS_AddElement
  <2>4. Steps = ((Chunks \cup {"create-buffer"}) \cup {"deploy"}) \cup {"recover-buffer"}
    BY DEF Steps
  <2> QED BY <2>3, <2>4
<1>2. IsFiniteSet(S)
  BY <1>1, FS_Subset
<1>3. Console!Cost(S) = SumFunctionOnSet(f, S)
  BY ConsoleSum DEF Console!Cost
<1>4. \A s \in S : f[s] \in Nat
  BY ReserveIsAmount
<1> HIDE DEF f
<1>5. SumFunctionOnSet(f, S) \in Nat
  BY <1>2, <1>4, SumNatural
<1> QED BY <1>2, <1>3, <1>5 DEF f

(* Entries that are settled reserve what they reserved.                    *)
LEMMA SettlingIsFree ==
  ASSUME ConsoleAssumption, DeploymentInv, IsFiniteSet(disk), NEW c \in Consoles,
         con[c].pc # "off", NEW J,
         J = {Console!Settled(c, e) : e \in disk}
  PROVE  IsFiniteSet(J) /\ Console!Spent(J) <= Console!Spent(disk)
<1>1. disk \subseteq JournalEntry /\ Unique(disk)
  BY DEF DeploymentInv, JournalInv, DiskInv
<1>2. \A e \in disk : Console!Settled(c, e) \in JournalEntry /\ SameKey(Console!Settled(c, e), e)
  BY SettledEntry DEF SameKey
<1>3. J \subseteq JournalEntry
  BY <1>2
<1>4. IsFiniteSet(J)
  <2> DEFINE h == [e \in disk |-> Console!Settled(c, e)]
  <2>1. h \in Surjection(disk, J)
    BY DEF Surjection
  <2> QED BY <2>1, FS_Surjection
<1> DEFINE f == [e \in J |-> Console!Reserve(e.step)]
           g == [e \in disk |-> Console!Reserve(e.step)]
           From(x) == CHOOSE e \in disk : x = Console!Settled(c, e)
           m == [x \in J |-> From(x)]
<1>5. \A x \in J : From(x) \in disk /\ x = Console!Settled(c, From(x))
  OBVIOUS
<1>6. \A x \in J : From(x).step = x.step /\ x.step \in Steps
  BY <1>2, <1>5 DEF SameKey, JournalEntry
<1>7. /\ \A x \in J : f[x] \in Int
      /\ \A e \in disk : g[e] \in Nat
  BY <1>1, <1>3, ReserveIsAmount DEF JournalEntry
<1> HIDE DEF From
<1>8. m \in [J -> disk] /\ \A x, y \in J : m[x] = m[y] => x = y
  BY <1>5
<1>9. \A x \in J : f[x] <= g[m[x]]
  BY <1>5, <1>6, ReserveIsAmount DEF JournalEntry
<1>10. Console!Spent(J) = SumFunctionOnSet(f, J)
       /\ Console!Spent(disk) = SumFunctionOnSet(g, disk)
  BY <1>1, <1>3, <1>4, SpentIsSum
<1> HIDE DEF f, g, m
<1>11. SumFunctionOnSet(f, J) <= SumFunctionOnSet(g, disk)
  BY <1>4, <1>7, <1>8, <1>9, SumAtMost
<1> QED BY <1>4, <1>10, <1>11

(* An approval that is written reserves what it costs.                     *)
LEMMA SubmittingCosts ==
  ASSUME ConsoleAssumption, DeploymentInv, IsFiniteSet(disk), NEW p, PlanInv(p), NEW E,
         E = {[step |-> s, at |-> p.at, state |-> "pending"] : s \in p.steps},
         \A e \in disk : ~(e.step \in p.steps /\ e.at = p.at)
  PROVE  /\ IsFiniteSet(disk \cup E)
         /\ Console!Spent(disk \cup E) <= Console!Spent(disk) + Console!Cost(p.steps)
<1>1. disk \subseteq JournalEntry
  BY DEF DeploymentInv, JournalInv, DiskInv
<1>2. /\ \A e \in E : e.step \in p.steps /\ e.at = p.at /\ e \in JournalEntry
      /\ \A x, y \in E : x.step = y.step => x = y
      /\ p.steps \in SUBSET Steps
  BY DEF PlanInv, JournalEntry
<1>3. disk \cap E = {}
  BY <1>2
<1>4. IsFiniteSet(p.steps)
  BY <1>2, CostIsSum
<1> DEFINE m == [e \in E |-> e.step]
<1>5. m \in [E -> p.steps] /\ \A x, y \in E : m[x] = m[y] => x = y
  BY <1>2
<1>6. IsFiniteSet(E)
  <2>1. m \in Injection(E, p.steps)
    BY <1>5 DEF Injection, IsInjective
  <2> QED BY <1>4, <2>1, FS_Injection
<1>7. IsFiniteSet(disk \cup E)
  BY <1>6, FS_Union
<1> DEFINE f == [e \in disk \cup E |-> Console!Reserve(e.step)]
           g == [e \in disk |-> Console!Reserve(e.step)]
           k == [s \in p.steps |-> Console!Reserve(s)]
<1>8. /\ \A e \in disk \cup E : f[e] \in Nat
      /\ \A e \in disk : f[e] = g[e]
      /\ \A s \in p.steps : k[s] \in Nat
      /\ \A e \in E : f[e] <= k[m[e]]
  BY <1>1, <1>2, ReserveIsAmount DEF JournalEntry
<1>9. /\ Console!Spent(disk \cup E) = SumFunctionOnSet(f, disk \cup E)
      /\ Console!Spent(disk) = SumFunctionOnSet(g, disk)
      /\ Console!Cost(p.steps) = SumFunctionOnSet(k, p.steps)
      /\ Console!Spent(disk) \in Nat /\ Console!Cost(p.steps) \in Nat
  BY <1>1, <1>2, <1>7, SpentIsSum, CostIsSum
<1> HIDE DEF f, g, k, m
<1>10. SumFunctionOnSet(f, disk \cup E) = SumFunctionOnSet(f, disk) + SumFunctionOnSet(f, E)
  BY <1>3, <1>6, <1>8, SumUnion
<1>11. SumFunctionOnSet(f, disk) = SumFunctionOnSet(g, disk)
  BY <1>8, SumSame
<1>12. SumFunctionOnSet(f, E) <= SumFunctionOnSet(k, p.steps)
  BY <1>4, <1>5, <1>6, <1>8, SumAtMost
<1>13. SumFunctionOnSet(f, E) \in Nat
  BY <1>6, <1>8, SumNatural
<1> QED BY <1>7, <1>9, <1>10, <1>11, <1>12, <1>13

(* What is reserved for every entry of the journal fits what was approved. *)
BudgetInv == IsFiniteSet(disk) /\ Console!Spent(disk) <= ApprovedBudget

LEMMA BudgetInit == ASSUME ConsoleAssumption, Console!Init PROVE BudgetInv
<1>1. disk = {} /\ disk \subseteq JournalEntry /\ IsFiniteSet(disk)
  BY FS_EmptySet DEF Console!Init
<1> DEFINE f == [e \in disk |-> Console!Reserve(e.step)]
<1>2. Console!Spent(disk) = SumFunctionOnSet(f, disk)
  BY <1>1, SpentIsSum
<1> HIDE DEF f
<1>3. Console!Spent(disk) = 0
  BY <1>1, <1>2, SumEmpty
<1> QED BY <1>1, <1>3 DEF BudgetInv, ConsoleAssumption

LEMMA BudgetStep ==
  ASSUME ConsoleAssumption, DeploymentInv, BudgetInv, [Console!Next]_(Console!vars)
  PROVE  BudgetInv'
<1>1. CASE disk' = disk
  BY <1>1 DEF BudgetInv, Console!Spent, Console!ReserveOf, Console!Reserve, Console!Funding
<1>2. ASSUME NEW c \in Consoles, Console!RefreshPending(c) PROVE BudgetInv'
  <2>1. PICK J : J = {Console!Settled(c, e) : e \in disk}
    OBVIOUS
  <2>2. con[c].pc # "off" /\ disk' = J
    BY <1>2, <2>1, Running DEF Console!RefreshPending, RunningInv
  <2>3. IsFiniteSet(J) /\ Console!Spent(J) <= Console!Spent(disk)
    BY <2>1, <2>2, SettlingIsFree DEF BudgetInv
  <2>4. J \subseteq JournalEntry
    BY <1>2, <2>2, RefreshPendingKeeps DEF DeploymentInv, JournalInv, DiskInv
  <2>5. Console!Spent(J) \in Nat /\ Console!Spent(disk) \in Nat
    BY <2>3, <2>4, SpentIsSum DEF BudgetInv, DeploymentInv, JournalInv, DiskInv
  <2>6. Console!Spent(J) <= ApprovedBudget
    BY <2>3, <2>5 DEF BudgetInv, ConsoleAssumption
  <2> QED BY <2>2, <2>3, <2>6
          DEF BudgetInv, Console!Spent, Console!ReserveOf, Console!Reserve, Console!Funding
<1>3. ASSUME NEW c \in Consoles, Console!Submit(c), Console!Accepts(c) PROVE BudgetInv'
  <2>1. PICK p : p = con[c].prepared
    OBVIOUS
  <2>2. PICK E : E = {[step |-> s, at |-> p.at, state |-> "pending"] : s \in p.steps}
    OBVIOUS
  <2>3. RunningInv(c, con[c]) /\ con[c].journal = disk
    BY <1>3, Running DEF Console!Submit, RunningInv
  <2>4. /\ PlanInv(p) /\ \A e \in disk : ~(e.step \in p.steps /\ e.at = p.at)
        /\ Console!Spent(disk) + Console!Cost(p.steps) <= ApprovedBudget
    BY <1>3, <2>1, <2>3 DEF Console!Accepts, RunningInv
  <2>5. disk' = disk \cup E
    BY <1>3, <2>1, <2>2, <2>3 DEF Console!Submit, Console!Persist
  <2>6. IsFiniteSet(disk \cup E)
        /\ Console!Spent(disk \cup E) <= Console!Spent(disk) + Console!Cost(p.steps)
    BY <2>2, <2>4, SubmittingCosts DEF BudgetInv
  <2>7. disk \cup E \subseteq JournalEntry
    BY <1>3, <2>5, SubmitKeeps DEF DeploymentInv, JournalInv, DiskInv
  <2>8. /\ Console!Spent(disk) \in Nat /\ Console!Spent(disk \cup E) \in Nat
        /\ Console!Cost(p.steps) \in Nat
    BY <2>4, <2>6, <2>7, SpentIsSum, CostIsSum
    DEF BudgetInv, DeploymentInv, JournalInv, DiskInv, PlanInv
  <2>9. Console!Spent(disk \cup E) <= ApprovedBudget
    BY <2>4, <2>6, <2>8 DEF ConsoleAssumption
  <2> QED BY <2>5, <2>6, <2>9
          DEF BudgetInv, Console!Spent, Console!ReserveOf, Console!Reserve, Console!Funding
<1>4. ASSUME NEW c \in Consoles, Console!Submit(c), ~Console!Accepts(c) PROVE disk' = disk
  BY <1>4 DEF Console!Submit
<1>5. CASE UNCHANGED Console!vars
  BY <1>1, <1>5 DEF Console!vars
<1>6. CASE Console!Next
  BY <1>1, <1>2, <1>3, <1>4, <1>6
  DEF Console!Next, Console!Start, Console!Crash, Console!Close, Console!Request,
      Console!ReadStatuses, Console!RpcFails, Console!Status, Console!Prepare,
      Console!Rebroadcast, Console!Broadcast, Console!RemoveStaleLock,
      Console!SignTransactions, Console!Cancel, Console!Tick, Console!Process,
      Console!Finalize
<1> QED BY <1>5, <1>6

(* Every transaction is paid from the reservation of its entry.            *)
LEMMA LedgerFitsJournal ==
  ASSUME ConsoleAssumption, DeploymentInv, BudgetInv PROVE Console!WithinBudget
<1> DEFINE f == [t \in ledger |-> IF t.state = "failed" THEN FeeCeiling
                                  ELSE Console!Reserve(t.step)]
           g == [e \in disk |-> Console!Reserve(e.step)]
           From(t) == CHOOSE e \in disk : SameKey(e, t)
           m == [t \in ledger |-> From(t)]
<1>1. /\ disk \subseteq JournalEntry /\ ledger \subseteq Transaction /\ Unique(ledger)
      /\ IsFiniteSet(disk) /\ Console!Spent(disk) <= ApprovedBudget
  BY DEF DeploymentInv, JournalInv, DiskInv, LedgerInv, BudgetInv
<1>2. \A t \in ledger : From(t) \in disk /\ SameKey(From(t), t)
  BY DEF DeploymentInv, JournalInv, ChainInv, Console!SentIsJournaled, SameKey
<1> HIDE DEF From
<1>3. m \in [ledger -> disk]
  BY <1>2
<1>4. \A t, u \in ledger : m[t] = m[u] => t = u
  BY <1>1, <1>2 DEF SameKey, Unique
<1>5. IsFiniteSet(ledger)
  <2>1. m \in Injection(ledger, disk)
    BY <1>3, <1>4 DEF Injection, IsInjective
  <2> QED BY <1>1, <2>1, FS_Injection
<1>6. /\ \A t \in ledger : f[t] \in Nat
      /\ \A e \in disk : g[e] \in Nat
      /\ \A t \in ledger : f[t] <= g[m[t]]
  <2>1. \A e \in disk : e.step \in Steps
    BY <1>1 DEF JournalEntry
  <2>2. \A t \in ledger : t.step \in Steps /\ From(t) \in disk /\ From(t).step = t.step
    BY <1>1, <1>2 DEF Transaction, SameKey
  <2> QED BY <2>1, <2>2, ReserveIsAmount DEF ConsoleAssumption
<1>7. Console!Spent(disk) = SumFunctionOnSet(g, disk)
  BY <1>1, SpentIsSum
<1> HIDE DEF f, g, m
<1>8. SumFunctionOnSet(f, ledger) <= SumFunctionOnSet(g, disk)
  BY <1>1, <1>3, <1>4, <1>5, <1>6, SumAtMost
<1>9. SumFunctionOnSet(f, ledger) \in Nat /\ SumFunctionOnSet(g, disk) \in Nat
  BY <1>1, <1>5, <1>6, SumNatural
<1>10. SumFunctionOnSet(f, ledger) <= ApprovedBudget
  BY <1>1, <1>7, <1>8, <1>9 DEF ConsoleAssumption
<1>11. Console!SumFunction(f) = SumFunctionOnSet(f, ledger)
  BY ConsoleSum DEF f
<1>12. Console!SumFunction(f) <= ApprovedBudget
  BY <1>10, <1>11
<1> QED BY <1>12 DEF Console!WithinBudget, f

LEMMA ConsoleHeight ==
  ASSUME ConsoleAssumption, height \in 0..MaxHeight, [Console!Next]_(Console!vars)
  PROVE  height' \in 0..MaxHeight
<1>1. CASE Console!Tick
  BY <1>1 DEF ConsoleAssumption, Console!Tick
<1>2. CASE height' = height
  BY <1>2
<1> QED
  BY <1>1, <1>2
  DEF Console!vars, Console!Next, Console!Start, Console!Crash, Console!Close,
      Console!Request, Console!ReadStatuses, Console!RpcFails, Console!RefreshPending,
      Console!Status, Console!Prepare, Console!Submit, Console!Rebroadcast,
      Console!Broadcast, Console!RemoveStaleLock, Console!SignTransactions,
      Console!Cancel, Console!Process, Console!Finalize

ConsoleSafe == DeploymentInv /\ BudgetInv /\ height \in 0..MaxHeight

LEMMA ConsoleKeepsPromises ==
  ASSUME ConsoleAssumption, ConsoleSafe
  PROVE  /\ Console!TypeOK /\ Console!SentIsJournaled /\ Console!WithinBudget
         /\ Console!OneApprovalInFlight /\ Console!DeployedWhole
<1>1. Console!TypeOK
  BY DEF ConsoleSafe, DeploymentInv, JournalInv, DiskInv, LedgerInv, ConsolesInv,
         JournalEntry, Transaction, Final, Console!TypeOK
<1>2. Console!SentIsJournaled
  BY DEF ConsoleSafe, DeploymentInv, JournalInv, ChainInv
<1>3. Console!WithinBudget
  BY LedgerFitsJournal DEF ConsoleSafe
<1>4. Console!OneApprovalInFlight
  BY OneInFlight DEF ConsoleSafe
<1>5. Console!DeployedWhole
  BY DEF ConsoleSafe, DeploymentInv, JournalInv, LedgerInv, Console!DeployedWhole,
         Console!Complete
<1> QED BY <1>1, <1>2, <1>3, <1>4, <1>5

-----------------------------------------------------------------------------
(* The launch form *)

(* The fields of the form and of a draft, whatever they hold.              *)
IsForm(f) ==
  f = [wallet |-> f.wallet, ticker |-> f.ticker, answer |-> f.answer, x |-> f.x,
       source |-> f.source, image |-> f.image, selection |-> f.selection,
       busy |-> f.busy, rows |-> f.rows, restored |-> f.restored]

IsDraft(d) ==
  d = [owner |-> d.owner, ticker |-> d.ticker, x |-> d.x, source |-> d.source,
       image |-> d.image, rows |-> d.rows, old |-> d.old]

FormInv == IsForm(form) /\ (Create!Saved => IsDraft(draft))

LEMMA FormsStay ==
  ASSUME NEW f, IsForm(f), NEW v
  PROVE  /\ IsForm([f EXCEPT !.wallet = v]) /\ IsForm([f EXCEPT !.ticker = v])
         /\ IsForm([f EXCEPT !.answer = v]) /\ IsForm([f EXCEPT !.x = v])
         /\ IsForm([f EXCEPT !.source = v]) /\ IsForm([f EXCEPT !.image = v])
         /\ IsForm([f EXCEPT !.selection = v]) /\ IsForm([f EXCEPT !.busy = v])
         /\ IsForm([f EXCEPT !.rows = v]) /\ IsForm([f EXCEPT !.restored = v])
BY DEF IsForm

LEMMA OthersStay ==
  ASSUME NEW f, IsForm(f), NEW v
  PROVE  /\ [f EXCEPT !.wallet = v].wallet = v
         /\ [f EXCEPT !.wallet = v].ticker = f.ticker
         /\ [f EXCEPT !.wallet = v].rows = f.rows
         /\ [f EXCEPT !.ticker = v].wallet = f.wallet
BY DEF IsForm

LEMMA FormInit == ASSUME Create!Init PROVE FormInv
<1>1. ~Create!Saved
  BY DEF Create!Init, Create!Saved, Create!NoDraft
<1>2. \A w : IsForm(Create!Blank(w))
  BY DEF IsForm, Create!Blank
<1> QED BY <1>1, <1>2 DEF Create!Init, FormInv

(* Whatever the creator or a reply does to the form, it keeps its fields.  *)
LEMMA EditsKeep ==
  ASSUME FormInv, UNCHANGED draft,
         \/ \E ticker \in Tickers : Create!TypeTicker(ticker)
         \/ \E l \in lookups : Create!TickerAnswer(l)
         \/ Create!SelectImage
         \/ \E n \in preparing : Create!ImagePrepared(n)
         \/ \E handle \in Handles : Create!TypeProfileLink(handle)
         \/ Create!ConnectedProfile
         \/ \E x \in XIds : Create!AddRecipient(x)
         \/ \E x \in XIds, share \in Shares : Create!SetShare(x, share)
         \/ \E gone \in SUBSET XIds : Create!RemoveRecipients(gone)
         \/ \E x \in XIds : Create!MyProfile(x)
         \/ Create!PrefillReply
  PROVE  FormInv'
<1> SUFFICES IsForm(form')
  BY DEF FormInv, Create!Saved
<1>1. IsForm(form)
  BY DEF FormInv
<1>2. ASSUME NEW ticker, Create!TypeTicker(ticker) PROVE IsForm(form')
  BY <1>1, <1>2 DEF IsForm, Create!TypeTicker
<1>3. ASSUME NEW l, Create!TickerAnswer(l) PROVE IsForm(form')
  BY <1>1, <1>3 DEF IsForm, Create!TickerAnswer
<1>4. CASE Create!SelectImage
  BY <1>1, <1>4 DEF IsForm, Create!SelectImage
<1>5. ASSUME NEW n, Create!ImagePrepared(n) PROVE IsForm(form')
  BY <1>1, <1>5 DEF IsForm, Create!ImagePrepared
<1>6. ASSUME NEW handle, Create!TypeProfileLink(handle) PROVE IsForm(form')
  BY <1>1, <1>6 DEF IsForm, Create!TypeProfileLink
<1>7. CASE Create!ConnectedProfile
  BY <1>1, <1>7 DEF IsForm, Create!ConnectedProfile
<1>8. ASSUME NEW x, Create!AddRecipient(x) PROVE IsForm(form')
  BY <1>1, <1>8 DEF IsForm, Create!AddRecipient
<1>9. ASSUME NEW x, NEW share, Create!SetShare(x, share) PROVE IsForm(form')
  BY <1>1, <1>9 DEF IsForm, Create!SetShare
<1>10. ASSUME NEW gone, Create!RemoveRecipients(gone) PROVE IsForm(form')
  BY <1>1, <1>10 DEF IsForm, Create!RemoveRecipients
<1>11. ASSUME NEW x, Create!MyProfile(x) PROVE IsForm(form')
  BY <1>1, <1>11 DEF IsForm, Create!MyProfile
<1>12. CASE Create!PrefillReply
  BY <1>1, <1>12 DEF IsForm, Create!PrefillReply
<1> QED BY <1>2, <1>3, <1>4, <1>5, <1>6, <1>7, <1>8, <1>9, <1>10, <1>11, <1>12

(* A wallet takes the draft of the browser only if it wrote it, and then   *)
(* it is gone; otherwise ticker and recipients stay.                       *)
LEMMA ConnectTakesOwn ==
  ASSUME FormInv, NEW w, Create!Connect(w)
  PROVE  /\ FormInv'
         /\ Create!Saved /\ ~Create!Saved' =>
              \/ form'.ticker = form.ticker /\ form'.rows = form.rows
              \/ form'.wallet = w /\ draft.owner = w /\ ~draft.old
<1> DEFINE kept == [form EXCEPT !.wallet = w, !.source = "link", !.restored = TRUE]
<1>1. IsForm(kept) /\ kept.wallet = w /\ kept.ticker = form.ticker /\ kept.rows = form.rows
  <2>1. IsForm(form)
    BY DEF FormInv
  <2> DEFINE linked == [form EXCEPT !.wallet = w]
             open == [linked EXCEPT !.source = "link"]
  <2>2. kept = [open EXCEPT !.restored = TRUE]
    OBVIOUS
  <2>3. IsForm(linked) /\ linked.wallet = w /\ linked.ticker = form.ticker
        /\ linked.rows = form.rows
    BY <2>1 DEF IsForm
  <2> HIDE DEF linked
  <2>4. IsForm(open) /\ open.wallet = w /\ open.ticker = form.ticker
        /\ open.rows = form.rows
    BY <2>3 DEF IsForm
  <2> HIDE DEF open, kept
  <2> QED BY <2>2, <2>4 DEF IsForm
<1>2. CASE w = None \/ form.restored \/ prefill # None
  <2>1. form' = [kept EXCEPT !.restored = form.restored] /\ draft' = draft
    BY <1>2 DEF Create!Connect
  <2>2. IsForm(form')
    BY <1>1, <2>1 DEF IsForm
  <2> QED BY <2>1, <2>2 DEF FormInv, Create!Saved
<1>3. CASE ~(w = None \/ form.restored \/ prefill # None)
  <2>1. draft' = Create!NoDraft
    BY <1>3 DEF Create!Connect
  <2>2. ~Create!Saved'
    BY <2>1 DEF Create!Saved, Create!NoDraft
  <2>3. CASE Create!OwnDraft(w)
    <3>1. form' = [kept EXCEPT !.ticker = draft.ticker, !.x = draft.x,
                     !.answer = IF draft.ticker = form.ticker THEN @ ELSE None,
                     !.source = draft.source,
                     !.image = IF draft.image = 0 THEN 0 ELSE Create!Earlier,
                     !.rows = draft.rows]
      BY <1>3, <2>3 DEF Create!Connect
    <3> HIDE DEF kept
    <3>2. IsForm(form') /\ form'.wallet = w
      BY <1>1, <3>1 DEF IsForm
    <3> QED BY <2>2, <2>3, <3>2 DEF FormInv, Create!OwnDraft
  <2>4. CASE ~Create!OwnDraft(w)
    <3>1. form' = kept
      BY <1>3, <2>4 DEF Create!Connect
    <3> HIDE DEF kept
    <3> QED BY <1>1, <2>2, <3>1 DEF FormInv
  <2> QED BY <2>3, <2>4
<1> QED BY <1>2, <1>3

LEMMA LeaveKeeps == ASSUME FormInv, Create!LeaveForX PROVE FormInv' /\ Create!Saved'
<1>1. IsForm(form')
  BY DEF Create!LeaveForX, Create!Blank, IsForm
<1>2. IsDraft(draft') /\ draft'.owner # None
  BY DEF Create!LeaveForX, IsDraft
<1> QED BY <1>1, <1>2 DEF FormInv, Create!Saved

LEMMA ExpiryKeeps == ASSUME FormInv, Create!DraftExpires PROVE FormInv' /\ Create!Saved'
<1>1. UNCHANGED form
  BY DEF Create!DraftExpires
<1>2. IsDraft(draft) /\ draft' = [draft EXCEPT !.old = TRUE] /\ draft.owner # None
  BY DEF Create!DraftExpires, FormInv, Create!Saved
<1>3. IsDraft(draft') /\ draft'.owner = draft.owner
  BY <1>2 DEF IsDraft
<1> QED BY <1>1, <1>2, <1>3 DEF FormInv, Create!Saved

LEMMA FormStep ==
  ASSUME FormInv, [Create!Next]_createVars PROVE FormInv' /\ Create!DraftIsItsOwners
<1>1. CASE \/ \E ticker \in Tickers : Create!TypeTicker(ticker)
           \/ \E l \in lookups : Create!TickerAnswer(l)
           \/ Create!SelectImage
           \/ \E n \in preparing : Create!ImagePrepared(n)
           \/ \E handle \in Handles : Create!TypeProfileLink(handle)
           \/ Create!ConnectedProfile
           \/ \E x \in XIds : Create!AddRecipient(x)
           \/ \E x \in XIds, share \in Shares : Create!SetShare(x, share)
           \/ \E gone \in SUBSET XIds : Create!RemoveRecipients(gone)
           \/ \E x \in XIds : Create!MyProfile(x)
           \/ Create!PrefillReply
  <2>1. UNCHANGED draft
    BY <1>1 DEF Create!TypeTicker, Create!TickerAnswer, Create!SelectImage,
         Create!ImagePrepared, Create!TypeProfileLink, Create!ConnectedProfile,
         Create!AddRecipient, Create!SetShare, Create!RemoveRecipients,
         Create!MyProfile, Create!PrefillReply
  <2>2. FormInv'
    BY <1>1, <2>1, EditsKeep
  <2> QED BY <2>1, <2>2 DEF Create!DraftIsItsOwners, Create!Saved
<1>2. CASE \/ Create!UseConnectedX \/ Create!AddMe \/ Create!OtherTab \/ Create!Submit
           \/ Create!CheckLinked \/ Create!LaunchRequest \/ UNCHANGED createVars
  <2>1. UNCHANGED <<form, draft>>
    BY <1>2 DEF Create!UseConnectedX, Create!AddMe, Create!OtherTab, Create!Submit,
         Create!CheckLinked, Create!LaunchRequest, createVars
  <2> QED BY <2>1 DEF FormInv, Create!Saved, Create!DraftIsItsOwners
<1>3. ASSUME NEW w \in Wallets \cup {None}, Create!Connect(w)
      PROVE  FormInv' /\ Create!DraftIsItsOwners
  BY <1>3, ConnectTakesOwn DEF Create!DraftIsItsOwners
<1>4. CASE Create!LeaveForX \/ Create!DraftExpires
  BY <1>4, LeaveKeeps, ExpiryKeeps DEF Create!DraftIsItsOwners
<1> QED BY <1>1, <1>2, <1>3, <1>4 DEF Create!Next

-----------------------------------------------------------------------------
(* The retirement review *)

Escrow == [allocations : SUBSET Pools, paused : BOOLEAN,
           code : [artifact : {"reviewed", "other"}, deployed : Nat]]

(* Until the program is replaced an allocation cannot be undone, and while *)
(* a review runs, it is not replaced.                                      *)
UnusedInv ==
  /\ escrow \in Escrow /\ used \in BOOLEAN /\ slot \in Nat
  /\ review \in [pc : {"start", "scanned", "genuine", "rescanned", "candidate", "rejected"},
                resumed : BOOLEAN]
  /\ used /\ escrow.code.deployed = 0 => escrow.allocations # {}
  /\ review.pc = "genuine" => escrow.code.deployed = 0 /\ ~review.resumed
  /\ review.pc = "scanned" => ~review.resumed
  /\ review.pc = "start" => ~review.resumed
  /\ review.pc = "rescanned" => review.resumed \/ (escrow.paused /\ ~used)

LEMMA UnusedInit == ASSUME Retirement!Init PROVE UnusedInv
<1>1. escrow \in Escrow /\ escrow.code.deployed = 0
  BY DEF Retirement!Init, Retirement!Genuine, Escrow
<1>2. used = FALSE /\ slot = 0 /\ review = [pc |-> "start", resumed |-> FALSE]
  BY DEF Retirement!Init, Retirement!NoReview
<1> QED BY <1>1, <1>2 DEF UnusedInv

LEMMA AllocationKeeps ==
  ASSUME UnusedInv, NEW p \in Pools, Retirement!InitializeAllocation(p) PROVE UnusedInv'
<1>1. /\ escrow' \in Escrow /\ escrow'.allocations = escrow.allocations \cup {p}
      /\ escrow'.code = escrow.code
  BY DEF UnusedInv, Escrow, Retirement!InitializeAllocation
<1> QED BY <1>1 DEF UnusedInv, Retirement!InitializeAllocation

LEMMA PauseKeeps ==
  ASSUME UnusedInv, NEW b \in BOOLEAN, Retirement!SetPaused(b) PROVE UnusedInv'
<1>1. /\ escrow' \in Escrow /\ escrow'.allocations = escrow.allocations
      /\ escrow'.code = escrow.code
  BY DEF UnusedInv, Escrow, Retirement!SetPaused
<1>2. /\ escrow'.paused = b /\ UNCHANGED <<used, slot>>
      /\ review' = [review EXCEPT !.resumed = @ \/ (review.pc = "rescanned" /\ ~b)]
  BY DEF UnusedInv, Escrow, Retirement!SetPaused
<1>3. review'.pc = review.pc /\ (review.pc # "rescanned" => review' = review)
  BY <1>2 DEF UnusedInv
<1>4. review.pc = "rescanned" => review'.resumed = (review.resumed \/ ~b)
  BY <1>2 DEF UnusedInv
<1>5. review' \in [pc : {"start", "scanned", "genuine", "rescanned", "candidate", "rejected"},
                  resumed : BOOLEAN]
  BY <1>2 DEF UnusedInv
<1> QED BY <1>1, <1>2, <1>3, <1>4, <1>5 DEF UnusedInv

LEMMA UpgradeKeeps ==
  ASSUME UnusedInv, NEW artifact \in {"reviewed", "other"},
         NEW kept \in SUBSET escrow.allocations, Retirement!Upgrade(artifact, kept)
  PROVE  UnusedInv'
<1>1. slot' \in Nat /\ slot' # 0
  BY DEF UnusedInv, Retirement!Upgrade
<1>2. kept \in SUBSET Pools
  BY DEF UnusedInv, Escrow
<1>3. escrow' \in Escrow /\ escrow'.code.deployed = slot'
  BY <1>1, <1>2 DEF UnusedInv, Escrow, Retirement!Upgrade
<1> QED BY <1>1, <1>3 DEF UnusedInv, Retirement!Upgrade

LEMMA RetirementStep == UnusedInv /\ [Retirement!Next]_retirementVars => UnusedInv'
<1> SUFFICES ASSUME UnusedInv, [Retirement!Next]_retirementVars PROVE UnusedInv'
  OBVIOUS
<1>1. CASE \E p \in Pools : Retirement!InitializeAllocation(p)
  BY <1>1, AllocationKeeps
<1>2. CASE \E b \in BOOLEAN : Retirement!SetPaused(b)
  BY <1>2, PauseKeeps
<1>3. CASE \E artifact \in {"reviewed", "other"}, kept \in SUBSET escrow.allocations :
             Retirement!Upgrade(artifact, kept)
  BY <1>3, UpgradeKeeps
<1>4. CASE Retirement!InspectRetirement
  BY <1>4 DEF UnusedInv, Retirement!InspectRetirement, Retirement!Reject
<1>5. CASE Retirement!CheckArtifact
  BY <1>5 DEF UnusedInv, Retirement!CheckArtifact, Retirement!Reject,
              Retirement!OriginalSlot
<1>6. CASE Retirement!ScanAgain
  BY <1>6 DEF UnusedInv, Retirement!ScanAgain, Retirement!SecondScan, Retirement!Reject
<1>9. CASE Retirement!TokenScans
  BY <1>9 DEF UnusedInv, Retirement!TokenScans, Retirement!Reject
<1>7. CASE Retirement!ReviewAgain
  BY <1>7 DEF UnusedInv, Retirement!ReviewAgain, Retirement!NoReview
<1>8. CASE UNCHANGED retirementVars
  BY <1>8 DEF UnusedInv, retirementVars
<1> QED BY <1>1, <1>2, <1>3, <1>4, <1>5, <1>6, <1>7, <1>8, <1>9 DEF Retirement!Next

(* A candidate is unused: the second scan finds no allocation of the       *)
(* program that was there from the beginning, and a paused one gets none.  *)
LEMMA CandidatesAreUnused ==
  UnusedInv /\ [Retirement!Next]_retirementVars => Retirement!CandidateIsUnused
<1> SUFFICES ASSUME UnusedInv, [Retirement!Next]_retirementVars,
                    review.pc # "candidate", review'.pc = "candidate"
             PROVE  ~used \/ review.resumed
  BY DEF Retirement!CandidateIsUnused
<1>1. review'.pc # review.pc
  OBVIOUS
<1>2. /\ ~Retirement!InspectRetirement /\ ~Retirement!CheckArtifact
      /\ ~Retirement!ScanAgain /\ ~Retirement!ReviewAgain
  BY DEF UnusedInv, Retirement!InspectRetirement, Retirement!Reject,
         Retirement!CheckArtifact, Retirement!ScanAgain, Retirement!ReviewAgain,
         Retirement!NoReview
<1>3. \A b \in BOOLEAN : ~Retirement!SetPaused(b)
  BY <1>1 DEF UnusedInv, Retirement!SetPaused
<1>4. Retirement!TokenScans
  BY <1>1, <1>2, <1>3 DEF retirementVars, Retirement!Next, Retirement!InitializeAllocation,
         Retirement!Upgrade
<1>5. review.pc = "rescanned"
  BY <1>4 DEF Retirement!TokenScans
<1> QED BY <1>5 DEF UnusedInv

-----------------------------------------------------------------------------
(* The pool setup *)

Statuses == {"prepared", "submitted", "confirmed", "expired"}
NewCurves == {Setup!DefaultCurve(t) : t \in Prices \cup Deployed}
OldCurves == {Setup!Classic(t) : t \in Deployed}
Intent == [status : Statuses, sent : BOOLEAN, through : Nat, curve : NewCurves]
Lookups == [id : 1..MaxReviews, status : Statuses, landed : BOOLEAN]
SetupCall == [at : {"idle", "retire", "build"}, id : 0..MaxReviews]
               \cup [at : {"insert"}, id : {0}, curve : NewCurves]
               \cup [at : {"settle"}, look : Lookups]

SetupTyped ==
  /\ price \in Prices /\ heightY \in Nat
  /\ env \in {None} \cup OldCurves \cup NewCurves
  /\ intents \in [1..MaxReviews -> Intent \cup {None}]
  /\ chain \subseteq [id : 1..MaxReviews, curve : NewCurves]
  /\ call \in SetupCall
  /\ signed \subseteq Setup!Made /\ submitting \in Setup!Made \cup {None}
  /\ polling \in Lookups \cup {None} /\ missed \subseteq 1..MaxReviews

(* A replacement has the curve of what it replaces.                        *)
Replaces(curve) ==
  env # None /\ env.tokenType = "spl" => curve.threshold = env.threshold

CurvesInv ==
  /\ \A i \in Setup!Made : Replaces(intents[i].curve)
  /\ \A c \in chain : Replaces(c.curve)
  /\ call.at = "insert" => Replaces(call.curve)

(* An expired review has not been executed and cannot be, or it was marked *)
(* expired after it had landed.                                            *)
Dead(i) ==
  /\ \A c \in chain : c.id # i
  /\ ~intents[i].sent \/ heightY > intents[i].through

Over(i) == intents[i].status = "expired" \/ i \in missed

(* What a reconcile has read stays true until it writes.                   *)
LookOk(look) ==
  /\ look.id \in Setup!Made
  /\ look.landed => \E c \in chain : c.id = look.id
  /\ look.status = "expired" => Over(look.id)

(* Reviews are numbered; all but the last are over, and so is the last     *)
(* when another is about to be stored.                                     *)
Numbered(n) ==
  /\ Setup!Made = 1..n
  /\ \A i \in 1..n : intents[i].status = "expired" => Dead(i) \/ i \in missed
  /\ \A i \in 1..n : i < n => Over(i)
  /\ call.at \in {"build", "insert"} => n = 0 \/ Over(n)
  /\ call.at = "retire" => call.id = n /\ n # 0
  /\ call.at = "settle" => call.look.id = n /\ n # 0 /\ LookOk(call.look)
  /\ polling # None => LookOk(polling)
  /\ \A c \in chain : c.id \in 1..n /\ intents[c.id].sent

SetupInv ==
  /\ SetupTyped
  /\ CurvesInv
  /\ \A c, d \in chain : c.id = d.id => c = d
  /\ \E n \in 0..MaxReviews : Numbered(n)

LEMMA LatestIsLast ==
  ASSUME SetupAssumption, NEW n \in 0..MaxReviews, Setup!Made = 1..n
  PROVE  Setup!Latest = n
<1>1. CASE n = 0
  BY <1>1 DEF Setup!Latest
<1>2. CASE n # 0
  <2>1. n \in 1..n /\ \A j \in 1..n : j <= n
    BY <1>2, SetupAssumption
  <2>2. \A i \in 1..n : (\A j \in 1..n : j <= i) => i = n
    BY <2>1, SetupAssumption
  <2> DEFINE P(i) == \A j \in 1..n : j <= i
  <2>3. Setup!Latest = CHOOSE i \in 1..n : P(i)
    BY <1>2, <2>1 DEF Setup!Latest
  <2> QED BY <2>1, <2>2, <2>3
<1> QED BY <1>1, <1>2

LEMMA NewCurveFields ==
  ASSUME NEW curve \in NewCurves
  PROVE  /\ curve.tokenType = "token2022" /\ curve.threshold \in Prices \cup Deployed
         /\ curve = Setup!DefaultCurve(curve.threshold)
BY DEF NewCurves, Setup!DefaultCurve, Setup!Curve

LEMMA OldCurveFields ==
  ASSUME NEW curve \in OldCurves
  PROVE  /\ curve.tokenType = "spl" /\ curve.threshold \in Deployed
         /\ curve = Setup!Classic(curve.threshold)
BY DEF OldCurves, Setup!Classic, Setup!Curve

LEMMA ReviewIsNotNone == ASSUME SetupAssumption PROVE None \notin Intent
BY SetupAssumption DEF Intent, Statuses, NewCurves

LEMMA Reviewed ==
  ASSUME SetupTyped, NEW i \in Setup!Made
  PROVE  /\ i \in 1..MaxReviews /\ intents[i] \in Intent
         /\ intents[i].status \in Statuses /\ intents[i].sent \in BOOLEAN
         /\ intents[i].through \in Nat /\ intents[i].curve \in NewCurves
BY DEF SetupTyped, Setup!Made, Setup!Ids, Intent

LEMMA Looked ==
  ASSUME SetupTyped, NEW look \in Lookups
  PROVE  /\ look.id \in 1..MaxReviews /\ look.status \in Statuses /\ look.landed \in BOOLEAN
         /\ Setup!Verdict(look) \in Statuses
BY DEF Lookups, Statuses, Setup!Verdict, Setup!Open

LEMMA SetupInit == ASSUME SetupAssumption, Setup!Init PROVE SetupInv
<1>1. SetupTyped
  <2>1. [at |-> "idle", id |-> 0] \in SetupCall
    BY SetupAssumption DEF SetupCall
  <2>2. Setup!Made = {}
    BY DEF Setup!Init, Setup!Made, Setup!Ids
  <2> QED BY <2>1, <2>2 DEF Setup!Init, SetupTyped, Setup!Ids, Setup!Idle, OldCurves
<1>2. Setup!Made = {} /\ chain = {} /\ call = [at |-> "idle", id |-> 0] /\ polling = None
  BY DEF Setup!Init, Setup!Made, Setup!Ids, Setup!Idle
<1>3. Numbered(0) /\ 0 \in 0..MaxReviews
  BY <1>2, SetupAssumption DEF Numbered
<1>4. CurvesInv
  BY <1>2 DEF CurvesInv
<1> QED BY <1>1, <1>2, <1>3, <1>4 DEF SetupInv

(* One review is written: it keeps its curve and validity, one that is over*)
(* stays over, and the call goes on.                                       *)
LEMMA ReviewWritten ==
  ASSUME SetupAssumption, SetupInv, NEW n \in 0..MaxReviews, Numbered(n),
         NEW i \in Setup!Made, NEW row \in Intent,
         intents' = [intents EXCEPT ![i] = row],
         row.curve = intents[i].curve, row.through = intents[i].through,
         intents[i].sent => row.sent,
         missed \subseteq missed', missed' \subseteq 1..MaxReviews,
         intents[i].status = "expired" => row = intents[i] \/ i \in missed',
         row.status = "expired" =>
           \/ i \in missed'
           \/ (\A c \in chain : c.id # i) /\ (~row.sent \/ heightY > row.through),
         UNCHANGED <<price, heightY, env, chain, signed>>,
         submitting' \in {submitting, None}, polling' \in {polling, None},
         \/ call' = call
         \/ /\ call' \in [at : {"idle", "retire", "build"}, id : 0..MaxReviews]
            /\ call'.at = "build" => i = n /\ (row.status = "expired" \/ n \in missed')
            /\ call'.at = "retire" => call'.id = n /\ n # 0
  PROVE  SetupInv'
<1>1. i \in 1..MaxReviews /\ intents[i] \in Intent
  BY Reviewed DEF SetupInv
<1>2. /\ intents' \in [1..MaxReviews -> Intent \cup {None}]
      /\ intents'[i] = row
      /\ \A j \in 1..MaxReviews : j # i => intents'[j] = intents[j]
  BY <1>1 DEF SetupInv, SetupTyped
<1>3. Setup!Made' = Setup!Made
  BY <1>1, <1>2, ReviewIsNotNone DEF Setup!Made, Setup!Ids
<1>4. call' \in SetupCall
  BY DEF SetupInv, SetupTyped, SetupCall
<1>5. SetupTyped'
  BY <1>2, <1>3, <1>4 DEF SetupInv, SetupTyped
<1>6. \A j \in Setup!Made : j \in 1..MaxReviews
  BY DEF Setup!Made, Setup!Ids
<1>7. \A j \in Setup!Made : intents'[j].curve = intents[j].curve
  BY <1>2, <1>6
<1>8. call'.at = "insert" => call' = call
  OBVIOUS
<1>9. CurvesInv'
  BY <1>3, <1>7, <1>8 DEF SetupInv, CurvesInv, Replaces
<1>10. \A j \in Setup!Made : Over(j) => Over(j)'
  BY <1>2, <1>6 DEF Over
<1>11. \A look : LookOk(look) => LookOk(look)'
  <2> SUFFICES ASSUME NEW look, LookOk(look) PROVE LookOk(look)'
    OBVIOUS
  <2>1. look.id \in Setup!Made /\ (look.landed => \E c \in chain : c.id = look.id)
    BY DEF LookOk
  <2>2. look.status = "expired" => Over(look.id)'
    BY <1>10, <2>1 DEF LookOk
  <2> QED BY <1>3, <2>1, <2>2 DEF LookOk
<1>12. Numbered(n)'
  <2>1. Setup!Made' = 1..n /\ Setup!Made = 1..n
    BY <1>3 DEF Numbered
  <2>2. \A j \in 1..n : intents'[j].status = "expired" => Dead(j)' \/ j \in missed'
    <3> SUFFICES ASSUME NEW j \in 1..n, intents'[j].status = "expired", j \notin missed'
                 PROVE  Dead(j)'
      OBVIOUS
    <3>1. CASE j = i
      BY <3>1, <1>2 DEF Dead
    <3>2. CASE j # i
      <4>1. intents'[j] = intents[j]
        BY <3>2, <1>2, <1>6, <2>1
      <4>2. Dead(j)
        BY <4>1 DEF Numbered
      <4> QED BY <4>1, <4>2 DEF Dead
    <3> QED BY <3>1, <3>2
  <2>3. \A j \in 1..n : j < n => Over(j)'
    BY <1>10, <2>1 DEF Numbered
  <2>4. call'.at \in {"build", "insert"} => n = 0 \/ Over(n)'
    <3>1. CASE call' = call
      <4>1. n = 0 \/ n \in Setup!Made
        BY <2>1, SetupAssumption
      <4> QED BY <3>1, <4>1, <1>10 DEF Numbered
    <3>2. CASE call' # call
      BY <3>2, <1>2 DEF Over
    <3> QED BY <3>1, <3>2
  <2>5. call'.at = "retire" => call'.id = n /\ n # 0
    BY DEF Numbered
  <2>6. call'.at = "settle" => call'.look.id = n /\ n # 0 /\ LookOk(call.look)'
    <3>1. call'.at = "settle" => call' = call
      OBVIOUS
    <3> SUFFICES ASSUME call'.at = "settle"
                 PROVE  call'.look.id = n /\ n # 0 /\ LookOk(call.look)'
      OBVIOUS
    <3>2. call' = call /\ call.look.id = n /\ n # 0 /\ LookOk(call.look)
      BY <3>1 DEF Numbered
    <3> QED BY <3>2, <1>11 DEF LookOk
  <2>7. polling' # None => LookOk(polling)'
    <3> SUFFICES ASSUME polling' # None PROVE LookOk(polling)'
      OBVIOUS
    <3>1. polling' = polling /\ LookOk(polling)
      BY DEF Numbered
    <3> QED BY <3>1, <1>11 DEF LookOk
  <2>8. \A c \in chain' : c.id \in 1..n /\ intents'[c.id].sent
    <3> SUFFICES ASSUME NEW c \in chain PROVE c.id \in 1..n /\ intents'[c.id].sent
      OBVIOUS
    <3>1. c.id \in 1..n /\ intents[c.id].sent
      BY DEF Numbered
    <3> QED BY <3>1, <1>2, <1>6, <2>1
  <2> QED BY <2>1, <2>2, <2>3, <2>4, <2>5, <2>6, <2>7, <2>8 DEF Numbered
<1> QED BY <1>5, <1>9, <1>12 DEF SetupInv

(* A reconcile writes what it found: a landed one is confirmed or missed.  *)
LEMMA ConcludeKeeps ==
  ASSUME SetupAssumption, SetupInv, NEW n \in 0..MaxReviews, Numbered(n),
         NEW look \in Lookups, LookOk(look), Setup!Conclude(look),
         UNCHANGED <<price, heightY, env, chain, signed, submitting>>,
         polling' \in {polling, None},
         \/ call' = call
         \/ /\ call' \in [at : {"idle", "retire", "build"}, id : 0..MaxReviews]
            /\ call'.at = "build" => look.id = n /\ Setup!Verdict(look) = "expired"
            /\ call'.at = "retire" => call'.id = n /\ n # 0
  PROVE  SetupInv'
<1> DEFINE i == look.id
           verdict == Setup!Verdict(look)
           written == Setup!Open(look) /\ verdict \in {"confirmed", "expired"}
           row == IF written THEN [intents[i] EXCEPT !.status = verdict] ELSE intents[i]
<1>1. i \in Setup!Made /\ i \in 1..n
  BY DEF LookOk, Numbered
<1>2. /\ i \in 1..MaxReviews /\ intents[i] \in Intent
      /\ intents[i].status \in Statuses /\ intents[i].sent \in BOOLEAN
  BY <1>1, Reviewed DEF SetupInv
<1>3. verdict \in Statuses
  BY Looked DEF SetupInv
<1>4. /\ intents' = IF written THEN [intents EXCEPT ![i].status = verdict] ELSE intents
      /\ missed' = IF written /\ verdict = "expired" /\ Setup!Landed(i)
                     THEN missed \cup {i} ELSE missed
  BY DEF Setup!Conclude
<1>5. written => /\ verdict = "confirmed" => look.landed
                 /\ verdict = "expired" => heightY > intents[i].through
  BY DEF Setup!Verdict, Setup!Open
<1>6. ~Setup!Open(look) => verdict = look.status
  BY DEF Setup!Verdict
<1>7. Setup!Landed(i) <=> \E c \in chain : c.id = i
  BY DEF Setup!Landed
<1> HIDE DEF verdict, i
<1>8. /\ row \in Intent /\ row.curve = intents[i].curve
      /\ row.through = intents[i].through /\ row.sent = intents[i].sent
      /\ row.status = IF written THEN verdict ELSE intents[i].status
  BY <1>2, <1>3 DEF Intent
<1>9. intents' = [intents EXCEPT ![i] = row]
  <2>1. CASE written
    BY <2>1, <1>4
  <2>2. CASE ~written
    BY <2>2, <1>2, <1>4 DEF SetupInv, SetupTyped
  <2> QED BY <2>1, <2>2
<1>10. missed \subseteq missed' /\ missed' \subseteq 1..MaxReviews
  BY <1>2, <1>4 DEF SetupInv, SetupTyped
<1>11. intents[i].status = "expired" => row = intents[i] \/ i \in missed'
  <2> SUFFICES ASSUME intents[i].status = "expired", i \notin missed' PROVE row = intents[i]
    OBVIOUS
  <2>1. \A c \in chain : c.id # i
    BY <1>1, <1>10 DEF Numbered, Dead
  <2>2. ~(written /\ verdict = "confirmed")
    BY <1>5, <2>1 DEF LookOk, i
  <2>3. CASE written
    BY <2>2, <2>3, <1>2 DEF Intent
  <2> QED BY <2>3
<1>12. row.status = "expired" =>
         \/ i \in missed'
         \/ (\A c \in chain : c.id # i) /\ (~row.sent \/ heightY > row.through)
  <2>1. CASE written
    BY <2>1, <1>4, <1>5, <1>7, <1>8
  <2>2. CASE ~written
    BY <2>2, <1>1, <1>8, <1>10 DEF Numbered, Dead
  <2> QED BY <2>1, <2>2
<1>13. verdict = "expired" => row.status = "expired" \/ i \in missed'
  <2>1. CASE Setup!Open(look)
    BY <2>1, <1>8
  <2>2. CASE ~Setup!Open(look)
    BY <2>2, <1>6, <1>8, <1>10 DEF LookOk, Over, i
  <2> QED BY <2>1, <2>2
<1>14. \/ call' = call
       \/ /\ call' \in [at : {"idle", "retire", "build"}, id : 0..MaxReviews]
          /\ call'.at = "build" => i = n /\ (row.status = "expired" \/ n \in missed')
          /\ call'.at = "retire" => call'.id = n /\ n # 0
  BY <1>13 DEF verdict, i
<1>15. intents[i].sent => row.sent
  BY <1>8
<1> HIDE DEF row
<1> QED BY <1>1, <1>8, <1>9, <1>10, <1>11, <1>12, <1>14, <1>15, ReviewWritten

LEMMA ReadPreviousKeeps ==
  ASSUME SetupAssumption, SetupInv, Setup!ReadPrevious PROVE SetupInv'
<1>1. PICK n \in 0..MaxReviews : Numbered(n)
  BY DEF SetupInv
<1>2. Setup!Latest = n
  BY <1>1, LatestIsLast DEF Numbered
<1>3. UNCHANGED <<price, heightY, env, intents, chain, signed, submitting, polling, missed>>
  BY DEF Setup!ReadPrevious
<1>4. call' \in SetupCall /\ call'.at \in {"build", "settle"}
      /\ (call'.at = "build" => n = 0)
      /\ (call'.at = "settle" => call'.look.id = n /\ n # 0 /\ LookOk(call.look)')
  <2>1. CASE n = 0
    <3>1. call' = [at |-> "build", id |-> 0]
      BY <1>2, <2>1 DEF Setup!ReadPrevious
    <3> QED BY <2>1, <3>1, SetupAssumption DEF SetupCall
  <2>2. CASE n # 0
    <3>1. n \in Setup!Made
      BY <1>1, <2>2, SetupAssumption DEF Numbered
    <3> DEFINE look == Setup!Look(n)
    <3>2. call' = [at |-> "settle", look |-> look]
      BY <1>2, <2>2 DEF Setup!ReadPrevious
    <3>3. look \in Lookups /\ LookOk(look) /\ look.id = n
      BY <3>1, Reviewed DEF Setup!Look, Setup!Landed, Lookups, LookOk, Over, SetupInv
    <3> HIDE DEF look
    <3>4. call'.look = look /\ call'.at = "settle" /\ call' \in SetupCall
      BY <3>2, <3>3 DEF SetupCall
    <3>5. LookOk(call.look)'
      BY <1>3, <3>3, <3>4 DEF LookOk, Over, Setup!Made
    <3> QED BY <2>2, <3>3, <3>4, <3>5
  <2> QED BY <2>1, <2>2
<1>5. SetupTyped' /\ CurvesInv'
  BY <1>3, <1>4 DEF SetupInv, SetupTyped, CurvesInv, Replaces, Setup!Made
<1>6. Numbered(n)'
  BY <1>1, <1>3, <1>4 DEF Numbered, Setup!Made, Dead, Over, LookOk
<1> QED BY <1>3, <1>5, <1>6 DEF SetupInv

LEMMA SettlePreviousKeeps ==
  ASSUME SetupAssumption, SetupInv, Setup!SettlePrevious PROVE SetupInv'
<1>1. PICK n \in 0..MaxReviews : Numbered(n)
  BY DEF SetupInv
<1> DEFINE look == call.look
           verdict == Setup!Verdict(look)
<1>2. look \in Lookups /\ LookOk(look) /\ look.id = n /\ n # 0
  BY <1>1 DEF Setup!SettlePrevious, Numbered, SetupInv, SetupTyped, SetupCall
<1>3. verdict \in Statuses
  BY <1>2, Looked DEF SetupInv
<1>4. /\ Setup!Conclude(look)
      /\ \/ call' = [at |-> "retire", id |-> n]
         \/ call' = [at |-> "build", id |-> 0] /\ verdict \in {"expired", "failed"}
         \/ call' = [at |-> "idle", id |-> 0]
      /\ UNCHANGED <<price, heightY, env, chain, signed, submitting, polling>>
  BY <1>2 DEF Setup!SettlePrevious, Setup!Idle
<1> HIDE DEF look, verdict
<1>5. /\ call' \in [at : {"idle", "retire", "build"}, id : 0..MaxReviews]
      /\ call'.at = "build" => verdict = "expired"
      /\ call'.at = "retire" => call'.id = n /\ n # 0
  BY <1>2, <1>3, <1>4, SetupAssumption DEF Statuses
<1>6. call'.at = "build" => look.id = n /\ Setup!Verdict(look) = "expired"
  BY <1>2, <1>5 DEF verdict
<1> QED BY <1>1, <1>2, <1>4, <1>5, <1>6, ConcludeKeeps

LEMMA PollEndsKeeps == ASSUME SetupAssumption, SetupInv, Setup!PollEnds PROVE SetupInv'
<1>1. PICK n \in 0..MaxReviews : Numbered(n)
  BY DEF SetupInv
<1> DEFINE look == polling
<1>2. look \in Lookups /\ LookOk(look)
  BY <1>1 DEF Setup!PollEnds, Numbered, SetupInv, SetupTyped
<1>3. /\ Setup!Conclude(look) /\ polling' = None
      /\ UNCHANGED <<price, heightY, env, chain, call, signed, submitting>>
  BY DEF Setup!PollEnds
<1> HIDE DEF look
<1> QED BY <1>1, <1>2, <1>3, ConcludeKeeps

LEMMA SetupPollKeeps ==
  ASSUME SetupAssumption, SetupInv, NEW i \in Setup!Ids, Setup!Poll(i) PROVE SetupInv'
<1>1. PICK n \in 0..MaxReviews : Numbered(n)
  BY DEF SetupInv
<1>2. UNCHANGED <<price, heightY, env, intents, chain, call, signed, submitting, missed>>
      /\ i \in Setup!Made /\ polling' = Setup!Look(i)
  BY DEF Setup!Poll
<1>3. polling' \in Lookups /\ LookOk(polling')
  BY <1>2, Reviewed DEF Setup!Look, Setup!Landed, Lookups, LookOk, Over, SetupInv
<1>4. LookOk(polling)'
  BY <1>2, <1>3 DEF LookOk, Over, Setup!Made
<1>5. SetupTyped' /\ CurvesInv'
  BY <1>2, <1>3 DEF SetupInv, SetupTyped, CurvesInv, Replaces, Setup!Made
<1>6. Numbered(n)'
  BY <1>1, <1>2, <1>4 DEF Numbered, Setup!Made, Dead, Over, LookOk
<1> QED BY <1>2, <1>5, <1>6 DEF SetupInv

LEMMA RetireKeeps == ASSUME SetupAssumption, SetupInv, Setup!Retire PROVE SetupInv'
<1>1. PICK n \in 0..MaxReviews : Numbered(n)
  BY DEF SetupInv
<1>2. call.id = n /\ n # 0
  BY <1>1 DEF Numbered, Setup!Retire
<1>3. n \in Setup!Made
  BY <1>1, <1>2, SetupAssumption DEF Numbered
<1>4. intents[n] \in Intent /\ n \in 1..MaxReviews
  BY <1>3, Reviewed DEF SetupInv
<1>5. UNCHANGED <<price, heightY, env, chain, signed, submitting, polling, missed>>
  BY DEF Setup!Retire
<1>6. CASE Setup!Unsubmitted(n)
  <2> DEFINE row == [intents[n] EXCEPT !.status = "expired"]
  <2>1. intents' = [intents EXCEPT ![n].status = "expired"]
        /\ call' = [at |-> "build", id |-> 0]
    BY <1>2, <1>6 DEF Setup!Retire
  <2>2. row \in Intent /\ row.status = "expired" /\ row.curve = intents[n].curve
        /\ row.through = intents[n].through /\ row.sent = intents[n].sent
    BY <1>4 DEF Intent, Statuses
  <2>3. intents' = [intents EXCEPT ![n] = row]
    BY <2>1
  <2>4. ~intents[n].sent /\ intents[n].status # "expired"
    BY <1>6 DEF Setup!Unsubmitted
  <2>5. \A c \in chain : c.id # n
    BY <1>1, <2>4 DEF Numbered
  <2>6. call' \in [at : {"idle", "retire", "build"}, id : 0..MaxReviews] /\ call'.at = "build"
    BY <2>1, SetupAssumption
  <2>7. missed \subseteq missed' /\ missed' \subseteq 1..MaxReviews
    BY <1>5 DEF SetupInv, SetupTyped
  <2> HIDE DEF row
  <2> QED BY <1>1, <1>3, <1>5, <2>2, <2>3, <2>4, <2>5, <2>6, <2>7, ReviewWritten
<1>7. CASE ~Setup!Unsubmitted(n)
  <2>1. call' = [at |-> "idle", id |-> 0] /\ UNCHANGED intents
    BY <1>2, <1>7 DEF Setup!Retire, Setup!Idle
  <2>2. call' \in SetupCall
    BY <2>1, SetupAssumption DEF SetupCall
  <2>3. SetupTyped' /\ CurvesInv'
    BY <1>5, <2>1, <2>2 DEF SetupInv, SetupTyped, CurvesInv, Replaces, Setup!Made
  <2>4. Numbered(n)'
    BY <1>1, <1>5, <2>1 DEF Numbered, Setup!Made, Dead, Over, LookOk
  <2> QED BY <1>5, <2>3, <2>4 DEF SetupInv
<1> QED BY <1>6, <1>7

LEMMA PersistKeeps == ASSUME SetupAssumption, SetupInv, Setup!Persist PROVE SetupInv'
<1>1. PICK n \in 0..MaxReviews : Numbered(n)
  BY DEF SetupInv
<1> DEFINE i == submitting
<1>2. i \in Setup!Made /\ i \in 1..n
  BY <1>1 DEF SetupInv, SetupTyped, Setup!Persist, Numbered
<1>3. intents[i] \in Intent /\ i \in 1..MaxReviews
  BY <1>2, Reviewed DEF SetupInv
<1>4. UNCHANGED <<price, heightY, env, chain, signed, call, polling, missed>>
      /\ submitting' = None
  BY DEF Setup!Persist
<1> DEFINE row == IF intents[i].status = "prepared"
                    THEN [intents[i] EXCEPT !.status = "submitted", !.sent = TRUE]
                    ELSE intents[i]
<1>5. row \in Intent /\ row.curve = intents[i].curve /\ row.through = intents[i].through
      /\ (intents[i].sent => row.sent)
      /\ (intents[i].status = "expired" => row = intents[i])
      /\ (row.status = "expired" => row = intents[i])
  BY <1>3 DEF Intent, Statuses
<1>6. intents' = [intents EXCEPT ![i] = row]
  <2>1. CASE intents[i].status = "prepared"
    BY <2>1, <1>3 DEF Setup!Persist, SetupInv, SetupTyped
  <2>2. CASE intents[i].status # "prepared"
    BY <2>2, <1>3 DEF Setup!Persist, SetupInv, SetupTyped
  <2> QED BY <2>1, <2>2
<1>7. row.status = "expired" =>
        \/ i \in missed'
        \/ (\A c \in chain : c.id # i) /\ (~row.sent \/ heightY > row.through)
  BY <1>1, <1>2, <1>4, <1>5 DEF Numbered, Dead
<1>8. missed \subseteq missed' /\ missed' \subseteq 1..MaxReviews
  BY <1>4 DEF SetupInv, SetupTyped
<1> HIDE DEF i, row
<1> QED BY <1>1, <1>2, <1>4, <1>5, <1>6, <1>7, <1>8, ReviewWritten

LEMMA BuildCurveKeeps == ASSUME SetupAssumption, SetupInv, Setup!BuildCurve PROVE SetupInv'
<1>1. PICK n \in 0..MaxReviews : Numbered(n)
  BY DEF SetupInv
<1>2. UNCHANGED <<price, heightY, env, intents, chain, signed, submitting, polling, missed>>
  BY DEF Setup!BuildCurve
<1> DEFINE curve == Setup!Replacement
<1>3. curve # None => curve \in NewCurves /\ Replaces(curve)
  <2>1. CASE env = None
    BY <2>1 DEF Setup!Replacement, Setup!Asset, NewCurves, Replaces, SetupInv, SetupTyped
  <2>2. CASE env # None
    <3>1. env.threshold \in Prices \cup Deployed
      BY <2>2, NewCurveFields, OldCurveFields DEF SetupInv, SetupTyped
    <3>2. curve \in {None, Setup!DefaultCurve(env.threshold)}
      BY <2>2 DEF Setup!Replacement, Setup!Asset
    <3>3. Setup!DefaultCurve(env.threshold) \in NewCurves
      BY <3>1 DEF NewCurves
    <3>4. Setup!DefaultCurve(env.threshold).threshold = env.threshold
      BY DEF Setup!DefaultCurve, Setup!Curve
    <3> QED BY <3>2, <3>3, <3>4 DEF Replaces
  <2> QED BY <2>1, <2>2
<1>4. \/ call' = [at |-> "idle", id |-> 0]
      \/ /\ call' = [at |-> "insert", id |-> 0, curve |-> curve]
         /\ curve \in NewCurves /\ Replaces(curve)
  BY <1>3 DEF Setup!BuildCurve, Setup!Idle
<1>5. call.at = "build"
  BY DEF Setup!BuildCurve
<1> HIDE DEF curve
<1>6. call' \in SetupCall /\ call'.at \in {"idle", "insert"}
      /\ (call'.at = "insert" => Replaces(call'.curve))
  BY <1>4, SetupAssumption DEF SetupCall
<1>7. SetupTyped' /\ CurvesInv'
  BY <1>2, <1>6 DEF SetupInv, SetupTyped, CurvesInv, Replaces, Setup!Made
<1>8. Numbered(n)'
  BY <1>1, <1>2, <1>5, <1>6 DEF Numbered, Setup!Made, Dead, Over, LookOk
<1> QED BY <1>2, <1>7, <1>8 DEF SetupInv

LEMMA StoreKeeps == ASSUME SetupAssumption, SetupInv, Setup!PrepareIntent PROVE SetupInv'
<1>1. PICK n \in 0..MaxReviews : Numbered(n)
  BY DEF SetupInv
<1>2. Setup!Latest = n
  BY <1>1, LatestIsLast DEF Numbered
<1> DEFINE m == n + 1
           row == [status |-> "prepared", sent |-> FALSE,
                   through |-> heightY + ReviewWindow, curve |-> call.curve]
<1>3. /\ m \in 1..MaxReviews /\ m \in 0..MaxReviews
      /\ intents' = [intents EXCEPT ![m] = row]
      /\ call.at = "insert" /\ call' = [at |-> "idle", id |-> 0]
      /\ UNCHANGED <<price, heightY, env, chain, signed, submitting, polling, missed>>
  BY <1>2, SetupAssumption DEF Setup!PrepareIntent, Setup!Idle
<1>4. call.curve \in NewCurves /\ Replaces(call.curve)
  BY <1>3 DEF SetupInv, SetupTyped, SetupCall, CurvesInv
<1>5. row \in Intent /\ row.status # "expired" /\ row.curve = call.curve
  BY <1>4, SetupAssumption DEF Intent, Statuses, SetupInv, SetupTyped
<1> HIDE DEF row
<1>6. /\ intents' \in [1..MaxReviews -> Intent \cup {None}]
      /\ intents'[m] = row
      /\ \A j \in 1..MaxReviews : j # m => intents'[j] = intents[j]
  BY <1>3, <1>5 DEF SetupInv, SetupTyped
<1>7. Setup!Made' = Setup!Made \cup {m}
  BY <1>3, <1>5, <1>6, ReviewIsNotNone DEF Setup!Made, Setup!Ids
<1>8. Setup!Made = 1..n /\ Setup!Made' = 1..m
  BY <1>1, <1>7, SetupAssumption DEF Numbered
<1>9. \A j \in 1..n : j \in 1..MaxReviews /\ j # m /\ j \in 1..m
  BY <1>3, SetupAssumption
<1>10. call' \in SetupCall
  BY <1>3, SetupAssumption DEF SetupCall
<1>11. SetupTyped'
  BY <1>3, <1>6, <1>7, <1>10 DEF SetupInv, SetupTyped
<1>12. \A j \in 1..m : j = m \/ j \in 1..n
  BY SetupAssumption
<1>13. CurvesInv'
  <2>1. \A j \in Setup!Made' : Replaces(intents'[j].curve)
    BY <1>4, <1>5, <1>6, <1>8, <1>9, <1>12 DEF SetupInv, CurvesInv
  <2> QED BY <1>3, <2>1 DEF SetupInv, CurvesInv, Replaces
<1>14. n = 0 \/ Over(n)
  BY <1>1, <1>3 DEF Numbered
<1>15. \A j \in 1..n : intents'[j] = intents[j] /\ Over(j)
  BY <1>1, <1>6, <1>9, <1>14, SetupAssumption DEF Numbered
<1>16. Numbered(m)'
  <2>1. \A j \in 1..m : intents'[j].status = "expired" => Dead(j)' \/ j \in missed'
    BY <1>1, <1>3, <1>5, <1>6, <1>12, <1>15 DEF Numbered, Dead
  <2>2. \A j \in 1..m : j < m => Over(j)'
    BY <1>3, <1>12, <1>15, SetupAssumption DEF Over
  <2>3. \A c \in chain' : c.id \in 1..m /\ intents'[c.id].sent
    BY <1>1, <1>3, <1>9, <1>15 DEF Numbered
  <2>4. polling' # None => LookOk(polling)'
    <3> SUFFICES ASSUME polling' # None PROVE LookOk(polling)'
      OBVIOUS
    <3>1. polling' = polling /\ LookOk(polling) /\ polling.id \in 1..n
      BY <1>1, <1>3, <1>8 DEF Numbered, LookOk
    <3> QED BY <3>1, <1>3, <1>7, <1>15 DEF LookOk, Over
  <2> QED BY <1>3, <1>8, <2>1, <2>2, <2>3, <2>4 DEF Numbered
<1> QED BY <1>3, <1>11, <1>13, <1>16 DEF SetupInv

LEMMA LandKeeps ==
  ASSUME SetupAssumption, SetupInv, NEW i \in Setup!Ids, Setup!Land(i) PROVE SetupInv'
<1>1. PICK n \in 0..MaxReviews : Numbered(n)
  BY DEF SetupInv
<1>2. i \in Setup!Made /\ i \in 1..n
  BY <1>1 DEF Setup!Land, Numbered
<1>3. /\ intents[i] \in Intent /\ i \in 1..MaxReviews
      /\ intents[i].through \in Nat /\ intents[i].curve \in NewCurves
  BY <1>2, Reviewed DEF SetupInv
<1> DEFINE c == [id |-> i, curve |-> intents[i].curve]
<1>4. /\ \A d \in chain : d.id # i
      /\ intents[i].sent /\ ~(heightY > intents[i].through)
      /\ chain' = chain \cup {c}
      /\ UNCHANGED <<price, heightY, env, intents, call, signed, submitting, polling, missed>>
  BY <1>3 DEF Setup!Land, Setup!Landed, SetupInv, SetupTyped
<1>5. c \in [id : 1..MaxReviews, curve : NewCurves] /\ c.id = i /\ c.curve = intents[i].curve
  BY <1>3
<1> HIDE DEF c
<1>6. ~Dead(i)
  BY <1>4 DEF Dead
<1>7. \A d, e \in chain' : d.id = e.id => d = e
  BY <1>4, <1>5 DEF SetupInv
<1>8. \A j \in 1..n : Dead(j) => Dead(j)'
  BY <1>4, <1>5, <1>6 DEF Dead
<1>9. \A look : LookOk(look) => LookOk(look)'
  BY <1>4 DEF LookOk, Over, Setup!Made
<1>10. SetupTyped'
  BY <1>4, <1>5 DEF SetupInv, SetupTyped, Setup!Made
<1>11. CurvesInv'
  BY <1>2, <1>4, <1>5 DEF SetupInv, CurvesInv, Replaces, Setup!Made
<1>12. Numbered(n)'
  <2>1. Setup!Made' = 1..n
    BY <1>1, <1>4 DEF Numbered, Setup!Made
  <2>2. \A j \in 1..n : intents'[j].status = "expired" => Dead(j)' \/ j \in missed'
    BY <1>1, <1>4, <1>8 DEF Numbered
  <2>3. \A d \in chain' : d.id \in 1..n /\ intents'[d.id].sent
    BY <1>1, <1>2, <1>4, <1>5 DEF Numbered
  <2>4. \A j \in 1..n : Over(j) => Over(j)'
    BY <1>4 DEF Over
  <2>5. call.at = "settle" => LookOk(call.look)'
    BY <1>1, <1>4, <1>9 DEF Numbered, LookOk
  <2>6. polling' # None => LookOk(polling)'
    BY <1>1, <1>4, <1>9 DEF Numbered, LookOk
  <2>7. n = 0 \/ n \in 1..n
    BY SetupAssumption
  <2> QED BY <1>1, <1>4, <2>1, <2>2, <2>3, <2>4, <2>5, <2>6, <2>7 DEF Numbered
<1> QED BY <1>7, <1>10, <1>11, <1>12 DEF SetupInv

LEMMA DeployKeeps ==
  ASSUME SetupAssumption, SetupInv, NEW i \in Setup!Ids, Setup!Deploy(i) PROVE SetupInv'
<1>1. PICK n \in 0..MaxReviews : Numbered(n)
  BY DEF SetupInv
<1>2. env' \in NewCurves
      /\ UNCHANGED <<price, heightY, intents, chain, call, signed, submitting, polling, missed>>
  BY DEF Setup!Deploy, SetupInv, SetupTyped
<1>3. env'.tokenType = "token2022"
  BY <1>2, NewCurveFields
<1>4. SetupTyped' /\ CurvesInv'
  BY <1>2, <1>3 DEF SetupInv, SetupTyped, CurvesInv, Replaces, Setup!Made
<1>5. Numbered(n)'
  BY <1>1, <1>2 DEF Numbered, Setup!Made, Dead, Over, LookOk
<1> QED BY <1>2, <1>4, <1>5 DEF SetupInv

(* Time passes, prices move, and a review is signed or read.               *)
LEMMA OthersKeep ==
  ASSUME SetupAssumption, SetupInv,
         UNCHANGED <<env, intents, chain, call, polling, missed>>,
         price' \in Prices, heightY' \in Nat, heightY' >= heightY,
         signed' \subseteq Setup!Made, submitting' \in Setup!Made \cup {None}
  PROVE  SetupInv'
<1>1. PICK n \in 0..MaxReviews : Numbered(n)
  BY DEF SetupInv
<1>2. SetupTyped' /\ CurvesInv'
  BY DEF SetupInv, SetupTyped, CurvesInv, Replaces, Setup!Made
<1>3. Setup!Made' = Setup!Made
  BY DEF Setup!Made
<1>4. \A i \in 1..n : Dead(i) => Dead(i)'
  <2> SUFFICES ASSUME NEW i \in 1..n, Dead(i) PROVE Dead(i)'
    OBVIOUS
  <2>1. intents[i].through \in Nat /\ heightY \in Nat
    BY <1>1, Reviewed DEF Numbered, SetupInv, SetupTyped
  <2> QED BY <2>1 DEF Dead
<1>5. Numbered(n)'
  BY <1>1, <1>3, <1>4 DEF Numbered, Over, LookOk
<1> QED BY <1>2, <1>5 DEF SetupInv

LEMMA SetupStep ==
  ASSUME SetupAssumption, SetupInv, [Setup!Next]_setupVars PROVE SetupInv'
<1>1. CASE Setup!ReadPrevious \/ Setup!Retire \/ Setup!Persist
  BY <1>1, ReadPreviousKeeps, RetireKeeps, PersistKeeps
<1>7. CASE Setup!SettlePrevious \/ Setup!PollEnds
  BY <1>7, SettlePreviousKeeps, PollEndsKeeps
<1>8. ASSUME NEW i \in Setup!Ids, Setup!Poll(i) PROVE SetupInv'
  BY <1>8, SetupPollKeeps
<1>2. CASE Setup!BuildCurve \/ Setup!PrepareIntent
  BY <1>2, BuildCurveKeeps, StoreKeeps
<1>3. ASSUME NEW i \in Setup!Ids, Setup!Sign(i) \/ Setup!ReadIntent(i) PROVE SetupInv'
  BY <1>3, OthersKeep DEF Setup!Sign, Setup!ReadIntent, SetupInv, SetupTyped
<1>4. ASSUME NEW i \in Setup!Ids, Setup!Land(i) \/ Setup!Deploy(i) PROVE SetupInv'
  BY <1>4, LandKeeps, DeployKeeps
<1>5. CASE Setup!PriceMoves \/ Setup!Tick
  BY <1>5, OthersKeep DEF Setup!PriceMoves, Setup!Tick, SetupInv, SetupTyped
<1>6. CASE UNCHANGED setupVars
  BY <1>6, OthersKeep DEF setupVars, SetupInv, SetupTyped
<1> QED BY <1>1, <1>2, <1>3, <1>4, <1>5, <1>6, <1>7, <1>8 DEF Setup!Next

(* Only a configuration that was reviewed for the pair is deployed, and    *)
(* until it is moved to Token-2022 all of them have its curve.             *)
LEMMA CurvesAreKept ==
  ASSUME SetupInv, [Setup!Next]_setupVars PROVE Setup!CurveIsKept
<1> SUFFICES ASSUME env # None, env' # env PROVE env'.threshold = env.threshold
  BY DEF Setup!CurveIsKept, Setup!SameCurve
<1>1. PICK i \in Setup!Ids : Setup!Deploy(i)
  BY DEF setupVars, Setup!Next, Setup!ReadPrevious, Setup!SettlePrevious, Setup!Poll,
         Setup!PollEnds, Setup!Retire, Setup!BuildCurve, Setup!PrepareIntent, Setup!Sign,
         Setup!ReadIntent, Setup!Persist, Setup!Land, Setup!PriceMoves, Setup!Tick
<1>2. PICK c \in chain : env' = c.curve
  BY <1>1 DEF Setup!Deploy
<1>3. env.tokenType # "token2022"
  BY <1>1 DEF Setup!Deploy, Setup!Upgraded, Setup!Asset
<1>4. env.tokenType = "spl"
  BY <1>3, NewCurveFields, OldCurveFields DEF SetupInv, SetupTyped
<1> QED BY <1>2, <1>4 DEF SetupInv, CurvesInv, Replaces

(* Reviews are numbered, and a new one is stored only when the last cannot *)
(* be executed any more or was marked expired after it had landed: besides *)
(* those, only the last review's configuration is ever on the chain.       *)
THEOREM SetupInvariant == Setup!Spec => []SetupInv
<1>1. Setup!Init => SetupInv
  BY SetupInit, SetupAssumption
<1>2. SetupInv /\ [Setup!Next]_(Setup!vars) => SetupInv'
  BY SetupStep, SetupAssumption DEF setupVars, Setup!vars
<1> QED BY <1>1, <1>2, PTL DEF Setup!Spec

LEMMA SetupCardinality == ASSUME NEW S PROVE Setup!Cardinality(S) = Cardinality(S)
BY DEF Setup!Cardinality, Cardinality

(* One configuration of a pair is paid for, unless one that had landed was *)
(* marked expired, and a deployed one is what launches accept.             *)
LEMMA SetupKeepsPromises ==
  ASSUME SetupAssumption, SetupInv, heightY \in 0..LastBlock
  PROVE  Setup!TypeOK /\ Setup!OneConfigPays /\ Setup!DeployedIsAccepted
<1>1. Setup!TypeOK
  <2>1. \A i \in Setup!Made : intents[i].status \in Statuses
    BY Reviewed DEF SetupInv
  <2>2. Setup!Made \subseteq Setup!Ids
    BY DEF Setup!Made
  <2>3. call.at \in {"idle", "settle", "retire", "build", "insert"}
    BY DEF SetupInv, SetupTyped, SetupCall
  <2> QED BY <2>1, <2>2, <2>3 DEF SetupInv, SetupTyped, Statuses, Setup!TypeOK
<1>2. Setup!OneConfigPays
  <2> DEFINE paid == {c \in chain : c.id \notin missed}
  <2>1. PICK n \in 0..MaxReviews : Numbered(n)
    BY DEF SetupInv
  <2>2. \A c \in paid : c.id = n
    <3> SUFFICES ASSUME NEW c \in paid, c.id # n PROVE FALSE
      OBVIOUS
    <3>1. c.id \in 1..n /\ c.id < n
      BY <2>1, SetupAssumption DEF Numbered
    <3>2. intents[c.id].status = "expired" /\ ~Dead(c.id)
      BY <2>1, <3>1 DEF Numbered, Over, Dead
    <3> QED BY <2>1, <3>1, <3>2 DEF Numbered
  <2>3. \A c, d \in paid : c = d
    BY <2>2 DEF SetupInv
  <2>4. Setup!OneConfigPays <=> Cardinality(paid) <= 1
    BY SetupCardinality DEF Setup!OneConfigPays
  <2> HIDE DEF paid
  <2>5. CASE paid = {}
    BY <2>4, <2>5, FS_EmptySet
  <2>6. ASSUME NEW c \in paid PROVE Setup!OneConfigPays
    <3>1. paid = {c}
      BY <2>3
    <3>2. Cardinality({c}) = 1
      BY FS_Singleton
    <3> QED BY <2>4, <3>1, <3>2
  <2> QED BY <2>5, <2>6
<1>3. Setup!DeployedIsAccepted
  <2> SUFFICES ASSUME env # None PROVE Setup!ConfiguredPool(env, env.tokenType)
    BY DEF Setup!DeployedIsAccepted, Setup!Asset
  <2>1. CASE env \in NewCurves
    BY <2>1, NewCurveFields
    DEF Setup!ConfiguredPool, Setup!DefaultCurve, Setup!Curve
  <2>2. CASE env \in OldCurves
    BY <2>2, OldCurveFields DEF Setup!ConfiguredPool, Setup!Classic, Setup!Curve
  <2> QED BY <2>1, <2>2 DEF SetupInv, SetupTyped
<1> QED BY <1>1, <1>2, <1>3

LEMMA SetupHeight ==
  ASSUME SetupAssumption, heightY \in 0..LastBlock, [Setup!Next]_setupVars
  PROVE  heightY' \in 0..LastBlock
BY DEF SetupAssumption, setupVars, Setup!Next, Setup!ReadPrevious, Setup!SettlePrevious,
       Setup!Poll, Setup!PollEnds, Setup!Retire, Setup!BuildCurve, Setup!PrepareIntent, Setup!Sign, Setup!ReadIntent, Setup!Persist,
       Setup!Land, Setup!Deploy, Setup!PriceMoves, Setup!Tick

SetupSafe == SetupInv /\ heightY \in 0..LastBlock

-----------------------------------------------------------------------------
(* The lifecycle script *)

Names == Lifecycle!Names
ScriptFile ==
  [signatures : [Names -> Nat \cup {None}], pending : [Names -> Nat \cup {None}],
   expected : [Names -> BOOLEAN], expired : SUBSET [label : Names, at : Nat]]
ScriptRun ==
  [pc : {"off", "reconcile", "next", "settle", "decide", "pass", "stopped"},
   label : Names \cup {None}, seen : {"unknown", "sent", "landed", "failed", None}]
ScriptTx == [label : Names, at : Nat, state : {"sent", "landed", "failed"}]

ScriptTyped ==
  /\ file \in ScriptFile /\ run \in ScriptRun /\ sentL \subseteq ScriptTx
  /\ heightL \in 0..LastRunHeight

Twin(t, u) == t.label = u.label /\ t.at = u.at
Pays(t, l) == t.label = l /\ t.at = file.pending[l]

(* What the file says of the transactions that were sent.                  *)
FileInv ==
  /\ \A t, u \in sentL : Twin(t, u) => t = u
  /\ \A l \in Names : file.pending[l] # None =>
       file.signatures[l] = None /\ file.pending[l] <= heightL
  /\ \A l \in Names : file.signatures[l] # None =>
       \E t \in sentL : t.label = l /\ t.state = "landed" /\ t.at = file.signatures[l]
  /\ \A t \in sentL : t.state = "landed" =>
       t.at \in {file.pending[t.label], file.signatures[t.label]}
  /\ \A t \in sentL : t.state = "sent" =>
       t.at = file.pending[t.label] \/ heightL > t.at + RunWindow

(* What a run knows when it goes on.                                       *)
RunInv ==
  /\ run.pc = "next" => Lifecycle!Unresolved = {}
  /\ run.pc \in {"settle", "decide"} =>
       run.label \in Names /\ file.pending[run.label] # None
  /\ run.pc = "decide" /\ run.seen \in {"landed", "failed"} =>
       \E t \in sentL : Pays(t, run.label) /\ t.state = run.seen
  /\ run.pc = "pass" => \A l \in Names : file.signatures[l] # None

ScriptInv == ScriptTyped /\ FileInv /\ RunInv

(* The status of a label is that of the one transaction that was saved.    *)
LEMMA StateOfSent ==
  ASSUME ScriptInv, NEW l \in Names
  PROVE  \/ /\ \E t \in sentL : Pays(t, l) /\ t.state = Lifecycle!State(l)
            /\ Lifecycle!State(l) \in {"sent", "landed", "failed"}
         \/ /\ \A t \in sentL : ~Pays(t, l)
            /\ Lifecycle!State(l) = "unknown"
<1>1. CASE \E t \in sentL : Pays(t, l)
  <2>1. PICK t \in sentL : t = CHOOSE u \in sentL : Pays(u, l)
    BY <1>1
  <2>2. Pays(t, l)
    BY <1>1, <2>1
  <2>3. Lifecycle!State(l) = t.state
    BY <2>1, <2>2 DEF Lifecycle!State, Pays
  <2> QED BY <2>2, <2>3 DEF ScriptInv, ScriptTyped, ScriptTx
<1>2. CASE \A t \in sentL : ~Pays(t, l)
  BY <1>2 DEF Lifecycle!State, Pays
<1> QED BY <1>1, <1>2

LEMMA ScriptInit == ASSUME LifecycleAssumption, Lifecycle!Init PROVE ScriptInv
<1>1. ScriptTyped
  BY DEF Lifecycle!Init, Lifecycle!Idle, ScriptTyped, ScriptFile, ScriptRun,
         LifecycleAssumption, Names
<1> QED BY <1>1 DEF Lifecycle!Init, Lifecycle!Idle, ScriptInv, FileInv, RunInv, Names

(* A step of the run that changes neither the file nor what was sent.      *)
LEMMA ScriptGoesOn ==
  ASSUME LifecycleAssumption, ScriptInv, UNCHANGED <<file, sentL>>, run' \in ScriptRun,
         heightL' \in heightL..LastRunHeight, RunInv'
  PROVE  ScriptInv'
<1>1. FileInv'
  <2>1. heightL \in Nat /\ heightL' \in Nat /\ heightL <= heightL' /\ RunWindow \in Nat
    BY DEF ScriptInv, ScriptTyped, LifecycleAssumption
  <2>2. \A l \in Names : file.pending[l] \in Nat \cup {None}
    BY DEF ScriptInv, ScriptTyped, ScriptFile
  <2>3. \A t \in sentL : t.at \in Nat
    BY DEF ScriptInv, ScriptTyped, ScriptTx
  <2> QED BY <2>1, <2>2, <2>3 DEF ScriptInv, FileInv, Twin
<1>2. ScriptTyped'
  BY DEF ScriptInv, ScriptTyped
<1> QED BY <1>1, <1>2 DEF ScriptInv

LEMMA RunStarts ==
  ASSUME LifecycleAssumption, ScriptInv,
         Lifecycle!Start \/ Lifecycle!Crash \/ Lifecycle!GiveUp
  PROVE  ScriptInv'
<1>1. UNCHANGED <<file, sentL, heightL>> /\ run'.pc \in {"off", "reconcile"}
      /\ run' \in ScriptRun
  BY DEF Lifecycle!Start, Lifecycle!Crash, Lifecycle!GiveUp, Lifecycle!Idle, ScriptRun
<1>2. RunInv'
  BY <1>1 DEF RunInv
<1> QED BY <1>1, <1>2, ScriptGoesOn DEF ScriptInv, ScriptTyped

LEMMA ReconcileKeeps ==
  ASSUME LifecycleAssumption, ScriptInv, Lifecycle!Reconcile PROVE ScriptInv'
<1>1. UNCHANGED <<file, sentL, heightL>> /\ run \in ScriptRun
  BY DEF Lifecycle!Reconcile, ScriptInv, ScriptTyped
<1>2. CASE Lifecycle!Unresolved = {}
  <2>1. run' \in ScriptRun /\ run'.pc = "next" /\ Lifecycle!Unresolved' = {}
    BY <1>1, <1>2 DEF Lifecycle!Reconcile, ScriptRun, Lifecycle!Unresolved, Lifecycle!Names,
                     Lifecycle!ToSet
  <2> QED BY <1>1, <2>1, ScriptGoesOn DEF RunInv, ScriptInv, ScriptTyped
<1>3. CASE Lifecycle!Unresolved # {}
  <2>1. PICK l \in Lifecycle!Unresolved : l = CHOOSE k \in Lifecycle!Unresolved : TRUE
    BY <1>3
  <2>2. run' = [run EXCEPT !.pc = "settle", !.label = l]
    BY <1>3, <2>1 DEF Lifecycle!Reconcile
  <2>3. l \in Names /\ file.pending[l] # None
    BY <2>1 DEF Lifecycle!Unresolved, Names
  <2>4. run' \in ScriptRun /\ run'.pc = "settle" /\ run'.label = l
    BY <1>1, <2>2, <2>3 DEF ScriptRun
  <2>5. RunInv'
    BY <1>1, <2>3, <2>4 DEF RunInv, Names, Lifecycle!Names, Lifecycle!ToSet
  <2> QED BY <1>1, <2>4, <2>5, ScriptGoesOn DEF ScriptInv, ScriptTyped
<1> QED BY <1>2, <1>3

LEMMA ReadStatusKeeps ==
  ASSUME LifecycleAssumption, ScriptInv, Lifecycle!ReadStatus PROVE ScriptInv'
<1>1. UNCHANGED <<file, sentL, heightL>> /\ run \in ScriptRun
      /\ run.label \in Names /\ file.pending[run.label] # None
      /\ run' = [run EXCEPT !.seen = Lifecycle!State(run.label), !.pc = "decide"]
  BY DEF Lifecycle!ReadStatus, ScriptInv, ScriptTyped, RunInv
<1>2. PICK s : s = Lifecycle!State(run.label)
  OBVIOUS
<1>3. s \in {"unknown", "sent", "landed", "failed"}
      /\ (s # "unknown" => \E t \in sentL : Pays(t, run.label) /\ t.state = s)
  BY <1>1, <1>2, StateOfSent
<1>4. run' \in ScriptRun /\ run'.pc = "decide" /\ run'.seen = s /\ run'.label = run.label
  BY <1>1, <1>2, <1>3 DEF ScriptRun
<1>5. RunInv'
  BY <1>1, <1>3, <1>4 DEF RunInv, Pays, Names, Lifecycle!Names, Lifecycle!ToSet
<1> QED BY <1>1, <1>4, <1>5, ScriptGoesOn DEF ScriptInv, ScriptTyped

LEMMA FinishKeeps ==
  ASSUME LifecycleAssumption, ScriptInv, Lifecycle!Finish PROVE ScriptInv'
<1>1. UNCHANGED <<file, sentL, heightL>> /\ run \in ScriptRun /\ Lifecycle!Todo = {}
      /\ (run' = [run EXCEPT !.pc = "pass"] \/ run' = [run EXCEPT !.pc = "stopped"])
  BY DEF Lifecycle!Finish, ScriptInv, ScriptTyped
<1>2. run' \in ScriptRun /\ run'.pc \in {"pass", "stopped"}
  BY <1>1 DEF ScriptRun
<1>3. \A l \in Names : file.signatures[l] # None
  BY <1>1 DEF Names, Lifecycle!Names, Lifecycle!ToSet, Lifecycle!Todo
<1>4. RunInv'
  BY <1>1, <1>2, <1>3 DEF RunInv, Names, Lifecycle!Names, Lifecycle!ToSet
<1> QED BY <1>1, <1>2, <1>4, ScriptGoesOn DEF ScriptInv, ScriptTyped

LEMMA BlockKeeps ==
  ASSUME LifecycleAssumption, ScriptInv, Lifecycle!Tick PROVE ScriptInv'
<1>1. UNCHANGED <<file, sentL, run>> /\ heightL' \in heightL..LastRunHeight
      /\ run' \in ScriptRun
  BY DEF Lifecycle!Tick, LifecycleAssumption, ScriptInv, ScriptTyped
<1>2. RunInv'
  BY <1>1 DEF ScriptInv, RunInv, Pays, Names, Lifecycle!Names, Lifecycle!ToSet,
              Lifecycle!Unresolved
<1> QED BY <1>1, <1>2, ScriptGoesOn

(* The label that is next is one without a signature.                      *)
LEMMA NextLabel ==
  ASSUME LifecycleAssumption, Lifecycle!Todo # {}
  PROVE  LET l == Labels[Lifecycle!First(Lifecycle!Todo)]
         IN  l \in Names /\ file.signatures[l] = None
<1>1. Lifecycle!Todo \in SUBSET Nat
  BY DEF LifecycleAssumption, Lifecycle!Todo
<1>2. \E i \in Lifecycle!Todo : \A j \in Lifecycle!Todo : i <= j
  BY <1>1, LeastNat
<1>3. Lifecycle!First(Lifecycle!Todo) \in Lifecycle!Todo
  BY <1>2 DEF Lifecycle!First
<1> QED BY <1>3 DEF Lifecycle!Todo, Names, Lifecycle!Names, Lifecycle!ToSet

LEMMA ExpectKeeps ==
  ASSUME LifecycleAssumption, ScriptInv, Lifecycle!Expect PROVE ScriptInv'
<1>1. PICK l : l = Labels[Lifecycle!First(Lifecycle!Todo)]
  OBVIOUS
<1>2. /\ file' = [file EXCEPT !.expected[l] = TRUE]
      /\ UNCHANGED <<run, sentL, heightL>> /\ run.pc = "next"
  BY <1>1 DEF Lifecycle!Expect
<1>3. file' \in ScriptFile /\ file'.pending = file.pending
      /\ file'.signatures = file.signatures
  BY <1>2 DEF ScriptInv, ScriptTyped, ScriptFile
<1>4. ScriptTyped'
  BY <1>2, <1>3 DEF ScriptInv, ScriptTyped
<1>5. FileInv'
  BY <1>2, <1>3 DEF ScriptInv, FileInv, Twin
<1>6. RunInv'
  BY <1>2, <1>3 DEF ScriptInv, RunInv, Pays, Lifecycle!Unresolved
<1> QED BY <1>4, <1>5, <1>6 DEF ScriptInv

LEMMA SendKeeps ==
  ASSUME LifecycleAssumption, ScriptInv, Lifecycle!Send PROVE ScriptInv'
<1>1. PICK l : l = Labels[Lifecycle!First(Lifecycle!Todo)]
  OBVIOUS
<1>2. /\ run.pc = "next" /\ l \in Names /\ file.signatures[l] = None
      /\ file' = [file EXCEPT !.pending = [file.pending EXCEPT ![l] = heightL]]
      /\ run' = [run EXCEPT !.pc = "settle", !.label = l]
      /\ UNCHANGED <<sentL, heightL>>
  BY <1>1, NextLabel DEF Lifecycle!Send, Lifecycle!Saved
<1>3. heightL \in Nat /\ None \notin Nat /\ \A k \in Names : file.pending[k] = None
  BY <1>2 DEF ScriptInv, ScriptTyped, RunInv, Lifecycle!Unresolved, Names, LifecycleAssumption
<1>4. /\ file' \in ScriptFile /\ file'.signatures = file.signatures
      /\ file'.pending[l] = heightL /\ \A k \in Names \ {l} : file'.pending[k] = None
  BY <1>2, <1>3 DEF ScriptInv, ScriptTyped, ScriptFile
<1>5. run' \in ScriptRun /\ run'.pc = "settle" /\ run'.label = l
  BY <1>2 DEF ScriptInv, ScriptTyped, ScriptRun
<1>6. \A t \in sentL : t.label \in Names /\ t.at \in Nat
  BY DEF ScriptInv, ScriptTyped, ScriptTx
<1>7. FileInv'
  <2>1. \A k \in Names : file'.pending[k] # None =>
           file'.signatures[k] = None /\ file'.pending[k] <= heightL
    BY <1>2, <1>3, <1>4
  <2>2. \A t \in sentL : t.state = "landed" => t.at = file'.signatures[t.label]
    BY <1>3, <1>4, <1>6 DEF ScriptInv, FileInv
  <2>3. \A t \in sentL : t.state = "sent" => heightL > t.at + RunWindow
    BY <1>3, <1>6 DEF ScriptInv, FileInv
  <2> QED BY <1>2, <1>4, <2>1, <2>2, <2>3
          DEF ScriptInv, FileInv, Twin, Names, Lifecycle!Names, Lifecycle!ToSet
<1>8. RunInv'
  BY <1>2, <1>3, <1>4, <1>5 DEF RunInv, Names, Lifecycle!Names, Lifecycle!ToSet
<1> QED BY <1>2, <1>4, <1>5, <1>7, <1>8 DEF ScriptInv, ScriptTyped

(* A saved transaction that is over is cleared; if it landed, its          *)
(* signature is kept.                                                      *)
LEMMA ClearKeeps ==
  ASSUME LifecycleAssumption, ScriptInv, run.pc = "decide", NEW l, l = run.label,
         file' \in ScriptFile,
         file'.pending = [file.pending EXCEPT ![l] = None],
         \/ /\ file'.signatures = file.signatures
            /\ \A t \in sentL : Pays(t, l) =>
                 \/ t.state = "failed"
                 \/ t.state = "sent" /\ heightL > t.at + RunWindow
         \/ /\ file'.signatures = [file.signatures EXCEPT ![l] = file.pending[l]]
            /\ \E t \in sentL : Pays(t, l) /\ t.state = "landed",
         UNCHANGED <<sentL, heightL>>,
         run' \in ScriptRun, run'.pc \in {"off", "reconcile"}
  PROVE  ScriptInv'
<1>1. l \in Names /\ file.pending[l] # None /\ file.signatures[l] = None
  BY DEF ScriptInv, RunInv, FileInv
<1>2. /\ \A t \in sentL : t.label \in Names /\ t.at \in Nat
      /\ None \notin Nat
      /\ file.pending \in [Names -> Nat \cup {None}]
      /\ file.signatures \in [Names -> Nat \cup {None}]
  BY DEF ScriptInv, ScriptTyped, ScriptTx, ScriptFile, LifecycleAssumption
<1>3. file'.pending[l] = None /\ \A k \in Names \ {l} : file'.pending[k] = file.pending[k]
      /\ file'.signatures[k] = file.signatures[k]
  BY <1>1, <1>2
<1>4. RunInv'
  BY DEF RunInv
<1>5. CASE /\ file'.signatures = file.signatures
           /\ \A t \in sentL : Pays(t, l) =>
                \/ t.state = "failed"
                \/ t.state = "sent" /\ heightL > t.at + RunWindow
  <2>1. \A t \in sentL : t.state = "landed" => t.at \in {file'.pending[t.label], file'.signatures[t.label]}
    BY <1>1, <1>2, <1>3, <1>5 DEF ScriptInv, FileInv, Pays
  <2>2. \A t \in sentL : t.state = "sent" => t.at = file'.pending[t.label] \/ heightL > t.at + RunWindow
    BY <1>1, <1>2, <1>3, <1>5 DEF ScriptInv, FileInv, Pays
  <2>3. \A k \in Names : file'.pending[k] # None =>
           file'.signatures[k] = None /\ file'.pending[k] <= heightL
    BY <1>1, <1>3, <1>5 DEF ScriptInv, FileInv
  <2>4. FileInv'
    BY <1>5, <2>1, <2>2, <2>3 DEF ScriptInv, FileInv, Twin, Names, Lifecycle!Names, Lifecycle!ToSet
  <2> QED BY <1>4, <2>4 DEF ScriptInv, ScriptTyped
<1>6. CASE /\ file'.signatures = [file.signatures EXCEPT ![l] = file.pending[l]]
           /\ \E t \in sentL : Pays(t, l) /\ t.state = "landed"
  <2>0. file'.signatures[l] = file.pending[l]
    BY <1>1, <1>2, <1>6
  <2>1. \A t \in sentL : t.state = "landed" => t.at \in {file'.pending[t.label], file'.signatures[t.label]}
    BY <1>1, <1>2, <1>3, <2>0 DEF ScriptInv, FileInv
  <2>2. \A t \in sentL : t.state = "sent" => t.at = file'.pending[t.label] \/ heightL > t.at + RunWindow
    <3> SUFFICES ASSUME NEW t \in sentL, t.state = "sent"
                 PROVE  t.at = file'.pending[t.label] \/ heightL > t.at + RunWindow
      OBVIOUS
    <3>1. PICK u \in sentL : Pays(u, l) /\ u.state = "landed"
      BY <1>6
    <3>2. t.label = l => t.at # file.pending[l]
      BY <3>1 DEF ScriptInv, FileInv, Twin, Pays
    <3> QED BY <1>2, <1>3, <3>2 DEF ScriptInv, FileInv
  <2>3. \A k \in Names : file'.pending[k] # None =>
           file'.signatures[k] = None /\ file'.pending[k] <= heightL
    BY <1>1, <1>3 DEF ScriptInv, FileInv
  <2>4. \A k \in Names : file'.signatures[k] # None =>
           \E t \in sentL : t.label = k /\ t.state = "landed" /\ t.at = file'.signatures[k]
    BY <1>1, <1>3, <1>6, <2>0 DEF ScriptInv, FileInv, Pays
  <2>5. FileInv'
    BY <2>1, <2>2, <2>3, <2>4 DEF ScriptInv, FileInv, Twin, Names, Lifecycle!Names, Lifecycle!ToSet
  <2> QED BY <1>4, <2>5 DEF ScriptInv, ScriptTyped
<1> QED BY <1>5, <1>6

LEMMA ConfirmKeeps ==
  ASSUME LifecycleAssumption, ScriptInv, Lifecycle!Confirm PROVE ScriptInv'
<1>1. PICK l : l = run.label
  OBVIOUS
<1>2. /\ run.pc = "decide" /\ run.seen = "landed"
      /\ file' = [file EXCEPT !.signatures = [file.signatures EXCEPT ![l] = file.pending[l]],
                              !.pending = [file.pending EXCEPT ![l] = None]]
      /\ UNCHANGED <<sentL, heightL>>
      /\ run' \in ScriptRun /\ run'.pc = "reconcile"
  BY <1>1 DEF Lifecycle!Confirm, Lifecycle!Confirmed, Lifecycle!Idle, ScriptRun
<1>3. l \in Names /\ \E t \in sentL : Pays(t, l) /\ t.state = "landed"
  BY <1>1, <1>2 DEF ScriptInv, RunInv
<1>4. /\ file' \in ScriptFile
      /\ file'.signatures = [file.signatures EXCEPT ![l] = file.pending[l]]
      /\ file'.pending = [file.pending EXCEPT ![l] = None]
  BY <1>2, <1>3 DEF ScriptInv, ScriptTyped, ScriptFile
<1> QED BY <1>1, <1>2, <1>3, <1>4, ClearKeeps

LEMMA FailedKeeps ==
  ASSUME LifecycleAssumption, ScriptInv, Lifecycle!Failed PROVE ScriptInv'
<1>1. PICK l : l = run.label
  OBVIOUS
<1>2. /\ run.pc = "decide" /\ run.seen = "failed"
      /\ file' = [file EXCEPT !.pending = [file.pending EXCEPT ![l] = None]]
      /\ UNCHANGED <<sentL, heightL>>
      /\ run' \in ScriptRun /\ run'.pc = "off"
  BY <1>1 DEF Lifecycle!Failed, Lifecycle!Idle, ScriptRun
<1>3. l \in Names /\ \E t \in sentL : Pays(t, l) /\ t.state = "failed"
  BY <1>1, <1>2 DEF ScriptInv, RunInv
<1>4. /\ file' \in ScriptFile /\ file'.signatures = file.signatures
      /\ file'.pending = [file.pending EXCEPT ![l] = None]
  BY <1>2, <1>3 DEF ScriptInv, ScriptTyped, ScriptFile
<1>5. \A t \in sentL : Pays(t, l) => t.state = "failed"
  BY <1>3 DEF ScriptInv, FileInv, Twin, Pays
<1> QED BY <1>1, <1>2, <1>4, <1>5, ClearKeeps

(* The status is read again after the height: what has not landed by then  *)
(* never will.                                                             *)
LEMMA ExpireKeeps ==
  ASSUME LifecycleAssumption, ScriptInv, Lifecycle!Expire PROVE ScriptInv'
<1>1. PICK l : l = run.label
  OBVIOUS
<1>2. /\ run.pc = "decide" /\ l \in Names /\ file.pending[l] \in Nat
      /\ heightL > file.pending[l] + RunWindow
      /\ UNCHANGED <<sentL, heightL>> /\ run \in ScriptRun
  BY <1>1 DEF Lifecycle!Expire, ScriptInv, ScriptTyped, RunInv, ScriptFile
<1>3. CASE Lifecycle!State(l) \in {"unknown", "sent"}
  <2>1. /\ file' = [file EXCEPT !.pending[l] = None,
                                !.expired = @ \cup {[label |-> l, at |-> file.pending[l]]}]
        /\ run' = Lifecycle!Idle
    BY <1>1, <1>3 DEF Lifecycle!Expire, Lifecycle!SecondRead
  <2>a. run' \in ScriptRun /\ run'.pc = "off"
    BY <2>1 DEF Lifecycle!Idle, ScriptRun
  <2>2. /\ file' \in ScriptFile /\ file'.signatures = file.signatures
        /\ file'.pending = [file.pending EXCEPT ![l] = None]
    <3>1. PICK e : e = [label |-> l, at |-> file.pending[l]]
      OBVIOUS
    <3>2. e \in [label : Names, at : Nat] /\ file \in ScriptFile
      BY <1>2, <3>1 DEF ScriptInv, ScriptTyped
    <3>3. file' = [file EXCEPT !.pending[l] = None, !.expired = @ \cup {e}]
      BY <2>1, <3>1
    <3> QED BY <1>2, <3>2, <3>3 DEF ScriptFile
  <2>3. \A t \in sentL : Pays(t, l) => t.state = "sent" /\ heightL > t.at + RunWindow
    BY <1>2, <1>3, StateOfSent DEF ScriptInv, FileInv, Twin, Pays
  <2> QED BY <1>1, <1>2, <2>a, <2>2, <2>3, ClearKeeps
<1>4. CASE Lifecycle!State(l) \notin {"unknown", "sent"}
  <2>1. file' = file /\ run' = [run EXCEPT !.pc = "settle"]
    BY <1>1, <1>4 DEF Lifecycle!Expire, Lifecycle!SecondRead
  <2>2. run' \in ScriptRun /\ run'.pc = "settle" /\ run'.label = l
    BY <1>1, <1>2, <2>1 DEF ScriptRun
  <2>3. RunInv'
    BY <1>1, <1>2, <2>1, <2>2 DEF RunInv, Names, Lifecycle!Names, Lifecycle!ToSet,
                                  LifecycleAssumption
  <2> QED BY <1>2, <2>1, <2>2, <2>3, ScriptGoesOn DEF ScriptInv, ScriptTyped
<1> QED BY <1>3, <1>4

LEMMA BroadcastTxKeeps ==
  ASSUME LifecycleAssumption, ScriptInv, Lifecycle!Broadcast PROVE ScriptInv'
<1>1. PICK l : l = run.label
  OBVIOUS
<1> DEFINE t == [label |-> l, at |-> file.pending[l], state |-> "sent"]
<1>2. /\ run.pc = "decide" /\ l \in Names /\ file.pending[l] # None
      /\ run' = [run EXCEPT !.pc = "settle"] /\ run \in ScriptRun
      /\ UNCHANGED <<file, heightL>>
      /\ sentL' = IF Lifecycle!State(l) = "unknown" THEN sentL \cup {t} ELSE sentL
  BY <1>1 DEF Lifecycle!Broadcast, ScriptInv, ScriptTyped, RunInv
<1>3. run' \in ScriptRun /\ run'.pc = "settle" /\ run'.label = l
  BY <1>1, <1>2 DEF ScriptRun
<1>4. RunInv'
  BY <1>1, <1>2, <1>3 DEF RunInv, Names, Lifecycle!Names, Lifecycle!ToSet
<1>5. CASE Lifecycle!State(l) = "unknown"
  <2>1. \A u \in sentL : ~Pays(u, l)
    BY <1>2, <1>5, StateOfSent
  <2>2. t \in ScriptTx /\ t.label = l /\ t.at = file.pending[l] /\ t.state = "sent"
    BY <1>2 DEF ScriptTx, ScriptInv, ScriptTyped, ScriptFile
  <2>3. sentL' = sentL \cup {t}
    BY <1>2, <1>5
  <2> HIDE DEF t
  <2>4. FileInv'
    <3>1. \A u, v \in sentL' : Twin(u, v) => u = v
      BY <2>1, <2>2, <2>3 DEF ScriptInv, FileInv, Twin, Pays
    <3>2. \A u \in sentL' : u.state = "landed" => u \in sentL
      BY <2>2, <2>3
    <3>3. \A u \in sentL' : u.state = "sent" => u \in sentL \/ u.at = file.pending[u.label]
      BY <2>2, <2>3
    <3> QED BY <1>2, <2>3, <3>1, <3>2, <3>3
            DEF ScriptInv, FileInv, Twin, Names, Lifecycle!Names, Lifecycle!ToSet
  <2> QED BY <1>2, <1>3, <1>4, <2>2, <2>3, <2>4 DEF ScriptInv, ScriptTyped
<1>6. CASE Lifecycle!State(l) # "unknown"
  BY <1>2, <1>3, <1>4, <1>6, ScriptGoesOn DEF ScriptInv, ScriptTyped
<1> QED BY <1>5, <1>6

LEMMA LandTxKeeps ==
  ASSUME LifecycleAssumption, ScriptInv, NEW t \in sentL, Lifecycle!Land(t) PROVE ScriptInv'
<1>1. PICK u : /\ u = [t EXCEPT !.state = "landed"] \/ u = [t EXCEPT !.state = "failed"]
               /\ sentL' = (sentL \ {t}) \cup {u}
  BY DEF Lifecycle!Land
<1>2. /\ t.state = "sent" /\ heightL <= t.at + RunWindow /\ UNCHANGED <<file, run, heightL>>
      /\ t \in ScriptTx /\ heightL \in Nat /\ RunWindow \in Nat
  BY DEF Lifecycle!Land, ScriptInv, ScriptTyped, LifecycleAssumption
<1>3. /\ u \in ScriptTx /\ u.label = t.label /\ u.at = t.at
      /\ u.state \in {"landed", "failed"}
  BY <1>1, <1>2 DEF ScriptTx
<1>4. t.at = file.pending[t.label]
  <2>1. ~(heightL > t.at + RunWindow)
    BY <1>2 DEF ScriptTx
  <2> QED BY <1>2, <2>1 DEF ScriptInv, FileInv
<1>5. FileInv'
  <2>1. \A x, y \in sentL' : Twin(x, y) => x = y
    BY <1>1, <1>3 DEF ScriptInv, FileInv, Twin
  <2>2. \A l \in Names : file.signatures[l] # None =>
          \E x \in sentL' : x.label = l /\ x.state = "landed" /\ x.at = file.signatures[l]
    BY <1>1, <1>2 DEF ScriptInv, FileInv
  <2>3. \A x \in sentL' : x.state = "landed" =>
          x.at \in {file.pending[x.label], file.signatures[x.label]}
    BY <1>1, <1>3, <1>4 DEF ScriptInv, FileInv
  <2>4. \A x \in sentL' : x.state = "sent" => x \in sentL
    BY <1>1, <1>3
  <2> QED BY <1>2, <2>1, <2>2, <2>3, <2>4
          DEF ScriptInv, FileInv, Twin, Names, Lifecycle!Names, Lifecycle!ToSet
<1>6. RunInv'
  BY <1>1, <1>2 DEF ScriptInv, RunInv, Pays, Lifecycle!Unresolved, Names,
                    Lifecycle!Names, Lifecycle!ToSet
<1>7. ScriptTyped'
  BY <1>1, <1>2, <1>3 DEF ScriptInv, ScriptTyped
<1> QED BY <1>5, <1>6, <1>7 DEF ScriptInv

LEMMA ScriptStep ==
  ASSUME LifecycleAssumption, ScriptInv, [Lifecycle!Next]_lifecycleVars PROVE ScriptInv'
<1>1. CASE UNCHANGED lifecycleVars
  <2>1. RunInv'
    BY <1>1 DEF lifecycleVars, ScriptInv, RunInv, Pays, Lifecycle!Unresolved
  <2>2. heightL' \in heightL..LastRunHeight
    BY <1>1 DEF lifecycleVars, ScriptInv, ScriptTyped, LifecycleAssumption
  <2> QED BY <1>1, <2>1, <2>2, ScriptGoesOn DEF lifecycleVars, ScriptInv, ScriptTyped
<1>2. CASE Lifecycle!Next
  BY <1>2, RunStarts, ReconcileKeeps, ExpectKeeps, SendKeeps, FinishKeeps, ReadStatusKeeps,
     ConfirmKeeps, FailedKeeps, ExpireKeeps, BroadcastTxKeeps, BlockKeeps, LandTxKeeps
  DEF Lifecycle!Next
<1> QED BY <1>1, <1>2

(* However often the script is killed and rerun, the transaction of a      *)
(* label lands at most once, and PASS means that every label landed.       *)
LEMMA ScriptKeepsPromises ==
  ASSUME LifecycleAssumption, ScriptInv
  PROVE  Lifecycle!TypeOK /\ Lifecycle!LandsOnce /\ Lifecycle!PassMeansLanded
<1>1. \A l \in Names : file.pending[l] \in Nat \cup {None} /\ file.signatures[l] \in Nat \cup {None}
  BY DEF ScriptInv, ScriptTyped, ScriptFile
<1>2. None \notin Nat /\ \A t \in sentL : t.label \in Names /\ t.at \in Nat
  BY DEF ScriptInv, ScriptTyped, ScriptTx, LifecycleAssumption
<1>3. Lifecycle!LandsOnce
  BY <1>1, <1>2 DEF ScriptInv, FileInv, Twin, Lifecycle!LandsOnce
<1>4. Lifecycle!PassMeansLanded
  BY DEF ScriptInv, FileInv, RunInv, Lifecycle!PassMeansLanded, Names
<1>5. Lifecycle!TypeOK
  <2>1. \A l \in Names : file.pending[l] \in 0..LastRunHeight \cup {None}
    BY <1>1 DEF ScriptInv, ScriptTyped, FileInv
  <2> QED BY <2>1 DEF ScriptInv, ScriptTyped, ScriptRun, Lifecycle!TypeOK, Names
<1> QED BY <1>3, <1>4, <1>5

-----------------------------------------------------------------------------
(* ------------------------------ market lists --------------------------- *)

Fetch == [id : Nat, key : Keys, generation : Nat]
FeedRows == [key : Keys, read : Nat]

FeedTyped ==
  /\ generation \in Nat /\ fetched \in Nat /\ key \in Keys
  /\ available \in Keys \cup {None} /\ seeking \subseteq Keys
  /\ entries \in [Keys -> [read : Nat, fresh : BOOLEAN] \cup {None}]
  /\ pending \in [Keys -> Fetch \cup {None}] /\ fetches \subseteq Fetch
  /\ view \in [key : Keys, data : FeedRows \cup {None}, failed : BOOLEAN,
               refreshing : BOOLEAN]
  /\ hook \in [run : Nat, due : BOOLEAN, awaits : Fetch \cup {None}]

(* What is kept, and what a refresh waits for, was asked for after the     *)
(* last confirmed trade.                                                   *)
FeedInv ==
  /\ FeedTyped
  /\ \A k \in Keys : entries[k] # None => entries[k].read = generation
  /\ \A k \in Keys : pending[k] # None =>
       /\ pending[k] \in fetches
       /\ pending[k].key = k /\ pending[k].generation = generation
  /\ \A f \in fetches : f.id \in 1..fetched
  /\ view.key = key
  /\ hook.awaits # None =>
       hook.awaits.key = key /\ hook.awaits.generation = generation
  /\ view.data # None => view.data.key = key
  /\ view.data # None /\ ~view.refreshing /\ ~view.failed =>
       view.data.read = generation

LEMMA FeedInit == ASSUME PagesAssumption, Feed!Init PROVE FeedInv
<1>1. entries = [k \in Keys |-> None] /\ pending = [k \in Keys |-> None]
  BY DEF Feed!Init, Feed!NoEntries
<1>2. view = [key |-> key, data |-> None, failed |-> FALSE, refreshing |-> TRUE]
  BY DEF Feed!Init, Feed!Shown
<1>3. hook = [run |-> 1, due |-> TRUE, awaits |-> None]
      /\ key \in Keys /\ generation = 0 /\ fetched = 0 /\ available = None
      /\ seeking = {} /\ fetches = {}
  BY DEF Feed!Init
<1>4. FeedTyped
  BY <1>1, <1>2, <1>3 DEF FeedTyped
<1> QED BY <1>1, <1>2, <1>3, <1>4 DEF FeedInv

(* Load joins the request under way or makes one of the present.           *)
LEMMA FeedLoad ==
  ASSUME PagesAssumption, FeedInv, NEW k \in Keys, Feed!Load(k), generation' = generation
  PROVE  /\ Feed!Request(k) \in Fetch /\ Feed!Request(k).key = k
         /\ Feed!Request(k).generation = generation
         /\ pending' \in [Keys -> Fetch \cup {None}] /\ fetches' \subseteq Fetch
         /\ fetched' \in Nat
         /\ \A f \in fetches' : f.id \in 1..fetched'
         /\ \A j \in Keys : pending'[j] # None =>
              /\ pending'[j] \in fetches'
              /\ pending'[j].key = j /\ pending'[j].generation = generation
<1> DEFINE f == Feed!Request(k)
<1>1. f \in Fetch /\ f.key = k /\ f.generation = generation
  BY DEF Feed!Request, FeedInv, FeedTyped, Fetch
<1>2. fetches' = fetches \cup {f} /\ pending' = [pending EXCEPT ![k] = f]
  BY DEF Feed!Load
<1>3. fetched' \in Nat /\ fetched <= fetched' /\ f.id \in 1..fetched'
  <2>1. CASE pending[k] # None
    BY <2>1 DEF Feed!Request, Feed!Load, FeedInv, FeedTyped
  <2>2. CASE pending[k] = None
    BY <2>2 DEF Feed!Request, Feed!Load, FeedInv, FeedTyped
  <2> QED BY <2>1, <2>2
<1> HIDE DEF f
<1>4. \A g \in fetches : g.id \in 1..fetched'
  BY <1>3 DEF FeedInv, FeedTyped
<1>5. \A j \in Keys : pending'[j] = IF j = k THEN f ELSE pending[j]
  BY <1>2 DEF FeedInv, FeedTyped
<1>6. pending' \in [Keys -> Fetch \cup {None}] /\ fetches' \subseteq Fetch
  BY <1>1, <1>2 DEF FeedInv, FeedTyped
<1>7. \A j \in Keys : pending'[j] # None =>
        /\ pending'[j] \in fetches'
        /\ pending'[j].key = j /\ pending'[j].generation = generation
  BY <1>1, <1>2, <1>5 DEF FeedInv
<1> QED BY <1>1, <1>2, <1>3, <1>4, <1>6, <1>7 DEF f

(* A request that is answered is no longer under way.                      *)
LEMMA FeedAnswered ==
  ASSUME FeedInv, NEW f \in fetches, Feed!Answered(f), generation' = generation,
         fetched' = fetched
  PROVE  /\ pending' \in [Keys -> Fetch \cup {None}] /\ fetches' \subseteq Fetch
         /\ f \in Fetch
         /\ \A g \in fetches' : g.id \in 1..fetched'
         /\ \A j \in Keys : pending'[j] # None =>
              /\ pending'[j] \in fetches'
              /\ pending'[j].key = j /\ pending'[j].generation = generation
<1>1. fetches' = fetches \ {f} /\ f \in Fetch
  BY DEF Feed!Answered, FeedInv, FeedTyped
<1>2. \A j \in Keys : pending'[j] # None => pending'[j] = pending[j] /\ pending[j] # f
  BY <1>1 DEF Feed!Answered, FeedInv, FeedTyped, Fetch
<1>3. pending' \in [Keys -> Fetch \cup {None}]
  BY <1>1 DEF Feed!Answered, FeedInv, FeedTyped
<1> QED BY <1>1, <1>2, <1>3 DEF FeedInv, FeedTyped

LEMMA FeedStep ==
  ASSUME PagesAssumption, FeedInv, [Feed!Next]_feedVars PROVE FeedInv'
<1> USE DEF Fetch, FeedRows
<1>1. ASSUME NEW k \in Keys, Feed!Prefetch(k) PROVE FeedInv'
  BY <1>1, FeedLoad DEF Feed!Prefetch, FeedInv, FeedTyped
<1>2. ASSUME NEW k \in Keys, Feed!Ages(k) PROVE FeedInv'
  <2>1. \A j \in Keys : entries'[j] # None =>
          entries[j] # None /\ entries'[j].read = entries[j].read
    BY <1>2 DEF Feed!Ages, FeedInv, FeedTyped
  <2>2. entries' \in [Keys -> [read : Nat, fresh : BOOLEAN] \cup {None}]
    <3>1. PICK e \in [read : Nat, fresh : BOOLEAN] : e = entries[k]
      BY <1>2 DEF Feed!Ages, FeedInv, FeedTyped
    <3>2. [e EXCEPT !.fresh = FALSE] \in [read : Nat, fresh : BOOLEAN]
      OBVIOUS
    <3>3. entries' = [entries EXCEPT ![k] = IF e.fresh THEN [e EXCEPT !.fresh = FALSE]
                                            ELSE None]
      BY <1>2, <3>1 DEF Feed!Ages, FeedInv, FeedTyped
    <3> QED BY <3>2, <3>3 DEF FeedInv, FeedTyped
  <2> QED BY <1>2, <2>1, <2>2 DEF Feed!Ages, FeedInv, FeedTyped
<1>3. ASSUME NEW k \in Keys, Feed!ChangeKey(k) PROVE FeedInv'
  <2> DEFINE rows == IF entries[k] # None THEN [key |-> k, read |-> entries[k].read]
                     ELSE IF view.key = k THEN view.data ELSE None
  <2>1. rows \in FeedRows \cup {None} /\ (rows # None => rows.key = k)
    BY <1>3 DEF FeedInv, FeedTyped, Feed!ChangeKey
  <2>2. view' = [key |-> k, data |-> rows, failed |-> FALSE, refreshing |-> TRUE]
    BY <1>3 DEF Feed!ChangeKey, Feed!Effect, Feed!Shown, Feed!RowsOf
  <2>3. hook' = [run |-> hook.run + 1, due |-> TRUE, awaits |-> None]
    BY <1>3 DEF Feed!ChangeKey, Feed!Effect
  <2> HIDE DEF rows
  <2>4. view' \in [key : Keys, data : FeedRows \cup {None}, failed : BOOLEAN,
                   refreshing : BOOLEAN]
        /\ hook' \in [run : Nat, due : BOOLEAN, awaits : Fetch \cup {None}]
    BY <2>1, <2>2, <2>3 DEF FeedInv, FeedTyped
  <2>5. FeedTyped'
    BY <1>3, <2>4 DEF Feed!ChangeKey, FeedInv, FeedTyped
  <2> QED BY <1>3, <2>1, <2>2, <2>3, <2>5 DEF Feed!ChangeKey, FeedInv
<1>4. ASSUME NEW k \in Keys, Feed!TickerIsFree(k) PROVE FeedInv'
  BY <1>4 DEF Feed!TickerIsFree, FeedInv, FeedTyped
<1>5. ASSUME NEW f \in fetches, Feed!Succeeds(f) PROVE FeedInv'
  <2>1. f \in Fetch
    BY DEF FeedInv, FeedTyped
  <2>2. /\ entries' \in [Keys -> [read : Nat, fresh : BOOLEAN] \cup {None}]
        /\ \A k \in Keys : entries'[k] # None => entries'[k].read = generation
    BY <1>5, <2>1 DEF Feed!Succeeds, Feed!Seeded, Feed!Current, FeedInv, FeedTyped
  <2>3. generation' = generation /\ fetched' = fetched /\ key' = key
    BY <1>5 DEF Feed!Succeeds
  <2>4. CASE hook.awaits = f
    <3>1. f.key = key /\ f.generation = generation
      BY <2>1, <2>4, PagesAssumption DEF FeedInv, PagesAssumption
    <3>2. view' = [key |-> f.key, data |-> [key |-> f.key, read |-> f.generation],
                   failed |-> FALSE, refreshing |-> FALSE]
          /\ hook' = [hook EXCEPT !.awaits = None]
      BY <1>5, <2>4 DEF Feed!Succeeds, Feed!Shown
    <3>3. FeedTyped'
      BY <1>5, <2>1, <2>2, <2>3, <3>1, <3>2, FeedAnswered
      DEF Feed!Succeeds, FeedInv, FeedTyped
    <3> QED BY <1>5, <2>2, <2>3, <3>1, <3>2, <3>3, FeedAnswered
            DEF Feed!Succeeds, FeedInv, FeedTyped
  <2>5. CASE hook.awaits # f
    BY <1>5, <2>2, <2>3, <2>5, FeedAnswered DEF Feed!Succeeds, FeedInv, FeedTyped
  <2> QED BY <2>4, <2>5
<1>6. ASSUME NEW f \in fetches, Feed!Fails(f) PROVE FeedInv'
  <2>1. f \in Fetch
    BY DEF FeedInv, FeedTyped
  <2>2. generation' = generation /\ fetched' = fetched /\ key' = key
        /\ entries' = entries
    BY <1>6 DEF Feed!Fails
  <2>3. CASE hook.awaits = f
    <3>1. f.key = key
      BY <2>1, <2>3, PagesAssumption DEF FeedInv, PagesAssumption
    <3>2. PICK kept \in {None, view.data} :
            view' = [view EXCEPT !.key = f.key, !.data = kept, !.failed = TRUE,
                                 !.refreshing = FALSE]
      BY <1>6, <2>3 DEF Feed!Fails
    <3>3. /\ view'.key = key /\ view'.data = kept /\ view'.failed
          /\ view' \in [key : Keys, data : FeedRows \cup {None}, failed : BOOLEAN,
                        refreshing : BOOLEAN]
      BY <3>1, <3>2 DEF FeedInv, FeedTyped
    <3>4. hook' = [hook EXCEPT !.awaits = None]
      BY <1>6, <2>3 DEF Feed!Fails
    <3>5. FeedTyped'
      BY <1>6, <2>2, <3>3, <3>4, FeedAnswered DEF Feed!Fails, FeedInv, FeedTyped
    <3> QED BY <1>6, <2>2, <3>3, <3>4, <3>5, FeedAnswered DEF Feed!Fails, FeedInv, FeedTyped
  <2>4. CASE hook.awaits # f
    BY <1>6, <2>2, <2>4, FeedAnswered DEF Feed!Fails, FeedInv, FeedTyped
  <2> QED BY <2>3, <2>4
<1>7. ASSUME Feed!Confirmed PROVE FeedInv'
  <2> DEFINE rows == view.data
  <2>1. entries' = [k \in Keys |-> None] /\ pending' = [k \in Keys |-> None]
        /\ generation' = generation + 1
    BY <1>7 DEF Feed!Confirmed, Feed!NoEntries, Feed!NonePending
  <2>2. key' = key /\ key \in Keys /\ view.key = key
    BY <1>7 DEF Feed!Confirmed, FeedInv, FeedTyped
  <2>3. view' = [key |-> key, data |-> rows, failed |-> FALSE, refreshing |-> TRUE]
    BY <1>7, <2>1, <2>2 DEF Feed!Confirmed, Feed!Effect, Feed!Shown, Feed!RowsOf
  <2>4. hook' = [run |-> hook.run + 1, due |-> TRUE, awaits |-> None]
    BY <1>7 DEF Feed!Confirmed, Feed!Effect
  <2>5. FeedTyped'
    BY <1>7, <2>1, <2>2, <2>3, <2>4 DEF Feed!Confirmed, FeedInv, FeedTyped
  <2> QED BY <1>7, <2>1, <2>2, <2>3, <2>4, <2>5 DEF Feed!Confirmed, FeedInv
<1>8. ASSUME Feed!AskTicker PROVE FeedInv'
  BY <1>8 DEF Feed!AskTicker, FeedInv, FeedTyped
<1>9. ASSUME NEW forced \in BOOLEAN, Feed!HookLoads(forced) PROVE FeedInv'
  <2>1. generation' = generation /\ key' = key /\ key \in Keys /\ entries' = entries
    BY <1>9 DEF Feed!HookLoads, FeedInv, FeedTyped
  <2>2. CASE hook.due /\ Feed!IsFresh(key, generation > 0)
    <3>1. entries[key] # None /\ entries[key].read = generation
      BY <2>1, <2>2 DEF Feed!IsFresh, FeedInv
    <3>2. view' = [key |-> key, data |-> [key |-> key, read |-> entries[key].read],
                   failed |-> FALSE, refreshing |-> FALSE]
          /\ hook' = [hook EXCEPT !.due = FALSE]
          /\ UNCHANGED <<fetches, pending, fetched, seeking, available>>
      BY <1>9, <2>2 DEF Feed!HookLoads, Feed!Shown
    <3>3. FeedTyped'
      BY <2>1, <3>1, <3>2 DEF FeedInv, FeedTyped
    <3> QED BY <2>1, <3>1, <3>2, <3>3 DEF FeedInv, FeedTyped
  <2>3. CASE ~ (hook.due /\ Feed!IsFresh(key, generation > 0))
    <3>1. Feed!Load(key) /\ UNCHANGED <<seeking, available>>
          /\ hook' = [hook EXCEPT !.due = FALSE, !.awaits = Feed!Request(key)]
          /\ view' = [view EXCEPT !.refreshing = TRUE]
      BY <1>9, <2>3 DEF Feed!HookLoads
    <3>2. PICK f \in Fetch : f = Feed!Request(key)
      BY <2>1, <3>1, FeedLoad
    <3>3. hook' \in [run : Nat, due : BOOLEAN, awaits : Fetch \cup {None}]
          /\ hook'.awaits = f
      BY <3>1, <3>2 DEF FeedInv, FeedTyped
    <3>4. FeedTyped'
      BY <2>1, <3>1, <3>3, FeedLoad DEF FeedInv, FeedTyped
    <3> QED BY <2>1, <3>1, <3>2, <3>3, <3>4, FeedLoad DEF FeedInv, FeedTyped
  <2> QED BY <2>2, <2>3
<1>10. CASE UNCHANGED feedVars
  BY <1>10 DEF feedVars, FeedInv, FeedTyped
<1> QED BY <1>1, <1>2, <1>3, <1>4, <1>5, <1>6, <1>7, <1>8, <1>9, <1>10 DEF Feed!Next

LEMMA FeedKeepsPromises ==
  ASSUME FeedInv
  PROVE  /\ Feed!TypeOK
         /\ Feed!RowsAnswerTheFilters /\ Feed!TradeIsVisible /\ Feed!CacheForgetsOldReads
BY DEF FeedInv, FeedTyped, Feed!TypeOK, Feed!RowsAnswerTheFilters, Feed!TradeIsVisible,
       Feed!CacheForgetsOldReads, Fetch, FeedRows

-----------------------------------------------------------------------------
(* ------------------------------ fee dashboard -------------------------- *)

(* A page that is appended adds the rows that are not shown yet.           *)
LEMMA MergedRows ==
  ASSUME NEW T, NEW rows \in Seq(T), NEW next \in Seq(T),
         Dashboard!IsInjective(rows), Dashboard!IsInjective(next)
  PROVE  /\ Dashboard!Merged(rows, next) \in Seq(T)
         /\ Dashboard!IsInjective(Dashboard!Merged(rows, next))
<1> DEFINE N == Len(next)
           Step(n, before) == IF next[n] \in Dashboard!ToSet(rows) THEN before
                              ELSE Append(before, next[n])
           Runs(g, m) == \A n \in 0..m : g[n] = IF n = 0 THEN rows ELSE Step(n, g[n - 1])
           Fold(g) == g = [n \in 0..N |-> IF n = 0 THEN rows ELSE Step(n, g[n - 1])]
           Reached == {m \in Nat : m <= N => \E g : Runs(g, m)}
<1>1. N \in Nat
  OBVIOUS
<1>2. 0 \in Reached
  <2>1. Runs([n \in {0} |-> rows], 0)
    OBVIOUS
  <2> QED BY <2>1
<1>3. ASSUME NEW m \in Nat, m \in Reached PROVE m + 1 \in Reached
  <2> SUFFICES ASSUME m + 1 <= N PROVE \E g : Runs(g, m + 1)
    OBVIOUS
  <2>1. PICK g : Runs(g, m)
    BY <1>1, <1>3
  <2> DEFINE h == [n \in 0..(m + 1) |-> IF n = m + 1 THEN Step(n, g[m]) ELSE g[n]]
  <2>2. ASSUME NEW n \in 0..(m + 1) PROVE h[n] = IF n = 0 THEN rows ELSE Step(n, h[n - 1])
    <3> HIDE DEF Step
    <3>1. CASE n = m + 1
      BY <3>1
    <3>2. CASE n # m + 1
      <4>1. n \in 0..m /\ h[n] = g[n] /\ (n # 0 => h[n - 1] = g[n - 1])
        BY <3>2
      <4>2. g[n] = IF n = 0 THEN rows ELSE Step(n, g[n - 1])
        BY <2>1, <4>1
      <4> HIDE DEF h
      <4> QED BY <4>1, <4>2
    <3> QED BY <3>1, <3>2
  <2> HIDE DEF h, Step
  <2>3. Runs(h, m + 1)
    BY <2>2
  <2> QED BY <2>3
<1> HIDE DEF Step
<1>4. \E g : Runs(g, N)
  <2>1. Nat \subseteq Reached
    <3> HIDE DEF Reached
    <3> QED BY <1>2, <1>3, EveryNat
  <2> QED BY <1>1, <2>1
<1>5. \E g : Fold(g)
  <2>1. PICK g : Runs(g, N)
    BY <1>4
  <2> DEFINE h == [n \in 0..N |-> g[n]]
  <2>2. ASSUME NEW n \in 0..N PROVE h[n] = IF n = 0 THEN rows ELSE Step(n, h[n - 1])
    <3>1. h[n] = g[n] /\ (n # 0 => h[n - 1] = g[n - 1])
      BY <1>1
    <3>2. g[n] = IF n = 0 THEN rows ELSE Step(n, g[n - 1])
      BY <2>1
    <3> HIDE DEF h
    <3> QED BY <3>1, <3>2
  <2>3. h = [n \in 0..N |-> h[n]]
    OBVIOUS
  <2> HIDE DEF h
  <2>4. Fold(h)
    BY <2>2, <2>3
  <2> QED BY <2>4
<1> DEFINE F == CHOOSE g : Fold(g)
<1>6. Fold(F)
  <2> HIDE DEF Fold
  <2> QED BY <1>5
<1>7. Dashboard!Merged(rows, next) = F[N]
  BY DEF Dashboard!Merged, Step
<1> HIDE DEF F
<1> DEFINE Listed(n) == Dashboard!ToSet(rows) \cup {next[i] : i \in 1..n}
           Good(n) == /\ F[n] \in Seq(T) /\ Dashboard!IsInjective(F[n])
                      /\ Dashboard!ToSet(F[n]) \subseteq Listed(n)
           Built == {n \in Nat : n <= N => Good(n)}
<1>8. 0 \in Built
  <2>1. F[0] = rows
    BY <1>1, <1>6
  <2> QED BY <2>1
<1>9. ASSUME NEW n \in Nat, n \in Built PROVE n + 1 \in Built
  <2> SUFFICES ASSUME n + 1 <= N PROVE Good(n + 1)
    OBVIOUS
  <2>1. Good(n) /\ n + 1 \in 1..N /\ next[n + 1] \in T
    BY <1>1, <1>9
  <2>2. F[n + 1] = Step(n + 1, F[n])
    <3>1. n + 1 \in 0..N /\ n + 1 # 0 /\ (n + 1) - 1 = n
      BY <1>1
    <3> QED BY <1>6, <3>1
  <2>3. PICK s \in Seq(T) : s = F[n]
    BY <2>1
  <2>4. Listed(n) \subseteq Listed(n + 1) /\ next[n + 1] \in Listed(n + 1)
    OBVIOUS
  <2>5. CASE next[n + 1] \in Dashboard!ToSet(rows)
    <3>1. F[n + 1] = F[n]
      BY <2>2, <2>5 DEF Step
    <3> HIDE DEF Listed
    <3> QED BY <2>1, <2>4, <3>1
  <2>6. CASE next[n + 1] \notin Dashboard!ToSet(rows)
    <3>1. F[n + 1] = Append(s, next[n + 1])
      BY <2>2, <2>3, <2>6 DEF Step
    <3>2. \A i \in 1..n : next[i] # next[n + 1]
      BY <2>1 DEF Dashboard!IsInjective
    <3>3. next[n + 1] \notin Dashboard!ToSet(s)
      BY <2>1, <2>3, <2>6, <3>2
    <3>4. F[n + 1] \in Seq(T)
      BY <2>1, <3>1
    <3>5. \A i \in DOMAIN s : s[i] # next[n + 1]
      BY <3>3 DEF Dashboard!ToSet
    <3>6. Dashboard!IsInjective(F[n + 1])
      BY <2>1, <2>3, <3>1, <3>5 DEF Dashboard!IsInjective
    <3>7. Dashboard!ToSet(F[n + 1]) \subseteq Dashboard!ToSet(s) \cup {next[n + 1]}
      BY <2>1, <3>1 DEF Dashboard!ToSet
    <3> HIDE DEF Listed
    <3> QED BY <2>1, <2>3, <2>4, <3>4, <3>6, <3>7
  <2> QED BY <2>5, <2>6
<1>10. Good(N)
  <2>1. Nat \subseteq Built
    <3> HIDE DEF Built
    <3> QED BY <1>8, <1>9, EveryNat
  <2> QED BY <1>1, <2>1
<1> QED BY <1>7, <1>10

Distinct == {s \in Seq(Tokens) : Dashboard!IsInjective(s)}
Account == [wallet : Wallets, rows : Distinct, how : {"auto", "asked"}, bound : BOOLEAN]
Challenge == [wallet : Wallets \cup {None}, verified : BOOLEAN]
ClaimRun == [action : {"start", "verify", "claim"}, live : BOOLEAN, challenge : Nat]

DashboardTyped ==
  /\ wallet \in Wallets /\ sessionD \in Wallets \cup {None}
  /\ allocations \in [Wallets -> Distinct] /\ bound \subseteq Wallets
  /\ account \in Account \cup {None}
  /\ flow \in [challenge : Nat, verified : BOOLEAN]
  /\ running \in ClaimRun \cup {None}
  /\ challenges \in Seq(Challenge)

(* A request of the claim panel is about the challenge the panel shows,    *)
(* and a panel that asks for another post shows none as verified.          *)
PanelInv ==
  /\ flow.challenge <= Len(challenges)
  /\ flow.verified => flow.challenge # 0 /\ challenges[flow.challenge].verified
  /\ running # None =>
       /\ running.challenge <= Len(challenges)
       /\ running.action = "verify" => running.challenge # 0
       /\ running.live => running.challenge = flow.challenge
       /\ running.live /\ running.action = "start" => ~flow.verified

DashboardInv ==
  /\ DashboardTyped /\ PanelInv
  /\ account # None /\ account.how = "auto" => account.wallet = wallet
  /\ asked # None => asked.offset \in Nat

LEMMA PagesDistinct ==
  ASSUME PagesAssumption, DashboardInv, NEW w \in Wallets, NEW offset \in Nat
  PROVE  Dashboard!Page(w, offset) \in Distinct
<1>1. PICK s \in Seq(Tokens) : s = allocations[w] /\ Dashboard!IsInjective(s)
  BY DEF DashboardInv, DashboardTyped, Distinct
<1> DEFINE last == IF offset + PageSize < Len(s) THEN offset + PageSize ELSE Len(s)
           slice == SubSeq(s, offset + 1, last)
<1>2. last \in Nat /\ last <= Len(s) /\ Dashboard!Page(w, offset) = slice
  BY <1>1, PagesAssumption DEF PagesAssumption, Dashboard!Page
<1> HIDE DEF last
<1>3. slice \in Seq(Tokens)
  BY <1>1, <1>2
<1>4. ASSUME NEW i \in DOMAIN slice, NEW j \in DOMAIN slice, slice[i] = slice[j] PROVE i = j
  <2>1. offset + i \in DOMAIN s /\ slice[i] = s[offset + i]
    BY <1>1, <1>2
  <2>2. offset + j \in DOMAIN s /\ slice[j] = s[offset + j]
    BY <1>1, <1>2
  <2>3. offset + i = offset + j
    BY <1>1, <1>4, <2>1, <2>2 DEF Dashboard!IsInjective
  <2> QED BY <1>2, <2>3
<1> QED BY <1>2, <1>3, <1>4 DEF Dashboard!IsInjective, Distinct

LEMMA AnswersTyped ==
  ASSUME PagesAssumption, DashboardInv, NEW w \in Wallets, NEW offset \in Nat,
         NEW how \in {"auto", "asked"}
  PROVE  /\ Dashboard!Dashboard(w, offset, how) \in Account
         /\ Dashboard!Dashboard(w, offset, how).how = how
         /\ Dashboard!Dashboard(w, offset, how).wallet = w
BY PagesDistinct DEF Dashboard!Dashboard, Account, DashboardInv, DashboardTyped

LEMMA DashboardInit == ASSUME PagesAssumption, Dashboard!Init PROVE DashboardInv
<1>1. << >> \in Distinct
  BY DEF Distinct, Dashboard!IsInjective
<1>2. \A t \in Tokens : <<t>> \in Distinct
  BY DEF Distinct, Dashboard!IsInjective
<1>3. (CHOOSE t \in Tokens : TRUE) \in Tokens
  BY PagesAssumption DEF PagesAssumption
<1>4. allocations \in [Wallets -> Distinct]
  BY <1>1, <1>2, <1>3 DEF Dashboard!Init
<1>5. flow = [challenge |-> 0, verified |-> FALSE] /\ challenges = << >> /\ running = None
      /\ account = None /\ bound = {} /\ asked = None
      /\ wallet \in Wallets /\ sessionD \in Wallets \cup {None}
  BY DEF Dashboard!Init, Dashboard!NoFlow
<1> QED BY <1>4, <1>5 DEF DashboardInv, DashboardTyped, PanelInv

LEMMA DashboardStep ==
  ASSUME PagesAssumption, DashboardInv, [Dashboard!Next]_dashboardVars
  PROVE  DashboardInv'
<1>1. ASSUME NEW w \in Wallets, Dashboard!ChangeWallet(w) PROVE DashboardInv'
  <2>1. flow' = [challenge |-> 0, verified |-> FALSE] /\ account' = None /\ wallet' = w
        /\ UNCHANGED <<sessionD, allocations, bound, asked, challenges>>
        /\ running' = IF running = None THEN None ELSE [running EXCEPT !.live = FALSE]
    BY <1>1 DEF Dashboard!ChangeWallet, Dashboard!NoFlow
  <2>2. CASE running = None
    BY <2>1, <2>2 DEF DashboardInv, DashboardTyped, PanelInv
  <2>3. CASE running # None
    <3>1. PICK r \in ClaimRun : r = running
      BY <2>3 DEF DashboardInv, DashboardTyped
    <3>2. running' \in ClaimRun /\ ~running'.live /\ running'.action = r.action
          /\ running'.challenge = r.challenge
      BY <2>1, <2>3, <3>1 DEF ClaimRun
    <3> QED BY <2>1, <2>3, <3>1, <3>2 DEF DashboardInv, DashboardTyped, PanelInv
  <2> QED BY <2>2, <2>3
<1>2. ASSUME NEW w \in Wallets, Dashboard!OtherTab(w) PROVE DashboardInv'
  BY <1>2 DEF Dashboard!OtherTab, DashboardInv, DashboardTyped, PanelInv
<1>3. ASSUME NEW r \in auto, Dashboard!AutoAnswer(r) PROVE DashboardInv'
  <2>1. UNCHANGED <<wallet, sessionD, allocations, bound, asked, flow, running, challenges>>
    BY <1>3 DEF Dashboard!AutoAnswer
  <2>2. CASE sessionD # None /\ Dashboard!OwnAnswer(r)
    <3>1. sessionD \in Wallets /\ sessionD = wallet
          /\ account' = Dashboard!Dashboard(sessionD, 0, "auto")
      BY <1>3, <2>2 DEF Dashboard!AutoAnswer, Dashboard!OwnAnswer, DashboardInv, DashboardTyped
    <3>2. account' \in Account /\ account'.wallet = wallet
      BY <3>1, AnswersTyped
    <3> QED BY <2>1, <3>2 DEF DashboardInv, DashboardTyped, PanelInv
  <2>3. CASE ~ (sessionD # None /\ Dashboard!OwnAnswer(r))
    BY <1>3, <2>1, <2>3 DEF Dashboard!AutoAnswer, DashboardInv, DashboardTyped, PanelInv
  <2> QED BY <2>2, <2>3
<1>4. ASSUME NEW what \in {"mine", "more", "bind"}, Dashboard!Ask(what) PROVE DashboardInv'
  <2>1. UNCHANGED <<wallet, allocations, bound, account, flow, running, challenges>>
        /\ sessionD' = wallet
    BY <1>4 DEF Dashboard!Ask
  <2>2. asked' = [what |-> what,
                  offset |-> IF what = "more" THEN Len(account.rows) ELSE 0]
    BY <1>4 DEF Dashboard!Ask
  <2>3. what = "more" => account # None
    BY <1>4 DEF Dashboard!Ask
  <2>4. asked'.offset \in Nat
    <3>1. CASE what = "more"
      BY <2>2, <2>3, <3>1 DEF DashboardInv, DashboardTyped, Account, Distinct
    <3> QED BY <2>2, <3>1
  <2> QED BY <2>1, <2>4 DEF DashboardInv, DashboardTyped, PanelInv
<1>5. CASE Dashboard!Refuse
  BY <1>5 DEF Dashboard!Refuse, DashboardInv, DashboardTyped, PanelInv
<1>6. CASE Dashboard!AskedAnswer
  <2> DEFINE next == Dashboard!Dashboard(sessionD, asked.offset, "asked")
  <2>1. sessionD \in Wallets /\ asked.offset \in Nat
    BY <1>6 DEF Dashboard!AskedAnswer, DashboardInv, DashboardTyped
  <2>2. PICK n \in Account : n = next /\ n.how = "asked"
    BY <2>1, AnswersTyped
  <2>3. UNCHANGED <<wallet, sessionD, allocations, flow, running, challenges>>
        /\ asked' = None /\ bound' \subseteq Wallets
    BY <1>6, <2>1 DEF Dashboard!AskedAnswer, DashboardInv, DashboardTyped
  <2>4. account' \in Account /\ account'.how = "asked"
    <3>1. CASE asked.what = "more" /\ account # None
      <4>1. account' = [n EXCEPT !.rows = Dashboard!Merged(account.rows, @)]
        BY <1>6, <2>2, <3>1 DEF Dashboard!AskedAnswer
      <4>2. account.rows \in Distinct /\ n.rows \in Distinct
        BY <3>1 DEF DashboardInv, DashboardTyped, Account
      <4>3. Dashboard!Merged(account.rows, n.rows) \in Distinct
        BY <4>2, MergedRows DEF Distinct
      <4> QED BY <2>2, <4>1, <4>3 DEF Account
    <3>2. CASE ~ (asked.what = "more" /\ account # None)
      <4>1. account' = [n EXCEPT !.bound = sessionD \in bound']
        BY <1>6, <2>2, <3>2 DEF Dashboard!AskedAnswer
      <4>2. (sessionD \in bound') \in BOOLEAN
        OBVIOUS
      <4>3. \A b \in BOOLEAN : [n EXCEPT !.bound = b] \in Account
                               /\ [n EXCEPT !.bound = b].how = "asked"
        BY <2>2 DEF Account
      <4> QED BY <4>1, <4>2, <4>3, Zenon
    <3> QED BY <3>1, <3>2
  <2> QED BY <2>3, <2>4 DEF DashboardInv, DashboardTyped, PanelInv
<1>7. ASSUME NEW w \in Wallets, NEW t \in Tokens, Dashboard!NewAllocation(w, t)
      PROVE  DashboardInv'
  <2>1. PICK s \in Seq(Tokens) : s = allocations[w] /\ Dashboard!IsInjective(s)
    BY DEF DashboardInv, DashboardTyped, Distinct
  <2>2. t \notin Dashboard!ToSet(s) /\ allocations' = [allocations EXCEPT ![w] = <<t>> \o s]
    BY <1>7, <2>1 DEF Dashboard!NewAllocation, DashboardInv, DashboardTyped
  <2>3. <<t>> \o s \in Distinct
    <3>1. \A i \in DOMAIN s : s[i] # t
      BY <2>2 DEF Dashboard!ToSet
    <3>2. <<t>> \o s \in Seq(Tokens) /\ Len(<<t>> \o s) = Len(s) + 1
      BY <2>1
    <3>3. \A i \in 1..(Len(s) + 1) : (<<t>> \o s)[i] = IF i = 1 THEN t ELSE s[i - 1]
      BY <2>1
    <3>4. \A i \in 1..(Len(s) + 1) : i # 1 => i - 1 \in DOMAIN s
      BY <2>1
    <3> DEFINE u == <<t>> \o s
    <3>5. DOMAIN u = 1..(Len(s) + 1)
      BY <2>1, <3>2
    <3> HIDE DEF u
    <3>6. ASSUME NEW i \in DOMAIN u, NEW j \in DOMAIN u, u[i] = u[j] PROVE i = j
      BY <2>1, <3>1, <3>3, <3>4, <3>5, <3>6 DEF Dashboard!IsInjective, u
    <3> QED BY <3>2, <3>6 DEF Dashboard!IsInjective, Distinct, u
  <2>4. UNCHANGED <<wallet, sessionD, bound, account, asked, flow, running, challenges>>
    BY <1>7 DEF Dashboard!NewAllocation
  <2>5. allocations' \in [Wallets -> Distinct]
    BY <2>2, <2>3 DEF DashboardInv, DashboardTyped
  <2> QED BY <2>4, <2>5 DEF DashboardInv, DashboardTyped, PanelInv
<1>8. ASSUME NEW action \in {"start", "verify", "claim"}, Dashboard!Run(action)
      PROVE  DashboardInv'
  <2>1. UNCHANGED <<wallet, allocations, bound, account, asked, challenges>>
        /\ sessionD' = wallet
        /\ running' = [action |-> action, live |-> TRUE, challenge |-> flow.challenge]
    BY <1>8 DEF Dashboard!Run
  <2>2. flow' \in [challenge : Nat, verified : BOOLEAN]
        /\ flow'.challenge = flow.challenge
        /\ (flow'.verified => flow.verified) /\ (action = "start" => ~flow'.verified)
    BY <1>8 DEF Dashboard!Run, Dashboard!Forgotten, DashboardInv, DashboardTyped
  <2>3. action = "verify" => flow.challenge # 0
    BY <1>8 DEF Dashboard!Run
  <2>4. running' \in ClaimRun
    BY <2>1 DEF ClaimRun, DashboardInv, DashboardTyped
  <2>5. DashboardTyped'
    BY <2>1, <2>2, <2>4 DEF DashboardInv, DashboardTyped
  <2>6. PanelInv'
    BY <2>1, <2>2, <2>3 DEF DashboardInv, PanelInv
  <2> QED BY <2>1, <2>5, <2>6 DEF DashboardInv
<1>9. CASE Dashboard!RunAnswer
  <2>1. PICK r \in ClaimRun : r = running /\ running # None
    BY <1>9 DEF Dashboard!RunAnswer, DashboardInv, DashboardTyped
  <2>2. running' = None
        /\ UNCHANGED <<wallet, sessionD, allocations, bound, account, asked>>
    BY <1>9 DEF Dashboard!RunAnswer
  <2> SUFFICES /\ flow' \in [challenge : Nat, verified : BOOLEAN]
               /\ challenges' \in Seq(Challenge)
               /\ flow'.challenge <= Len(challenges')
               /\ flow'.verified =>
                    flow'.challenge # 0 /\ challenges'[flow'.challenge].verified
    BY <2>2 DEF DashboardInv, DashboardTyped, PanelInv
  <2>3. CASE UNCHANGED <<flow, challenges>>
    BY <2>3 DEF DashboardInv, DashboardTyped, PanelInv
  <2>4. PICK c \in Seq(Challenge) : c = challenges
    BY DEF DashboardInv, DashboardTyped
  <2>5. PICK f \in [challenge : Nat, verified : BOOLEAN] : f = flow
    BY DEF DashboardInv, DashboardTyped
  <2>6. /\ f.challenge <= Len(c)
        /\ f.verified => f.challenge # 0 /\ c[f.challenge].verified
        /\ r.challenge <= Len(c) /\ r.challenge \in Nat /\ r.live \in BOOLEAN
        /\ r.action = "verify" => r.challenge # 0
        /\ r.live => r.challenge = f.challenge
        /\ r.live /\ r.action = "start" => ~f.verified
    BY <2>1, <2>4, <2>5 DEF DashboardInv, PanelInv, ClaimRun
  <2>7. ASSUME r.action = "start",
               challenges' = Append(c, [wallet |-> sessionD, verified |-> FALSE]),
               flow' = IF r.live THEN [f EXCEPT !.challenge = Len(challenges')] ELSE f
        PROVE  /\ flow' \in [challenge : Nat, verified : BOOLEAN]
               /\ challenges' \in Seq(Challenge)
               /\ flow'.challenge <= Len(challenges')
               /\ flow'.verified =>
                    flow'.challenge # 0 /\ challenges'[flow'.challenge].verified
    <3>1. [wallet |-> sessionD, verified |-> FALSE] \in Challenge
      BY DEF Challenge, DashboardInv, DashboardTyped
    <3>2. challenges' \in Seq(Challenge) /\ Len(challenges') = Len(c) + 1
          /\ \A i \in 1..Len(c) : challenges'[i] = c[i]
      BY <2>7, <3>1
    <3>3. CASE r.live
      BY <2>6, <2>7, <3>2, <3>3
    <3>4. CASE ~r.live
      BY <2>6, <2>7, <3>2, <3>4
    <3> QED BY <2>6, <3>3, <3>4
  <2>8. ASSUME r.action = "verify",
               challenges' = [c EXCEPT ![r.challenge].verified = TRUE],
               flow' = IF r.live THEN [f EXCEPT !.verified = TRUE] ELSE f
        PROVE  /\ flow' \in [challenge : Nat, verified : BOOLEAN]
               /\ challenges' \in Seq(Challenge)
               /\ flow'.challenge <= Len(challenges')
               /\ flow'.verified =>
                    flow'.challenge # 0 /\ challenges'[flow'.challenge].verified
    <3>1. r.challenge \in 1..Len(c)
      BY <2>6, <2>8
    <3>2. PICK one \in Challenge : one = c[r.challenge]
      BY <3>1
    <3>3. [one EXCEPT !.verified = TRUE] \in Challenge /\ [one EXCEPT !.verified = TRUE].verified
      BY DEF Challenge
    <3>4. challenges' = [c EXCEPT ![r.challenge] = [one EXCEPT !.verified = TRUE]]
      BY <2>8, <3>2
    <3>5. /\ challenges' \in Seq(Challenge)
          /\ Len(challenges') = Len(c)
          /\ challenges'[r.challenge].verified
          /\ \A i \in 1..Len(c) : c[i].verified => challenges'[i].verified
      BY <3>1, <3>3, <3>4
    <3>6. CASE r.live
      BY <2>6, <2>8, <3>1, <3>5, <3>6
    <3>7. CASE ~r.live
      BY <2>6, <2>8, <3>1, <3>5, <3>7
    <3> QED BY <2>6, <3>5, <3>6, <3>7
  <2>9. \/ UNCHANGED <<flow, challenges>>
        \/ /\ r.action = "start"
           /\ challenges' = Append(c, [wallet |-> sessionD, verified |-> FALSE])
           /\ flow' = IF r.live THEN [f EXCEPT !.challenge = Len(challenges')] ELSE f
        \/ /\ r.action = "verify"
           /\ challenges' = [c EXCEPT ![r.challenge].verified = TRUE]
           /\ flow' = IF r.live THEN [f EXCEPT !.verified = TRUE] ELSE f
    BY <1>9, <2>1, <2>4, <2>5 DEF Dashboard!RunAnswer
  <2> QED BY <2>3, <2>7, <2>8, <2>9
<1>10. CASE UNCHANGED dashboardVars
  BY <1>10 DEF dashboardVars, DashboardInv, DashboardTyped, PanelInv
<1> QED BY <1>1, <1>2, <1>3, <1>4, <1>5, <1>6, <1>7, <1>8, <1>9, <1>10 DEF Dashboard!Next

LEMMA DashboardKeepsPromises ==
  ASSUME DashboardInv
  PROVE  /\ Dashboard!TypeOK
         /\ Dashboard!UnaskedAccountIsOwn /\ Dashboard!EveryRowOnce
         /\ Dashboard!VerifiedIsThisPost
<1>1. \A s \in Distinct : Dashboard!ToSet(s) \subseteq Tokens /\ Dashboard!IsInjective(s)
  BY DEF Distinct, Dashboard!ToSet
<1>2. account # None => account.wallet \in Wallets /\ account.rows \in Distinct
  BY DEF DashboardInv, DashboardTyped, Account
<1>3. flow.challenge \in 0..Len(challenges)
  BY DEF DashboardInv, DashboardTyped, PanelInv
<1> QED BY <1>1, <1>2, <1>3 DEF DashboardInv, DashboardTyped, PanelInv, Dashboard!TypeOK,
           Dashboard!UnaskedAccountIsOwn, Dashboard!EveryRowOnce, Dashboard!VerifiedIsThisPost

-----------------------------------------------------------------------------
(* ---------------------------- replies to the form ---------------------- *)

Lookup == [ticker : Tickers, aborted : BOOLEAN]
IsRows(rows) == DOMAIN rows \subseteq XIds

(* The fields of the form, and what each says of the others.               *)
FieldsFit(f) ==
  /\ f.wallet \in Wallets \cup {None}
  /\ f.ticker \in Tickers \cup {None} /\ f.answer \in {None, f.ticker}
  /\ f.source \in {"link", "connected"} /\ IsRows(f.rows)
  /\ f.selection \in Nat /\ f.image \in {0, f.selection, Create!Earlier}

CreateTyped ==
  /\ session \in Wallets \cup {None} /\ profile \in [Wallets -> Handles \cup {None}]
  /\ edits \in 0..MaxEdits /\ form.selection <= edits
  /\ prefill \in XIds \cup {None} /\ (adding # None => IsRows(adding))
  /\ Create!Saved => /\ draft.ticker \in Tickers \cup {None} /\ IsRows(draft.rows)
                     /\ draft.source \in {"link", "connected"}

(* The image that is awaited is the last one chosen, and a lookup that is  *)
(* not aborted is about the ticker in the field.                           *)
AwaitedInv ==
  /\ preparing \subseteq 1..form.selection
  /\ form.busy => form.selection \in preparing
  /\ lookups \subseteq Lookup
  /\ \A l \in lookups : ~l.aborted => l.ticker = form.ticker

LaunchesInv ==
  /\ sent # None => /\ sent = [form |-> sent.form, pc |-> sent.pc]
                    /\ sent.form.answer = sent.form.ticker
  /\ \A l \in launches :
       /\ l.request.answer = l.request.ticker
       /\ l.request.verified => l.request.x \in {None, l.x}

CreateInv ==
  FormInv /\ FieldsFit(form) /\ CreateTyped /\ AwaitedInv /\ LaunchesInv

LEMMA CreateInit == ASSUME PagesAssumption, Create!Init PROVE CreateInv
<1>1. PICK w \in Wallets \cup {None} : form = Create!Blank(w)
  BY DEF Create!Init
<1>2. form = [wallet |-> w, ticker |-> None, answer |-> None, x |-> None,
              source |-> "link", image |-> 0, selection |-> 0, busy |-> FALSE,
              rows |-> [x \in {} |-> 0], restored |-> w # None]
  BY <1>1 DEF Create!Blank, Create!NoRows
<1>3. FieldsFit(form) /\ form.selection = 0 /\ ~form.busy
  BY <1>2 DEF FieldsFit, IsRows
<1>4. ~Create!Saved
  BY DEF Create!Init, Create!Saved, Create!NoDraft
<1>5. profile \in [Wallets -> Handles \cup {None}]
  BY DEF Create!Init
<1>6. session = None /\ edits = 0 /\ prefill \in XIds \cup {None} /\ adding = None
      /\ preparing = {} /\ lookups = {} /\ sent = None /\ launches = {}
  BY DEF Create!Init
<1>7. CreateTyped
  BY <1>3, <1>4, <1>5, <1>6, PagesAssumption DEF CreateTyped, PagesAssumption
<1>8. AwaitedInv /\ LaunchesInv
  BY <1>3, <1>6 DEF AwaitedInv, LaunchesInv
<1> QED BY <1>3, <1>7, <1>8, FormInit DEF CreateInv

(* What Looked leaves is about the ticker, or aborted.                     *)
LEMMA LookedFits ==
  ASSUME lookups \subseteq Lookup, NEW ticker \in Tickers \cup {None}
  PROVE  /\ Create!Looked(ticker) \subseteq Lookup
         /\ \A l \in Create!Looked(ticker) : ~l.aborted => l.ticker = ticker
<1>1. ASSUME NEW l \in Create!Aborted(lookups) PROVE l \in Lookup /\ l.aborted
  <2>1. PICK k \in Lookup : l = [k EXCEPT !.aborted = TRUE]
    BY DEF Create!Aborted
  <2> QED BY <2>1 DEF Lookup
<1>2. ASSUME NEW l \in {[ticker |-> t, aborted |-> FALSE] : t \in {ticker} \ {None}}
      PROVE  l \in Lookup /\ l.ticker = ticker
  <2>1. PICK t \in {ticker} \ {None} : l = [ticker |-> t, aborted |-> FALSE]
    BY <1>2
  <2>2. t = ticker /\ t \in Tickers
    BY <2>1
  <2> QED BY <2>1, <2>2 DEF Lookup
<1> QED BY <1>1, <1>2 DEF Create!Looked

LEMMA RowsAdded ==
  ASSUME NEW rows, IsRows(rows), NEW x \in XIds
  PROVE  IsRows(Create!WithRow(rows, x)) /\ IsRows(Create!Added(rows, x))
BY DEF Create!WithRow, Create!Added, IsRows

(* Most actions change one or two fields of the form.                      *)
LEMMA FieldsChange ==
  ASSUME IsForm(form), FieldsFit(form), NEW v
  PROVE  /\ v \in Wallets \cup {None} => FieldsFit([form EXCEPT !.wallet = v])
         /\ IsRows(v) => FieldsFit([form EXCEPT !.rows = v])
         /\ v \in {None, form.ticker} => FieldsFit([form EXCEPT !.answer = v])
         /\ v \in {0, form.selection, Create!Earlier} => FieldsFit([form EXCEPT !.image = v])
         /\ FieldsFit([form EXCEPT !.busy = v])
         /\ [form EXCEPT !.rows = v].selection = form.selection
         /\ [form EXCEPT !.rows = v].busy = form.busy
         /\ [form EXCEPT !.rows = v].ticker = form.ticker
BY DEF IsForm, FieldsFit

LEMMA CreateStep ==
  ASSUME PagesAssumption, CreateInv, [Create!Next]_createVars
  PROVE  CreateInv'
<1>0. FormInv' /\ IsForm(form) /\ IsForm(form') /\ FieldsFit(form)
  BY FormStep DEF CreateInv, FormInv
<1> SUFFICES FieldsFit(form') /\ CreateTyped' /\ AwaitedInv' /\ LaunchesInv'
  BY <1>0 DEF CreateInv
<1> USE PagesAssumption
<1>1. ASSUME NEW ticker \in Tickers, Create!TypeTicker(ticker)
      PROVE  FieldsFit(form') /\ CreateTyped' /\ AwaitedInv' /\ LaunchesInv'
  <2>1. form' = [form EXCEPT !.ticker = ticker, !.answer = None]
    BY <1>1 DEF Create!TypeTicker
  <2>2. FieldsFit(form') /\ form'.selection = form.selection /\ form'.busy = form.busy
        /\ form'.ticker = ticker
    BY <1>0, <2>1 DEF IsForm, FieldsFit
  <2>3. lookups' = Create!Looked(ticker)
        /\ UNCHANGED <<session, profile, preparing, adding, prefill, draft, sent, launches>>
        /\ edits < MaxEdits /\ edits' = edits + 1
    BY <1>1 DEF Create!TypeTicker, Create!Edit
  <2>4. CreateTyped'
    BY <2>2, <2>3 DEF CreateInv, CreateTyped, PagesAssumption, Create!Saved, FieldsFit
  <2>5. AwaitedInv' /\ LaunchesInv'
    BY <2>2, <2>3, LookedFits DEF CreateInv, AwaitedInv, LaunchesInv
  <2> QED BY <2>2, <2>4, <2>5
<1>2. ASSUME NEW l \in lookups, Create!TickerAnswer(l)
      PROVE  FieldsFit(form') /\ CreateTyped' /\ AwaitedInv' /\ LaunchesInv'
  <2>1. FieldsFit(form') /\ form'.selection = form.selection /\ form'.busy = form.busy
        /\ form'.ticker = form.ticker
    <3>1. CASE Create!Heard(l)
      <4>1. form' = [form EXCEPT !.answer = l.ticker] /\ l.ticker = form.ticker
        BY <1>2, <3>1 DEF Create!TickerAnswer, Create!Heard, CreateInv, AwaitedInv
      <4> QED BY <1>0, <4>1 DEF IsForm, FieldsFit
    <3>2. CASE ~Create!Heard(l)
      BY <1>0, <1>2, <3>2 DEF Create!TickerAnswer
    <3> QED BY <3>1, <3>2
  <2>2. lookups' = lookups \ {l}
        /\ UNCHANGED <<session, profile, preparing, adding, prefill, draft, sent, launches, edits>>
    BY <1>2 DEF Create!TickerAnswer
  <2> QED BY <2>1, <2>2 DEF CreateInv, CreateTyped, AwaitedInv, LaunchesInv, Create!Saved
<1>3. CASE Create!SelectImage
  <2>1. form' = [form EXCEPT !.selection = @ + 1, !.image = 0, !.busy = TRUE]
        /\ preparing' = preparing \cup {form.selection + 1}
        /\ UNCHANGED <<session, profile, lookups, adding, prefill, draft, sent, launches>>
        /\ edits < MaxEdits /\ edits' = edits + 1
    BY <1>3 DEF Create!SelectImage, Create!Edit
  <2>2. /\ form'.selection = form.selection + 1 /\ form'.image = 0
        /\ form'.wallet = form.wallet /\ form'.ticker = form.ticker
        /\ form'.answer = form.answer /\ form'.source = form.source
        /\ form'.rows = form.rows
    BY <1>0, <2>1 DEF IsForm
  <2>3. FieldsFit(form')
    BY <1>0, <2>2 DEF FieldsFit
  <2>4. CreateTyped'
    BY <1>0, <2>1, <2>2 DEF CreateInv, CreateTyped, Create!Saved, PagesAssumption, FieldsFit
  <2>5. AwaitedInv' /\ LaunchesInv'
    BY <1>0, <2>1, <2>2 DEF CreateInv, AwaitedInv, LaunchesInv, FieldsFit
  <2> QED BY <2>3, <2>4, <2>5
<1>4. ASSUME NEW n \in preparing, Create!ImagePrepared(n)
      PROVE  FieldsFit(form') /\ CreateTyped' /\ AwaitedInv' /\ LaunchesInv'
  <2>1. preparing' = preparing \ {n}
        /\ UNCHANGED <<session, profile, lookups, adding, prefill, draft, sent, launches, edits>>
    BY <1>4 DEF Create!ImagePrepared
  <2>2. FieldsFit(form') /\ form'.selection = form.selection /\ form'.ticker = form.ticker
        /\ (form'.busy => form.busy /\ n # form.selection)
    <3>1. CASE n = form.selection
      <4>1. PICK image \in {form.image, n} :
              form' = [form EXCEPT !.image = image, !.busy = FALSE]
        BY <1>4, <3>1 DEF Create!ImagePrepared, Create!LastSelection
      <4>2. /\ form'.image = image /\ ~form'.busy /\ form'.selection = form.selection
            /\ form'.wallet = form.wallet /\ form'.ticker = form.ticker
            /\ form'.answer = form.answer /\ form'.source = form.source
            /\ form'.rows = form.rows
        BY <1>0, <4>1 DEF IsForm
      <4> QED BY <1>0, <3>1, <4>2 DEF FieldsFit
    <3>2. CASE n # form.selection
      BY <1>0, <1>4, <3>2 DEF Create!ImagePrepared, Create!LastSelection
    <3> QED BY <3>1, <3>2
  <2> QED BY <2>1, <2>2 DEF CreateInv, CreateTyped, AwaitedInv, LaunchesInv, Create!Saved
<1>5. ASSUME NEW handle \in Handles, Create!TypeProfileLink(handle)
      PROVE  FieldsFit(form') /\ CreateTyped' /\ AwaitedInv' /\ LaunchesInv'
  <2>1. form' = [form EXCEPT !.x = handle, !.source = "link"]
        /\ UNCHANGED <<session, profile, lookups, preparing, adding, prefill, draft, sent, launches>>
        /\ edits < MaxEdits /\ edits' = edits + 1
    BY <1>5 DEF Create!TypeProfileLink, Create!Edit
  <2>2. FieldsFit(form') /\ form'.selection = form.selection /\ form'.busy = form.busy
        /\ form'.ticker = form.ticker
    BY <1>0, <2>1 DEF IsForm, FieldsFit
  <2>3. CreateTyped'
    BY <1>0, <2>1, <2>2 DEF CreateInv, CreateTyped, Create!Saved, PagesAssumption, FieldsFit
  <2> QED BY <2>1, <2>2, <2>3 DEF CreateInv, AwaitedInv, LaunchesInv
<1>6. CASE Create!UseConnectedX
  <2>1. session' = form.wallet
        /\ UNCHANGED <<form, profile, lookups, preparing, adding, prefill, draft, sent, launches>>
        /\ edits < MaxEdits /\ edits' = edits + 1
    BY <1>6 DEF Create!UseConnectedX, Create!Edit
  <2>2. CreateTyped'
    BY <1>0, <2>1 DEF CreateInv, CreateTyped, Create!Saved, PagesAssumption, FieldsFit
  <2> QED BY <1>0, <2>1, <2>2 DEF CreateInv, AwaitedInv, LaunchesInv
<1>7. CASE Create!ConnectedProfile
  <2>1. UNCHANGED <<session, profile, lookups, preparing, adding, prefill, draft, sent, launches, edits>>
    BY <1>7 DEF Create!ConnectedProfile
  <2>2. FieldsFit(form') /\ form'.selection = form.selection /\ form'.busy = form.busy
        /\ form'.ticker = form.ticker
    BY <1>0, <1>7 DEF IsForm, FieldsFit, Create!ConnectedProfile
  <2> QED BY <2>1, <2>2 DEF CreateInv, CreateTyped, AwaitedInv, LaunchesInv, Create!Saved
<1>8. ASSUME NEW rows, IsRows(rows), form' = [form EXCEPT !.rows = rows],
             UNCHANGED <<session, profile, lookups, preparing, draft, sent, launches>>,
             adding' \in {adding, None}, prefill' \in {prefill, None},
             edits' = edits \/ (edits < MaxEdits /\ edits' = edits + 1)
      PROVE  FieldsFit(form') /\ CreateTyped' /\ AwaitedInv' /\ LaunchesInv'
  <2>1. FieldsFit(form') /\ form'.selection = form.selection /\ form'.busy = form.busy
        /\ form'.ticker = form.ticker
    BY <1>0, <1>8, FieldsChange
  <2>2. CreateTyped'
    BY <1>0, <1>8, <2>1 DEF CreateInv, CreateTyped, Create!Saved, PagesAssumption, FieldsFit
  <2> QED BY <1>8, <2>1, <2>2 DEF CreateInv, AwaitedInv, LaunchesInv
<1>9. IsRows(form.rows)
  BY <1>0 DEF FieldsFit
<1>10. ASSUME NEW x \in XIds, Create!AddRecipient(x)
       PROVE  FieldsFit(form') /\ CreateTyped' /\ AwaitedInv' /\ LaunchesInv'
  <2>1. IsRows(Create!Added(form.rows, x))
    BY <1>9, RowsAdded
  <2> QED BY <1>8, <1>10, <2>1 DEF Create!AddRecipient, Create!Edit
<1>11. ASSUME NEW x \in XIds, NEW share \in Shares, Create!SetShare(x, share)
       PROVE  FieldsFit(form') /\ CreateTyped' /\ AwaitedInv' /\ LaunchesInv'
  <2>1. IsRows([form.rows EXCEPT ![x] = share])
    BY <1>9 DEF IsRows
  <2>2. form' = [form EXCEPT !.rows = [form.rows EXCEPT ![x] = share]]
    BY <1>11 DEF Create!SetShare
  <2> QED BY <1>8, <1>11, <2>1, <2>2 DEF Create!SetShare, Create!Edit
<1>12. ASSUME NEW gone \in SUBSET XIds, Create!RemoveRecipients(gone)
       PROVE  FieldsFit(form') /\ CreateTyped' /\ AwaitedInv' /\ LaunchesInv'
  <2> DEFINE rest == [x \in DOMAIN form.rows \ gone |-> form.rows[x]]
  <2>1. IsRows(rest)
    BY <1>9 DEF IsRows
  <2>2. form' = [form EXCEPT !.rows = rest]
    BY <1>12 DEF Create!RemoveRecipients
  <2> HIDE DEF rest
  <2> QED BY <1>8, <1>12, <2>1, <2>2 DEF Create!RemoveRecipients, Create!Edit
<1>13. CASE Create!AddMe
  <2>1. session' = form.wallet /\ adding' = form.rows
        /\ UNCHANGED <<form, profile, lookups, preparing, prefill, draft, sent, launches>>
        /\ edits < MaxEdits /\ edits' = edits + 1
    BY <1>13 DEF Create!AddMe, Create!Edit
  <2>2. CreateTyped'
    BY <1>0, <2>1 DEF CreateInv, CreateTyped, Create!Saved, PagesAssumption, FieldsFit
  <2> QED BY <1>0, <2>1, <2>2 DEF CreateInv, AwaitedInv, LaunchesInv
<1>14. ASSUME NEW x \in XIds, Create!MyProfile(x)
       PROVE  FieldsFit(form') /\ CreateTyped' /\ AwaitedInv' /\ LaunchesInv'
  <2>1. IsRows(Create!Added(adding, x))
    BY <1>14, RowsAdded DEF Create!MyProfile, CreateInv, CreateTyped
  <2>2. form' = form \/ form' = [form EXCEPT !.rows = Create!Added(adding, x)]
    BY <1>14 DEF Create!MyProfile
  <2>3. form = [form EXCEPT !.rows = form.rows]
    BY <1>0 DEF IsForm
  <2> QED BY <1>8, <1>9, <1>14, <2>1, <2>2, <2>3 DEF Create!MyProfile
<1>15. CASE Create!PrefillReply
  <2>1. IsRows(Create!WithRow(form.rows, prefill))
    BY <1>9, <1>15, RowsAdded DEF Create!PrefillReply, CreateInv, CreateTyped
  <2>2. form' = [form EXCEPT !.rows = Create!WithRow(form.rows, prefill)]
    BY <1>15 DEF Create!PrefillReply
  <2> QED BY <1>8, <1>15, <2>1, <2>2 DEF Create!PrefillReply
<1>16. ASSUME NEW w \in Wallets \cup {None}, Create!Connect(w)
       PROVE  FieldsFit(form') /\ CreateTyped' /\ AwaitedInv' /\ LaunchesInv'
  <2> DEFINE kept == [form EXCEPT !.wallet = w, !.source = "link", !.restored = TRUE]
  <2>1. IsForm(kept) /\ FieldsFit(kept) /\ kept.ticker = form.ticker
        /\ kept.selection = form.selection /\ kept.busy = form.busy
        /\ kept.answer = form.answer
    <3> DEFINE linked == [form EXCEPT !.wallet = w]
               open == [linked EXCEPT !.source = "link"]
    <3>1. kept = [open EXCEPT !.restored = TRUE]
      OBVIOUS
    <3>2. IsForm(linked) /\ FieldsFit(linked) /\ linked.ticker = form.ticker
          /\ linked.selection = form.selection /\ linked.busy = form.busy
          /\ linked.answer = form.answer
      BY <1>0 DEF IsForm, FieldsFit
    <3> HIDE DEF linked
    <3>3. IsForm(open) /\ FieldsFit(open) /\ open.ticker = form.ticker
          /\ open.selection = form.selection /\ open.busy = form.busy
          /\ open.answer = form.answer
      BY <3>2 DEF IsForm, FieldsFit
    <3> HIDE DEF open, kept
    <3> QED BY <3>1, <3>3 DEF IsForm, FieldsFit
  <2>2. FieldsFit(form') /\ form'.selection = form.selection /\ form'.busy = form.busy
        /\ draft' \in {draft, Create!NoDraft}
    <3>1. CASE w = None \/ form.restored \/ prefill # None
      <4>1. form' = [kept EXCEPT !.restored = form.restored] /\ draft' = draft
        BY <1>16, <3>1 DEF Create!Connect
      <4> HIDE DEF kept
      <4> QED BY <2>1, <4>1 DEF IsForm, FieldsFit
    <3>2. CASE ~ (w = None \/ form.restored \/ prefill # None)
      <4>1. draft' = Create!NoDraft
        BY <1>16, <3>2 DEF Create!Connect
      <4>2. CASE Create!OwnDraft(w)
        <5> DEFINE image == IF draft.image = 0 THEN 0 ELSE Create!Earlier
                   reply == IF draft.ticker = form.ticker THEN kept.answer ELSE None
        <5>1. form' = [kept EXCEPT !.ticker = draft.ticker, !.x = draft.x,
                         !.answer = reply, !.source = draft.source,
                         !.image = image, !.rows = draft.rows]
          BY <1>16, <3>2, <4>2 DEF Create!Connect
        <5>2. /\ draft.ticker \in Tickers \cup {None} /\ IsRows(draft.rows)
              /\ draft.source \in {"link", "connected"}
          BY <4>2 DEF Create!OwnDraft, CreateInv, CreateTyped
        <5>3. image \in {0, Create!Earlier} /\ reply \in {None, draft.ticker}
          BY <2>1, <1>0 DEF FieldsFit
        <5> HIDE DEF kept, image, reply
        <5>4. /\ form'.ticker = draft.ticker /\ form'.answer = reply
              /\ form'.source = draft.source /\ form'.image = image
              /\ form'.rows = draft.rows /\ form'.selection = kept.selection
              /\ form'.busy = kept.busy /\ form'.wallet = kept.wallet
          BY <2>1, <5>1 DEF IsForm
        <5> QED BY <2>1, <4>1, <5>2, <5>3, <5>4 DEF FieldsFit
      <4>3. CASE ~Create!OwnDraft(w)
        <5>1. form' = kept
          BY <1>16, <3>2, <4>3 DEF Create!Connect
        <5> HIDE DEF kept
        <5> QED BY <2>1, <4>1, <5>1
      <4> QED BY <4>2, <4>3
    <3> QED BY <3>1, <3>2
  <2>3. lookups' = IF form'.ticker # form.ticker THEN Create!Looked(form'.ticker) ELSE lookups
    BY <1>16 DEF Create!Connect
  <2>4. UNCHANGED <<session, profile, preparing, adding, prefill, sent, launches>>
        /\ edits < MaxEdits /\ edits' = edits + 1
    BY <1>16 DEF Create!Connect, Create!Edit
  <2>5. CreateTyped'
    BY <1>0, <2>2, <2>4
    DEF CreateInv, CreateTyped, Create!Saved, Create!NoDraft, PagesAssumption, FieldsFit
  <2>6. AwaitedInv' /\ LaunchesInv'
    BY <2>2, <2>3, <2>4, LookedFits DEF CreateInv, AwaitedInv, LaunchesInv, FieldsFit
  <2> QED BY <2>2, <2>5, <2>6
<1>17. CASE Create!LeaveForX
  <2>1. /\ form' = [wallet |-> None, ticker |-> None, answer |-> None, x |-> None,
                    source |-> "link", image |-> 0, selection |-> 0, busy |-> FALSE,
                    rows |-> [x \in {} |-> 0], restored |-> FALSE]
        /\ lookups' = {} /\ preparing' = {} /\ adding' = None
        /\ prefill' = None /\ sent' = None
        /\ UNCHANGED <<session, launches>>
        /\ edits < MaxEdits /\ edits' = edits + 1
        /\ form.wallet # None
    BY <1>17 DEF Create!LeaveForX, Create!Edit, Create!Blank, Create!NoRows
  <2>2. /\ draft'.ticker = form.ticker /\ draft'.rows = form.rows
        /\ draft'.source = form.source
    BY <1>17 DEF Create!LeaveForX
  <2>3. profile' \in [Wallets -> Handles \cup {None}]
    BY <1>0, <1>17 DEF Create!LeaveForX, CreateInv, CreateTyped, FieldsFit
  <2>4. FieldsFit(form') /\ form'.selection = 0 /\ ~form'.busy
    BY <2>1 DEF FieldsFit, IsRows
  <2>5. CreateTyped'
    BY <1>0, <2>1, <2>2, <2>3, <2>4 DEF CreateInv, CreateTyped, PagesAssumption, FieldsFit
  <2>6. AwaitedInv' /\ LaunchesInv'
    BY <2>1, <2>4 DEF CreateInv, AwaitedInv, LaunchesInv
  <2> QED BY <2>4, <2>5, <2>6
<1>18. CASE Create!DraftExpires
  <2>1. draft' = [draft EXCEPT !.old = TRUE] /\ Create!Saved
        /\ UNCHANGED <<form, session, profile, lookups, preparing, adding, prefill, sent,
                       launches, edits>>
    BY <1>18 DEF Create!DraftExpires
  <2>2. /\ draft'.ticker = draft.ticker /\ draft'.rows = draft.rows
        /\ draft'.source = draft.source /\ draft'.owner = draft.owner
    BY <2>1 DEF CreateInv, FormInv, IsDraft
  <2> QED BY <1>0, <2>1, <2>2 DEF CreateInv, CreateTyped, AwaitedInv, LaunchesInv, Create!Saved
<1>19. CASE Create!OtherTab
  <2>1. /\ session' \in Wallets \cup {None}
        /\ profile' \in [Wallets -> Handles \cup {None}]
    BY <1>19 DEF Create!OtherTab, CreateInv, CreateTyped
  <2>2. UNCHANGED <<form, lookups, preparing, adding, prefill, draft, sent, launches>>
        /\ edits < MaxEdits /\ edits' = edits + 1
    BY <1>19 DEF Create!OtherTab, Create!Edit
  <2>3. CreateTyped'
    BY <1>0, <2>1, <2>2 DEF CreateInv, CreateTyped, Create!Saved, PagesAssumption, FieldsFit
  <2> QED BY <1>0, <2>2, <2>3 DEF CreateInv, AwaitedInv, LaunchesInv
<1>20. CASE Create!Submit
  <2>1. session' = form.wallet /\ sent' = [form |-> form, pc |-> "linked"]
        /\ form.answer = form.ticker
        /\ UNCHANGED <<form, profile, lookups, preparing, adding, prefill, draft, launches>>
        /\ edits < MaxEdits /\ edits' = edits + 1
    BY <1>0, <1>20 DEF Create!Submit, Create!Edit, Create!Reviewable, FieldsFit
  <2>2. CreateTyped'
    BY <1>0, <2>1 DEF CreateInv, CreateTyped, Create!Saved, PagesAssumption, FieldsFit
  <2> QED BY <1>0, <2>1, <2>2 DEF CreateInv, AwaitedInv, LaunchesInv
<1>21. CASE Create!CheckLinked
  <2>1. UNCHANGED <<form, session, profile, lookups, preparing, adding, prefill, draft,
                    launches, edits>>
    BY <1>21 DEF Create!CheckLinked
  <2>2. sent' # None => sent # None /\ sent' = [sent EXCEPT !.pc = "launch"]
    BY <1>21 DEF Create!CheckLinked
  <2>3. sent' # None => /\ sent' = [form |-> sent'.form, pc |-> sent'.pc]
                        /\ sent'.form.answer = sent'.form.ticker
    BY <2>2 DEF CreateInv, LaunchesInv
  <2> QED BY <1>0, <2>1, <2>3 DEF CreateInv, CreateTyped, AwaitedInv, LaunchesInv, Create!Saved
<1>22. CASE Create!LaunchRequest
  <2>1. UNCHANGED <<form, session, profile, lookups, preparing, adding, prefill, draft, edits>>
        /\ sent' = None /\ sent # None
    BY <1>22 DEF Create!LaunchRequest
  <2> DEFINE r == Create!Request(sent.form)
             l == [request |-> r, x |-> IF r.verified THEN profile[session] ELSE r.x]
  <2>2. \A k \in launches' : k \in launches \/ (k = l /\ (r.verified => Create!SameProfile(r)))
    BY <1>22 DEF Create!LaunchRequest
  <2>3. r.answer = r.ticker
    BY <2>1 DEF Create!Request, CreateInv, LaunchesInv
  <2>4. r.verified /\ Create!SameProfile(r) => r.x \in {None, profile[session]}
    BY DEF Create!SameProfile
  <2> HIDE DEF r
  <2>5. LaunchesInv'
    BY <2>1, <2>2, <2>3, <2>4 DEF CreateInv, LaunchesInv
  <2> QED BY <1>0, <2>1, <2>5 DEF CreateInv, CreateTyped, AwaitedInv, Create!Saved
<1>23. CASE UNCHANGED createVars
  BY <1>0, <1>23 DEF createVars, CreateInv, CreateTyped, AwaitedInv, LaunchesInv, Create!Saved
<1> QED BY <1>1, <1>2, <1>3, <1>4, <1>5, <1>6, <1>7, <1>10, <1>11, <1>12, <1>13, <1>14,
           <1>15, <1>16, <1>17, <1>18, <1>19, <1>20, <1>21, <1>22, <1>23 DEF Create!Next

LEMMA CreateKeepsPromises ==
  ASSUME PagesAssumption, CreateInv
  PROVE  /\ Create!TypeOK
         /\ Create!AnswerIsForTicker /\ Create!LastImageWins /\ Create!VerifiedIsAsShown
<1>1. form.image \in 0..Create!Earlier
  BY PagesAssumption DEF PagesAssumption, CreateInv, FieldsFit, CreateTyped, Create!Earlier
<1> QED BY <1>1 DEF CreateInv, FieldsFit, CreateTyped, AwaitedInv, LaunchesInv, IsRows,
           Create!TypeOK, Create!AnswerIsForTicker, Create!LastImageWins,
           Create!VerifiedIsAsShown

-----------------------------------------------------------------------------
(* ------------------------------- portfolios ---------------------------- *)

(* A tab: the portfolio it shows is of the wallet it was asked for.        *)
TabFields == {"wallet", "pc", "id", "ticket", "load", "answer", "shown"}
ShowsOwn(p) ==
  /\ DOMAIN p = TabFields
  /\ p.shown # None => p.shown.data = p.shown.for
PortfolioInv ==
  /\ DOMAIN tab = Tabs
  /\ \A t \in Tabs : ShowsOwn(tab[t])

LEMMA PortfolioInit == Portfolios!Init => PortfolioInv
<1> SUFFICES ASSUME Portfolios!Init PROVE PortfolioInv
  OBVIOUS
<1>1. \A w : ShowsOwn(Portfolios!IdleTab(w))
  BY DEF ShowsOwn, TabFields, Portfolios!IdleTab
<1>2. tab \in [Tabs -> {Portfolios!IdleTab(w) : w \in Wallets}]
  BY DEF Portfolios!Init
<1>3. ASSUME NEW t \in Tabs PROVE ShowsOwn(tab[t])
  <2>1. tab[t] \in {Portfolios!IdleTab(w) : w \in Wallets}
    BY <1>2
  <2>. QED  BY <2>1, <1>1
<1> QED BY <1>2, <1>3 DEF PortfolioInv

(* One tab changes, and what it shows is of the wallet it is shown for.    *)
LEMMA TabTurns ==
  ASSUME PortfolioInv, NEW t \in Tabs, NEW p, ShowsOwn(p),
         tab' = [tab EXCEPT ![t] = p]
  PROVE  PortfolioInv'
<1>1. DOMAIN tab' = Tabs
  BY DEF PortfolioInv
<1>2. ASSUME NEW u \in Tabs, NEW q, q = tab'[u] PROVE ShowsOwn(q)
  BY <1>2 DEF PortfolioInv
<1>3. \A u \in Tabs : ShowsOwn(tab[u])'
  BY <1>2 DEF ShowsOwn
<1> QED BY <1>1, <1>3 DEF PortfolioInv

(* Of what a tab holds, only what it shows matters.                        *)
LEMMA TabKeeps ==
  ASSUME PortfolioInv, DOMAIN tab' = Tabs,
         \A u \in Tabs : /\ DOMAIN tab'[u] = DOMAIN tab[u]
                         /\ tab'[u].shown = tab[u].shown
  PROVE  PortfolioInv'
<1>1. \A u \in Tabs : ShowsOwn(tab[u])'
  BY DEF PortfolioInv, ShowsOwn
<1> QED BY <1>1 DEF PortfolioInv

LEMMA PortfolioStep ==
  ASSUME PortfolioInv, [Portfolios!Next]_portfolioVars PROVE PortfolioInv'
<1>u. CASE UNCHANGED tab
  BY <1>u DEF PortfolioInv, ShowsOwn
<1>t. \A t \in Tabs : t \in DOMAIN tab /\ DOMAIN tab[t] = TabFields
  BY DEF PortfolioInv, ShowsOwn
<1>1. ASSUME NEW t \in Tabs, Portfolios!Authenticate(t) PROVE PortfolioInv'
  <2>1. CASE tab' = [tab EXCEPT ![t].pc = "ready"]
    BY <2>1, <1>t, TabKeeps DEF TabFields, PortfolioInv
  <2>2. CASE tab' = [tab EXCEPT ![t].pc = "signing", ![t].id = issued']
    BY <2>2, <1>t, TabKeeps DEF TabFields, PortfolioInv
  <2> QED BY <1>1, <2>1, <2>2 DEF Portfolios!Authenticate
<1>2. ASSUME NEW t \in Tabs,
             \/ Portfolios!SignMessage(t) \/ Portfolios!Decline(t)
             \/ Portfolios!StartOAuth(t)
      PROVE  PortfolioInv'
  <2>1. PICK x : tab' = [tab EXCEPT ![t].pc = x]
    BY <1>2 DEF Portfolios!SignMessage, Portfolios!Decline, Portfolios!StartOAuth
  <2> QED BY <2>1, <1>t, TabKeeps DEF TabFields, PortfolioInv
<1>3. ASSUME NEW t \in Tabs, Portfolios!BeginXLink(t) PROVE PortfolioInv'
  <2>1. CASE tab' = [tab EXCEPT ![t].pc = "idle"]
    BY <2>1, <1>t, TabKeeps DEF TabFields, PortfolioInv
  <2>2. CASE \E x : tab' = [tab EXCEPT ![t].pc = "ticket", ![t].ticket = x]
    BY <2>2, <1>t, TabKeeps DEF TabFields, PortfolioInv
  <2> QED BY <1>3, <2>1, <2>2 DEF Portfolios!BeginXLink
<1>4. ASSUME NEW t \in Tabs,
             \/ Portfolios!CancelOAuth(t) \/ Portfolios!XCallback(t)
             \/ \E x \in XIds : Portfolios!OAuthCallback(t, x)
      PROVE  PortfolioInv'
  <2>1. \E x, y : tab' = [tab EXCEPT ![t].pc = x, ![t].ticket = y]
    <3>1. CASE Portfolios!CancelOAuth(t) \/ Portfolios!XCallback(t)
      BY <3>1 DEF Portfolios!CancelOAuth, Portfolios!XCallback
    <3>2. ASSUME NEW x \in XIds, Portfolios!OAuthCallback(t, x)
          PROVE  \E y, z : tab' = [tab EXCEPT ![t].pc = y, ![t].ticket = z]
      <4>1. PICK y : y = IF jar.state = t THEN "asserted" ELSE "idle"
        OBVIOUS
      <4>2. PICK z : z = IF jar.state = t
                         THEN [nonce |-> jar.appLink.nonce, xId |-> x,
                               wallet |-> jar.appLink.wallet] ELSE None
        OBVIOUS
      <4>3. tab' = [tab EXCEPT ![t].pc = y, ![t].ticket = z]
        BY <3>2, <4>1, <4>2 DEF Portfolios!OAuthCallback
      <4> QED BY <4>3
    <3> QED BY <1>4, <3>1, <3>2
  <2> QED BY <2>1, <1>t, TabKeeps DEF TabFields, PortfolioInv
<1>5. ASSUME NEW t \in Tabs, Portfolios!LoadPortfolio(t) PROVE PortfolioInv'
  <2>1. CASE tab' = [tab EXCEPT ![t].load = tab[t].wallet, ![t].answer = None]
    BY <2>1, <1>t, TabKeeps DEF TabFields, PortfolioInv
  <2>2. CASE tab' = [tab EXCEPT ![t].shown = None]
    <3>1. PICK p : p = [tab[t] EXCEPT !.shown = None]
      OBVIOUS
    <3>2. ShowsOwn(p)
      BY <3>1, <1>t DEF ShowsOwn, TabFields
    <3>3. tab' = [tab EXCEPT ![t] = p]
      BY <2>2, <3>1
    <3> QED BY <3>2, <3>3, TabTurns
  <2> QED BY <1>5, <2>1, <2>2 DEF Portfolios!LoadPortfolio
<1>6. ASSUME NEW t \in Tabs, Portfolios!ServePortfolio(t) PROVE PortfolioInv'
  <2>1. \E x : tab' = [tab EXCEPT ![t].answer = x]
    BY <1>6 DEF Portfolios!ServePortfolio
  <2> QED BY <2>1, <1>t, TabKeeps DEF TabFields, PortfolioInv
<1>7. ASSUME NEW t \in Tabs, Portfolios!ShowPortfolio(t) PROVE PortfolioInv'
  <2>1. PICK s : s = IF tab[t].answer # None /\ Portfolios!AnswerIsOwn(t)
                     THEN [for |-> tab[t].load, data |-> tab[t].answer] ELSE None
    OBVIOUS
  <2>2. s # None => s.data = s.for
    BY <2>1 DEF Portfolios!AnswerIsOwn
  <2>3. PICK p : p = [tab[t] EXCEPT !.load = None, !.answer = None, !.shown = s]
    OBVIOUS
  <2>4. ShowsOwn(p)
    BY <2>2, <2>3, <1>t DEF ShowsOwn, TabFields
  <2>5. tab' = [tab EXCEPT ![t].load = None, ![t].answer = None, ![t].shown = s]
    BY <1>7, <2>1 DEF Portfolios!ShowPortfolio
  <2>6. tab' = [tab EXCEPT ![t] = p]
    BY <2>3, <2>5, <1>t DEF TabFields
  <2> QED BY <2>4, <2>6, TabTurns
<1>8. ASSUME NEW t \in Tabs, NEW w \in Wallets, Portfolios!SwitchWallet(t, w)
      PROVE  PortfolioInv'
  <2>1. tab' = [tab EXCEPT ![t].wallet = w, ![t].pc = "idle",
                           ![t].load = None, ![t].answer = None]
    BY <1>8 DEF Portfolios!SwitchWallet
  <2> QED BY <2>1, <1>t, TabKeeps DEF TabFields, PortfolioInv
<1>9. ASSUME NEW h \in Handlers, Portfolios!TakeChallenge(h) \/ Portfolios!OpenSession(h)
      PROVE  PortfolioInv'
  <2>1. UNCHANGED tab \/ \E C, x : tab' = [t \in Tabs |->
          IF t \in C THEN [tab[t] EXCEPT !.pc = x] ELSE tab[t]]
    <3>1. CASE Portfolios!OpenSession(h)
      <4>1. \E C : C = {t \in Tabs : tab[t].pc = "verifying"
                                       /\ tab[t].id = verifying[h].row.id}
        OBVIOUS
      <4> QED BY <4>1, <3>1 DEF Portfolios!OpenSession
    <3>2. CASE Portfolios!TakeChallenge(h)
      <4>1. PICK C : C = {t \in Tabs : tab[t].pc = "verifying"
                                         /\ tab[t].id = verifying[h].id}
        OBVIOUS
      <4>2. CASE tab' = [t \in Tabs |->
                   IF tab[t].pc = "verifying" /\ tab[t].id = verifying[h].id
                   THEN [tab[t] EXCEPT !.pc = "idle"] ELSE tab[t]]
        <5>1. tab' = [t \in Tabs |->
                IF t \in C THEN [tab[t] EXCEPT !.pc = "idle"] ELSE tab[t]]
          BY <4>1, <4>2
        <5> QED BY <5>1
      <4> QED BY <3>2, <4>2 DEF Portfolios!TakeChallenge
    <3> QED BY <1>9, <3>1, <3>2
  <2>2. CASE UNCHANGED tab
    BY <2>2, <1>u
  <2>3. ASSUME NEW C, NEW x, tab' = [t \in Tabs |->
                 IF t \in C THEN [tab[t] EXCEPT !.pc = x] ELSE tab[t]]
        PROVE  PortfolioInv'
    BY <2>3, <1>t, TabKeeps DEF TabFields
  <2> QED BY <2>1, <2>2, <2>3
<1>10. ASSUME \/ \E t \in Tabs : Portfolios!Logout(t)
              \/ \E h \in Handlers : \E id \in signatures : Portfolios!ReceiveVerify(h, id)
              \/ Portfolios!Expire
       PROVE  PortfolioInv'
  BY <1>10, <1>u DEF Portfolios!Logout, Portfolios!ReceiveVerify, Portfolios!Expire
<1>11. CASE UNCHANGED portfolioVars
  BY <1>11, <1>u DEF portfolioVars
<1> QED BY <1>1, <1>2, <1>3, <1>4, <1>5, <1>6, <1>7, <1>8, <1>9, <1>10, <1>11
       DEF Portfolios!Next

LEMMA PortfolioKeepsPromises == PortfolioInv => Portfolios!PortfolioIsOwn
BY DEF PortfolioInv, ShowsOwn, Portfolios!PortfolioIsOwn

-----------------------------------------------------------------------------
(* The promises of these parts *)

(* A draft comes back to the wallet that wrote it, a deployment that was   *)
(* ever used is no candidate for retirement, and a pair keeps the curve it *)
(* was deployed with (launch-draft.ts, retirement.ts, setup.ts).           *)
THEOREM PromisesAreKept == MCClientsSpec => StepsKeepPromises
<1> DEFINE I == /\ part = "create" => FormInv
                /\ part = "retirement" => UnusedInv
                /\ part = "setup" => SetupInv
           DraftStep == part = "create" => Create!DraftIsItsOwners
           ReviewStays == part = "retirement" => Retirement!CandidateIsUnused
           CurveStays == part = "setup" => Setup!CurveIsKept
<1>1. MCClientsInit => I
  BY FormInit, UnusedInit, SetupInit, SetupAssumption DEF MCClientsInit
<1>2. ASSUME I, [MCClientsNext]_clientVars PROVE I' /\ DraftStep /\ ReviewStays /\ CurveStays
  <2>1. part' = part
    BY <1>2 DEF MCClientsNext, clientVars
  <2>2. CASE part = "create"
    <3>1. FormInv /\ [Create!Next]_createVars
      BY <1>2, <2>2 DEF MCClientsNext, clientVars
    <3> QED BY <2>1, <2>2, <3>1, FormStep
  <2>3. CASE part = "retirement"
    <3>1. UnusedInv /\ [Retirement!Next]_retirementVars
      BY <1>2, <2>3 DEF MCClientsNext, clientVars
    <3> QED BY <2>1, <2>3, <3>1, RetirementStep, CandidatesAreUnused
  <2>4. CASE part = "setup"
    <3>1. SetupInv /\ [Setup!Next]_setupVars
      BY <1>2, <2>4 DEF MCClientsNext, clientVars
    <3> QED BY <2>1, <2>4, <3>1, SetupStep, CurvesAreKept, SetupAssumption
  <2> QED BY <2>1, <2>2, <2>3, <2>4
<1>3. I /\ [MCClientsNext]_clientVars => I'
  BY <1>2
<1>4. I /\ [MCClientsNext]_clientVars =>
        [DraftStep]_createVars /\ [ReviewStays]_retirementVars /\ [CurveStays]_setupVars
  BY <1>2
<1> QED BY <1>1, <1>3, <1>4, PTL DEF MCClientsSpec, StepsKeepPromises

(* An operator's tool that is killed and run again repeats no transaction  *)
(* that may still land and pays no more than was approved; the owner pays  *)
(* for one pool configuration, unless reconcile wrote a landed one off     *)
(* (deployment-console.ts, the lifecycle script, setup.ts).                *)
THEOREM OperatorsAreSafe == MCClientsSpec => []OperatorsSpendOnce
<1> DEFINE I == /\ part = "console" => ConsoleSafe
                /\ part = "lifecycle" => ScriptInv
                /\ part = "setup" => SetupSafe
<1>1. MCClientsInit => I
  <2> SUFFICES ASSUME MCClientsInit PROVE I
    OBVIOUS
  <2>1. part = "console" => ConsoleSafe
    <3>1. ASSUME Console!Init PROVE height \in 0..MaxHeight
      BY <3>1, ConsoleAssumption DEF Console!Init, ConsoleAssumption
    <3> QED BY <3>1, InitInv, BudgetInit, ConsoleAssumption DEF MCClientsInit, ConsoleSafe
  <2>2. part = "lifecycle" => ScriptInv
    BY ScriptInit, LifecycleAssumption DEF MCClientsInit
  <2>3. part = "setup" => SetupSafe
    <3>1. ASSUME Setup!Init PROVE heightY \in 0..LastBlock
      BY <3>1, SetupAssumption DEF Setup!Init, SetupAssumption
    <3> QED BY <3>1, SetupInit, SetupAssumption DEF MCClientsInit, SetupSafe
  <2> QED BY <2>1, <2>2, <2>3
<1>2. I /\ [MCClientsNext]_clientVars => I'
  <2> SUFFICES ASSUME I, [MCClientsNext]_clientVars PROVE I'
    OBVIOUS
  <2>1. part' = part
    BY DEF MCClientsNext, clientVars
  <2>2. CASE part = "console"
    <3>1. ConsoleSafe /\ [Console!Next]_(Console!vars)
      BY <2>2 DEF MCClientsNext, clientVars, consoleVars, Console!vars
    <3>2. ConsoleSafe'
      BY <3>1, ConsoleStep, BudgetStep, ConsoleHeight, ConsoleAssumption DEF ConsoleSafe
    <3> QED BY <2>1, <2>2, <3>2
  <2>3. CASE part = "lifecycle"
    <3>1. ScriptInv /\ [Lifecycle!Next]_lifecycleVars
      BY <2>3 DEF MCClientsNext, clientVars
    <3> QED BY <2>1, <2>3, <3>1, ScriptStep, LifecycleAssumption
  <2>4. CASE part = "setup"
    <3>1. SetupSafe /\ [Setup!Next]_setupVars
      BY <2>4 DEF MCClientsNext, clientVars
    <3>2. SetupSafe'
      BY <3>1, SetupStep, SetupHeight, SetupAssumption DEF SetupSafe
    <3> QED BY <2>1, <2>4, <3>2
  <2> QED BY <2>1, <2>2, <2>3, <2>4
<1>3. I => OperatorsSpendOnce
  BY ConsoleKeepsPromises, ScriptKeepsPromises, SetupKeepsPromises, ConsoleAssumption,
     LifecycleAssumption, SetupAssumption DEF OperatorsSpendOnce, SetupSafe
<1> QED BY <1>1, <1>2, <1>3, PTL DEF MCClientsSpec

(* Replies are shown for what they answer, in whatever order they come:    *)
(* the ticker, image and connected account of the form, the rows of the    *)
(* market, the portfolio of the connected wallet; and on the fee dashboard *)
(* an account that the page loads by itself is the connected wallet's, its *)
(* rows come once, and a post shown as verified was. An account loaded by  *)
(* a button there may be another wallet's (create.tsx, market-results.ts,  *)
(* dashboard.tsx, portfolio-view.tsx).                                     *)
THEOREM RepliesAreTheirs == MCClientsSpec => []RepliesMatch
<1> DEFINE I == /\ part = "create" => CreateInv
                /\ part = "feed" => FeedInv
                /\ part = "dashboard" => DashboardInv
                /\ part = "portfolios" => PortfolioInv
<1>1. MCClientsInit => I
  BY CreateInit, FeedInit, DashboardInit, PortfolioInit, PagesAssumption DEF MCClientsInit
<1>2. I /\ [MCClientsNext]_clientVars => I'
  <2> SUFFICES ASSUME I, [MCClientsNext]_clientVars PROVE I'
    OBVIOUS
  <2>1. part' = part
    BY DEF MCClientsNext, clientVars
  <2>2. CASE part = "create"
    <3>1. CreateInv /\ [Create!Next]_createVars
      BY <2>2 DEF MCClientsNext, clientVars
    <3> QED BY <2>1, <2>2, <3>1, CreateStep, PagesAssumption
  <2>3. CASE part = "feed"
    <3>1. FeedInv /\ [Feed!Next]_feedVars
      BY <2>3 DEF MCClientsNext, clientVars
    <3> QED BY <2>1, <2>3, <3>1, FeedStep, PagesAssumption
  <2>4. CASE part = "dashboard"
    <3>1. DashboardInv /\ [Dashboard!Next]_dashboardVars
      BY <2>4 DEF MCClientsNext, clientVars
    <3> QED BY <2>1, <2>4, <3>1, DashboardStep, PagesAssumption
  <2>5. CASE part = "portfolios"
    <3>1. PortfolioInv /\ [Portfolios!Next]_portfolioVars
      BY <2>5 DEF MCClientsNext, clientVars
    <3> QED BY <2>1, <2>5, <3>1, PortfolioStep
  <2> QED BY <2>1, <2>2, <2>3, <2>4, <2>5
<1>3. I => RepliesMatch
  BY CreateKeepsPromises, FeedKeepsPromises, DashboardKeepsPromises,
     PortfolioKeepsPromises, PagesAssumption DEF RepliesMatch
<1> QED BY <1>1, <1>2, <1>3, PTL DEF MCClientsSpec
=============================================================================
