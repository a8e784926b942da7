------------------------ MODULE LaunchRegistryProofs ------------------------
(***************************************************************************)
(* A launch whose pool exists holds its ticker until it is released, for   *)
(* any number of launches, requests and blocks, provided the chain never   *)
(* drops a block (~Forks).  TypeCorrect and the last section, which shows  *)
(* that only recorded wires run, hold also when it does.                   *)
(***************************************************************************)
EXTENDS LaunchRegistry, TLAPS

(* A request that sends, looks up or may resend a wire has one.            *)
Carrying(w) ==
  worker[w] # None /\
  (\/ worker[w].at \in {"check", "persist", "send", "status", "rebroadcast"}
   \/ worker[w].at = "height" /\ worker[w].resend)
  => worker[w].wire \in Wire

TypeInv ==
  /\ TypeOK
  /\ \A w \in Workers : Carrying(w)
  /\ \A i \in Intents : intents[i] = "submitted" => signature[i] \in Wire

(* The transaction of a launch did not succeed and no longer can.          *)
Spent(l) ==
  /\ ~HasPool(l)
  /\ landed[l] # {} \/ height >= validThrough[l]

(* Nobody is about to write the rows of a confirmed launch.                *)
Quiet(l) ==
  /\ intents[l] = "confirmed"
  /\ \A w \in Workers : Serving(w, l) => worker[w].at = "read"

Rows(l) ==
  /\ l \in launching => tokens[l] = "draft" /\ intents[l] = "absent"
  /\ tokens[l] = "absent" => intents[l] = "absent"
  /\ intents[l] = "absent" => tokens[l] \in {"absent", "draft"}

(* Before it is stored, an intent has no trace anywhere.                   *)
Fresh(l) ==
  intents[l] = "absent" =>
    /\ signature[l] = None /\ sent[l] = {} /\ landed[l] = {}
    /\ \A w \in Workers : ~Serving(w, l)

(* A launch only ever has the wire that was reviewed.                      *)
OneWire(l) ==
  /\ message[l] = "reviewed"
  /\ signature[l] \in {None, "reviewed"}
  /\ sent[l] \subseteq {"reviewed"}
  /\ \A x \in landed[l] : x.wire = "reviewed"
  /\ \A x, y \in landed[l] : x = y
  /\ \A w \in Workers : Serving(w, l) => worker[w].wire \in {None, "reviewed"}

InTime(l) == \A x \in landed[l] : x.at <= validThrough[l]

(* The claims table and the tokens table agree.                            *)
Holding(l) ==
  /\ tokens[l] \in {"draft", "active"} => claims[tickerOf[l]] = l
  /\ \A t \in Tickers :
       claims[t] = l => t = tickerOf[l] /\ tokens[l] \in {"draft", "active"}

Ended(l) ==
  /\ tokens[l] \in {"failed", "expired"} => Spent(l)
  /\ tokens[l] = "released" => Quiet(l)

(* Tokens and intents tell what happened to the pool.                      *)
Settled(l) ==
  /\ tokens[l] = "active" \/ intents[l] = "confirmed" => PoolExists(l)
  /\ intents[l] \in {"failed", "expired"} => Spent(l)

(* What a request knows of the launch it is about to write about.          *)
Justified(w) ==
  worker[w] # None /\ worker[w].id \in Launches =>
    /\ worker[w].at \in {"failed", "giveUp", "fail", "expire"} =>
         Spent(worker[w].id)
    /\ worker[w].at \in {"activate", "confirm"} => PoolExists(worker[w].id)
    /\ worker[w].at = "pool" => height > validThrough[worker[w].id]

Decided(w) ==
  releasing[w] # None =>
    /\ releasing[w].pools = {releasing[w].claim}
    /\ tokens[releasing[w].claim] \in {"active", "released"}
    /\ Quiet(releasing[w].claim)

LaunchInv(l) ==
  /\ Rows(l) /\ Fresh(l) /\ OneWire(l) /\ InTime(l) /\ Holding(l) /\ Ended(l)
  /\ Settled(l)

IInv ==
  /\ TypeInv
  /\ \A l \in Launches : LaunchInv(l)
  /\ \A w \in Workers : Justified(w) /\ Decided(w)

-----------------------------------------------------------------------------

LEMMA TypeInit == Init => TypeInv
  BY RegistryAssumption
  DEF Init, TypeInv, TypeOK, Carrying, Status, Wire, Intents

Carries(step, resend) ==
  \/ step \in {"check", "persist", "send", "status", "rebroadcast"}
  \/ step = "height" /\ resend

WorkersTyped ==
  /\ worker \in [Workers -> Job \cup {None}]
  /\ \A w \in Workers : Carrying(w)

(* The three ways a handler changes what its request is about to do.       *)
LEMMA NowTyped ==
  ASSUME WorkersTyped, NEW w \in Workers, NEW i \in Intents,
         NEW x \in Wire \cup {None}, NEW resend \in BOOLEAN, NEW step \in Step,
         Carries(step, resend) => x \in Wire, Now(w, i, x, resend, step)
  PROVE  WorkersTyped'
  BY DEF WorkersTyped, Carrying, Carries, Now, Job

LEMMA ThenTyped ==
  ASSUME WorkersTyped, NEW w \in Workers, worker[w] # None, NEW step \in Step,
         Carries(step, worker[w].resend) => worker[w].wire \in Wire,
         Then(w, step)
  PROVE  WorkersTyped'
<1>1. worker[w] \in Job
  BY DEF WorkersTyped
<1>2. [worker[w] EXCEPT !.at = step] \in Job
  BY <1>1 DEF Job
<1>3. worker' = [worker EXCEPT ![w] = [worker[w] EXCEPT !.at = step]]
  BY DEF Then, WorkersTyped
<1>4. Carrying(w)'
  BY <1>1, <1>3 DEF WorkersTyped, Carrying, Carries, Job
<1> QED
  BY <1>2, <1>3, <1>4 DEF WorkersTyped, Carrying

LEMMA DoneTyped ==
  ASSUME WorkersTyped, NEW w \in Workers, Done(w)
  PROVE  WorkersTyped'
  BY DEF WorkersTyped, Carrying, Done

(* Types, one action at a time. *)
LEMMA TypeStep == TypeInv /\ [Next]_vars => TypeInv'
<1> SUFFICES ASSUME TypeInv, [Next]_vars PROVE TypeInv'
  OBVIOUS
<1> USE RegistryAssumption
<1> USE DEF TypeInv, TypeOK, Carrying, Status, Wire, Job, Step, Decision, Landing,
            dbVars, chainVars
<1>1. ASSUME NEW l \in Launches, Reserve(l) PROVE TypeInv'
  BY <1>1 DEF Reserve
<1>2. ASSUME NEW l \in Launches, UndoReservation(l) PROVE TypeInv'
  BY <1>2 DEF UndoReservation, WithoutClaim
<1>3. ASSUME NEW i \in Intents, PrepareIntent(i) PROVE TypeInv'
  BY <1>3 DEF PrepareIntent
<1>4. ASSUME NEW i \in Intents, ReviewChangedFee(i) PROVE TypeInv'
  BY <1>4 DEF ReviewChangedFee
<1>5. ASSUME NEW w \in Workers, NEW i \in Intents, Reconcile(w, i) PROVE TypeInv'
  BY <1>5 DEF Reconcile, Now, OnlyWorker
<1>6. ASSUME NEW w \in Workers, NEW i \in Intents, NEW s \in Wire, Submit(w, i, s)
      PROVE TypeInv'
  <2>1. WorkersTyped
    BY DEF WorkersTyped
  <2>2. CASE Now(w, i, None, FALSE, "read")
    BY <1>6, <2>1, <2>2, NowTyped DEF Submit, OnlyWorker, WorkersTyped, Carries
  <2>3. CASE Now(w, i, s, TRUE, "check")
    BY <1>6, <2>1, <2>3, NowTyped DEF Submit, OnlyWorker, WorkersTyped, Carries
  <2> QED
    BY <1>6, <2>2, <2>3 DEF Submit
<1>7. ASSUME NEW w \in Workers, CheckHeight(w) PROVE TypeInv'
  <2>1. WorkersTyped /\ worker[w] # None /\ worker[w] \in Job /\ worker[w].at = "check"
    BY <1>7 DEF WorkersTyped, CheckHeight, Doing
  <2>2. worker[w].id \in Intents /\ worker[w].wire \in Wire
    BY <2>1
  <2>3. CASE Now(w, worker[w].id, None, TRUE, "read")
    <3>1. WorkersTyped'
      BY <2>1, <2>2, <2>3, NowTyped DEF Carries
    <3> QED
      BY <1>7, <3>1 DEF CheckHeight, OnlyWorker, WorkersTyped
  <2>4. CASE Then(w, "persist")
    <3>1. WorkersTyped'
      BY <2>1, <2>2, <2>4, ThenTyped
    <3> QED
      BY <1>7, <3>1 DEF CheckHeight, OnlyWorker, WorkersTyped
  <2> QED
    BY <1>7, <2>3, <2>4 DEF CheckHeight
<1>8. ASSUME NEW w \in Workers, Persist(w) PROVE TypeInv'
  <2> DEFINE i == worker[w].id
  <2>1. WorkersTyped /\ worker[w] # None /\ worker[w] \in Job /\ worker[w].at = "persist"
    BY <1>8 DEF WorkersTyped, Persist, Doing
  <2>2. i \in Intents /\ worker[w].wire \in Wire
    BY <2>1
  <2>3. CASE StillPrepared(i)
    <3>1. WorkersTyped'
      BY <1>8, <2>1, <2>2, <2>3, ThenTyped DEF Persist
    <3>2. /\ intents' = [intents EXCEPT ![i] = "submitted"]
          /\ signature' = [signature EXCEPT ![i] = worker[w].wire]
          /\ message' = [message EXCEPT ![i] = worker[w].wire]
      BY <1>8, <2>3 DEF Persist
    <3> QED
      BY <1>8, <2>2, <3>1, <3>2 DEF Persist, WorkersTyped
  <2>4. CASE ~StillPrepared(i)
    <3>1. WorkersTyped'
      BY <1>8, <2>1, <2>2, <2>4, NowTyped DEF Persist, Carries
    <3> QED
      BY <1>8, <2>4, <3>1 DEF Persist, WorkersTyped
  <2> QED
    BY <2>3, <2>4
<1>9. ASSUME NEW w \in Workers, Send(w) PROVE TypeInv'
  BY <1>9 DEF Send, Doing, Done
<1>10. ASSUME NEW w \in Workers, ReadIntent(w) PROVE TypeInv'
  <2> DEFINE i == worker[w].id
             resend == worker[w].resend /\ intents[i] = "submitted"
             step == IF signature[i] = None THEN "height" ELSE "status"
  <2>1. WorkersTyped /\ worker[w] \in Job /\ i \in Intents
    BY <1>10 DEF WorkersTyped, ReadIntent, Doing
  <2>2. CASE intents[i] \in Terminal
    BY <1>10, <2>1, <2>2, DoneTyped DEF ReadIntent, OnlyWorker, WorkersTyped
  <2>3. CASE intents[i] \notin Terminal
    <3>1. Now(w, i, signature[i], resend, step)
      BY <1>10, <2>3 DEF ReadIntent
    <3>2. resend \in BOOLEAN /\ step \in Step /\ signature[i] \in Wire \cup {None}
      BY <2>1
    <3>3. Carries(step, resend) => signature[i] \in Wire
      BY <2>1 DEF Carries
    <3>4. WorkersTyped'
      BY <2>1, <3>1, <3>2, <3>3, NowTyped
    <3> QED
      BY <1>10, <3>4 DEF ReadIntent, OnlyWorker, WorkersTyped
  <2> QED
    BY <2>2, <2>3
<1>11. ASSUME NEW w \in Workers, ReadStatus(w) PROVE TypeInv'
  BY <1>11 DEF ReadStatus, Doing, Now, AfterStatus, SeenStatus, TrueStatus, OnlyWorker
<1>12. ASSUME NEW w \in Workers, CheckFailure(w) PROVE TypeInv'
  BY <1>12 DEF CheckFailure, Doing, Then, OnlyWorker
<1>13. ASSUME NEW w \in Workers, GiveUp(w) PROVE TypeInv'
  <2>1. WorkersTyped /\ worker[w] # None
    BY <1>13 DEF WorkersTyped, GiveUp, Doing
  <2>2. WorkersTyped'
    BY <1>13, <2>1, ThenTyped DEF GiveUp, Doing, Carries
  <2> QED
    BY <1>13, <2>2 DEF GiveUp, WorkersTyped, WithoutClaim
<1>14. ASSUME NEW w \in Workers, Fail(w) PROVE TypeInv'
  BY <1>14 DEF Fail, Doing, Done
<1>15. ASSUME NEW w \in Workers, Activate(w) PROVE TypeInv'
  <2>1. WorkersTyped /\ worker[w] # None
    BY <1>15 DEF WorkersTyped, Activate, Doing
  <2>2. WorkersTyped'
    BY <1>15, <2>1, ThenTyped DEF Activate, Doing, Carries
  <2> QED
    BY <1>15, <2>2 DEF Activate, WorkersTyped
<1>16. ASSUME NEW w \in Workers, Confirm(w) PROVE TypeInv'
  BY <1>16 DEF Confirm, Doing, Done
<1>17. ASSUME NEW w \in Workers, ReadHeight(w) PROVE TypeInv'
  BY <1>17 DEF ReadHeight, Doing, Then, Done, AfterExpiry, OnlyWorker
<1>18. ASSUME NEW w \in Workers, ReadPool(w) PROVE TypeInv'
  BY <1>18 DEF ReadPool, Doing, Then, Done, OnlyWorker
<1>19. ASSUME NEW w \in Workers, Expire(w) PROVE TypeInv'
  BY <1>19 DEF Expire, Doing, Done, WithoutClaim
<1>20. ASSUME NEW w \in Workers, NEW t \in Tickers, FindInactive(w, t) PROVE TypeInv'
  BY <1>20 DEF FindInactive, ActivePools
<1>21. ASSUME NEW w \in Workers, Release(w) PROVE TypeInv'
  BY <1>21 DEF Release, StillHolds
<1>22. ASSUME NEW w \in Workers, Die(w) \/ DieReleasing(w) PROVE TypeInv'
  BY <1>22 DEF Die, DieReleasing, Done
<1>23. ASSUME NEW l \in Launches, DieLaunching(l) PROVE TypeInv'
  BY <1>23 DEF DieLaunching
<1>24. CASE Tick
  BY <1>24 DEF Tick
<1>25. ASSUME NEW i \in Intents, NEW s \in Wire, NEW ok \in BOOLEAN, Land(i, s, ok)
       PROVE TypeInv'
  BY <1>25 DEF Land
<1>26. ASSUME NEW i \in Intents, Drop(i) PROVE TypeInv'
  BY <1>26 DEF Drop
<1>27. CASE UNCHANGED vars
  BY <1>27 DEF vars
<1> QED
  BY <1>1, <1>2, <1>3, <1>4, <1>5, <1>6, <1>7, <1>8, <1>9, <1>10, <1>11, <1>12,
     <1>13, <1>14, <1>15, <1>16, <1>17, <1>18, <1>19, <1>20, <1>21, <1>22, <1>23,
     <1>24, <1>25, <1>26, <1>27
  DEF Next, HandlerStep, Environment

(* Every variable keeps its type (TypeOK of the runs). *)
THEOREM TypeCorrect == Spec => []TypeOK
<1>1. TypeInv => TypeOK
  BY DEF TypeInv
<1> QED
  BY <1>1, TypeInit, TypeStep, PTL DEF Spec

-----------------------------------------------------------------------------

(* The types that the steps below use. *)
Typed ==
  /\ worker \in [Workers -> Job \cup {None}]
  /\ releasing \in [Workers -> Decision \cup {None}]
  /\ intents \in [Intents -> Status]
  /\ tokens \in [Launches -> {"absent", "draft", "active", "failed", "expired",
                              "released"}]
  /\ claims \in [Tickers -> Launches \cup {None}]
  /\ tickerOf \in [Launches -> Tickers]
  /\ height \in Nat /\ validThrough \in [Intents -> Nat]
  /\ message \in [Intents -> Wire] /\ signature \in [Intents -> Wire \cup {None}]
  /\ sent \in [Intents -> SUBSET Wire]
  /\ landed \in [Intents -> SUBSET Landing]
  /\ None \notin Launches /\ Launches \subseteq Intents
  /\ \A l \in Launches : l \notin Trades /\ l \notin Conversions

LEMMA InvTyped == IInv => Typed
  BY RegistryAssumption DEF IInv, TypeInv, TypeOK, Typed, Intents

LEMMA InitInv == Init => IInv
<1> SUFFICES ASSUME Init PROVE IInv
  OBVIOUS
<1>1. TypeInv
  BY TypeInit
<1>2. ASSUME NEW l \in Launches PROVE LaunchInv(l)
  BY <1>2, RegistryAssumption
  DEF Init, LaunchInv, Rows, Fresh, OneWire, InTime, Holding, Ended, Settled, Intents,
      Serving, HasPool
<1>3. ASSUME NEW w \in Workers PROVE Justified(w) /\ Decided(w)
  BY <1>3 DEF Init, Justified, Decided
<1> QED
  BY <1>1, <1>2, <1>3 DEF IInv

(* A request may go on to do this for its intent. *)
Allowed(job) ==
  job # None /\ job.id \in Launches =>
    /\ intents[job.id] # "absent"
    /\ job.wire \in {None, "reviewed"}
    /\ Quiet(job.id) => job.at = "read"
    /\ job.at \in {"failed", "giveUp", "fail", "expire"} => Spent(job.id)
    /\ job.at \in {"activate", "confirm"} => PoolExists(job.id)
    /\ job.at = "pool" => height > validThrough[job.id]

LEMMA WorkerStep ==
  ASSUME IInv, TypeInv', NEW w \in Workers, NEW job, Allowed(job),
         worker' = [worker EXCEPT ![w] = job],
         UNCHANGED <<dbVars, launching, releasing, chainVars, sent>>
  PROVE  IInv'
<1> USE DEF dbVars, chainVars
<1>0. worker \in [Workers -> Job \cup {None}]
  BY DEF IInv, TypeInv, TypeOK
<1>1. ASSUME NEW l \in Launches, Quiet(l) PROVE Quiet(l)'
  BY <1>0, <1>1 DEF Allowed, Quiet, Serving
<1>2. ASSUME NEW l \in Launches PROVE LaunchInv(l)'
  <2>1. Rows(l)' /\ InTime(l)' /\ Holding(l)'
    BY DEF IInv, LaunchInv, Rows, InTime, Holding
  <2>2. Fresh(l)'
    BY <1>0 DEF IInv, LaunchInv, Fresh, Allowed, Serving
  <2>3. OneWire(l)'
    BY <1>0 DEF IInv, LaunchInv, OneWire, Allowed, Serving
  <2>4. Ended(l)' /\ Settled(l)'
    BY <1>1 DEF IInv, LaunchInv, Ended, Settled, Spent, HasPool, PoolExists
  <2> QED
    BY <2>1, <2>2, <2>3, <2>4 DEF LaunchInv
<1>3. ASSUME NEW v \in Workers PROVE Justified(v)' /\ Decided(v)'
  <2>1. Justified(v)'
    BY <1>0 DEF IInv, Justified, Allowed, Spent, HasPool, PoolExists
  <2>2. Decided(v)'
    BY <1>1 DEF IInv, Decided, TypeInv, TypeOK, Decision
  <2> QED
    BY <2>1, <2>2
<1> QED
  BY <1>2, <1>3 DEF IInv

(* The steps of a request that only read, one lemma per shape.             *)
LEMMA ReadSteps ==
  ASSUME IInv, TypeInv', NEW w \in Workers,
         \/ \E i \in Intents : Reconcile(w, i) \/ \E s \in Wire : Submit(w, i, s)
         \/ CheckHeight(w) \/ ReadIntent(w) \/ ReadStatus(w) \/ CheckFailure(w)
         \/ ReadHeight(w) \/ ReadPool(w) \/ Die(w)
  PROVE  IInv'
<1>0. /\ worker \in [Workers -> Job \cup {None}]
      /\ None \notin Launches /\ Launches \subseteq Intents
  BY RegistryAssumption DEF IInv, TypeInv, TypeOK, Intents
<1>1. ASSUME NEW job, Allowed(job), worker' = [worker EXCEPT ![w] = job],
             UNCHANGED <<dbVars, launching, releasing, chainVars, sent>>
      PROVE  IInv'
  BY <1>1, WorkerStep
<1>2. Allowed(None)
  BY DEF Allowed
<1>3. CASE Done(w) /\ UNCHANGED <<dbVars, launching, releasing, chainVars, sent>>
  BY <1>1, <1>2, <1>3 DEF Done
<1>4. ASSUME NEW i \in Intents, Reconcile(w, i) PROVE IInv'
  <2> DEFINE job == [at |-> "read", id |-> i, wire |-> None, resend |-> TRUE]
  <2>1. Allowed(job)
    BY <1>4 DEF Allowed, Reconcile, Pending
  <2> QED
    BY <1>1, <1>4, <2>1 DEF Reconcile, Now, OnlyWorker
<1>5. ASSUME NEW i \in Intents, NEW s \in Wire, Submit(w, i, s) PROVE IInv'
  <2>1. CASE intents[i] # "prepared"
    <3> DEFINE job == [at |-> "read", id |-> i, wire |-> None, resend |-> FALSE]
    <3>1. Allowed(job)
      BY <1>5 DEF Allowed, Submit
    <3> QED
      BY <1>1, <1>5, <2>1, <3>1 DEF Submit, Now, OnlyWorker
  <2>2. CASE intents[i] = "prepared"
    <3> DEFINE job == [at |-> "check", id |-> i, wire |-> s, resend |-> TRUE]
    <3>1. i \in Launches => s = "reviewed"
      BY <1>5, <2>2, RegistryAssumption
      DEF Submit, Accepted, IInv, LaunchInv, OneWire
    <3>2. Allowed(job)
      BY <2>2, <3>1 DEF Allowed, Quiet
    <3> QED
      BY <1>1, <1>5, <2>2, <3>2 DEF Submit, Now, OnlyWorker
  <2> QED
    BY <2>1, <2>2
(* What holds of the intent of a request that has begun.                   *)
<1> DEFINE i == worker[w].id
<1>6. ASSUME worker[w] # None
      PROVE  /\ i \in Intents /\ worker[w] \in Job
             /\ i \in Launches =>
                  /\ intents[i] # "absent" /\ worker[w].wire \in {None, "reviewed"}
                  /\ signature[i] \in {None, "reviewed"}
                  /\ Quiet(i) => worker[w].at = "read"
  BY <1>0, <1>6 DEF Job, IInv, LaunchInv, Fresh, OneWire, Serving, Quiet
<1>7. ASSUME NEW step, worker[w] # None, worker[w].at # "read", Then(w, step),
             UNCHANGED <<dbVars, launching, releasing, chainVars, sent>>,
             i \in Launches =>
               /\ step \in {"failed", "giveUp", "fail", "expire"} => Spent(i)
               /\ step \in {"activate", "confirm"} => PoolExists(i)
               /\ step = "pool" => height > validThrough[i]
      PROVE  IInv'
  <2> DEFINE job == [worker[w] EXCEPT !.at = step]
  <2>1. worker' = [worker EXCEPT ![w] = job]
    BY <1>7 DEF Then
  <2>2. Allowed(job)
    BY <1>6, <1>7 DEF Allowed, Job
  <2> QED
    BY <1>1, <1>7, <2>1, <2>2
<1>8. ASSUME CheckHeight(w) PROVE IInv'
  <2>1. CASE Then(w, "persist")
    BY <1>7, <1>8, <2>1 DEF CheckHeight, Doing, OnlyWorker
  <2>2. CASE Now(w, i, None, TRUE, "read")
    <3> DEFINE job == [at |-> "read", id |-> i, wire |-> None, resend |-> TRUE]
    <3>1. Allowed(job)
      BY <1>6, <1>8 DEF Allowed, CheckHeight, Doing
    <3> QED
      BY <1>1, <1>8, <2>2, <3>1 DEF CheckHeight, Now, OnlyWorker
  <2> QED
    BY <1>8, <2>1, <2>2 DEF CheckHeight
<1>9. ASSUME ReadIntent(w) PROVE IInv'
  <2>1. CASE Done(w)
    BY <1>3, <1>9, <2>1 DEF ReadIntent, OnlyWorker
  <2>2. CASE intents[i] \notin Terminal
    <3> DEFINE job == [at |-> IF signature[i] = None THEN "height" ELSE "status",
                       id |-> i, wire |-> signature[i],
                       resend |-> worker[w].resend /\ intents[i] = "submitted"]
    <3>1. Allowed(job)
      BY <1>6, <1>9, <2>2 DEF Allowed, ReadIntent, Doing, Quiet, Terminal
    <3> QED
      BY <1>1, <1>9, <2>2, <3>1 DEF ReadIntent, Now, OnlyWorker
  <2> QED
    BY <1>9, <2>1, <2>2 DEF ReadIntent
<1>10. ASSUME ReadStatus(w) PROVE IInv'
  <2>1. PICK status \in SeenStatus(i, worker[w].wire) :
          Now(w, i, worker[w].wire, worker[w].resend /\ status = "absent",
              AfterStatus(i, status))
    BY <1>10 DEF ReadStatus
  <2> DEFINE job == [at |-> AfterStatus(i, status), id |-> i, wire |-> worker[w].wire,
                     resend |-> worker[w].resend /\ status = "absent"]
  <2>2. AfterStatus(i, status) \in {"failed", "giveUp", "fail", "expire", "pool"} =>
          status = "err"
    BY DEF AfterStatus
  <2>3. ASSUME status = "err", i \in Launches PROVE Spent(i)
    <3>1. PICK x \in landed[i] : ~x.ok
      BY <2>3 DEF SeenStatus, TrueStatus
    <3>2. \A y \in landed[i] : y = x
      BY <2>3, <3>1 DEF IInv, LaunchInv, OneWire
    <3> QED
      BY <3>1, <3>2 DEF Spent, HasPool
  <2>4. ASSUME status = "confirmed", i \in Launches PROVE PoolExists(i)
    BY <1>0, <2>4
    DEF SeenStatus, TrueStatus, PoolExists, IInv, TypeInv, TypeOK, Landing
  <2>5. AfterStatus(i, status) \in {"activate", "confirm"} => status = "confirmed"
    BY DEF AfterStatus
  <2>6. Allowed(job)
    BY <1>6, <1>10, <2>2, <2>3, <2>4, <2>5 DEF Allowed, ReadStatus, Doing, AfterStatus
  <2> QED
    BY <1>1, <1>10, <2>1, <2>6 DEF ReadStatus, Now, OnlyWorker
<1>11. ASSUME CheckFailure(w) PROVE IInv'
  <2>1. i \in Launches => Spent(i)
    BY <1>11 DEF CheckFailure, Doing, IInv, Justified
  <2> QED
    BY <1>7, <1>11, <2>1 DEF CheckFailure, Doing, OnlyWorker
<1>12. ASSUME ReadHeight(w) PROVE IInv'
  <2>1. CASE Done(w)
    BY <1>3, <1>12, <2>1 DEF ReadHeight, OnlyWorker
  <2>2. CASE Then(w, "rebroadcast")
    BY <1>7, <1>12, <2>2 DEF ReadHeight, Doing, OnlyWorker
  <2>3. CASE height > validThrough[i] /\ Then(w, AfterExpiry(i))
    BY <1>7, <1>12, <2>3 DEF ReadHeight, Doing, OnlyWorker, AfterExpiry
  <2> QED
    BY <1>12, <2>1, <2>2, <2>3 DEF ReadHeight
<1>13. ASSUME ReadPool(w) PROVE IInv'
  <2>1. CASE Done(w)
    BY <1>3, <1>13, <2>1 DEF ReadPool, OnlyWorker
  <2>2. CASE ~PoolExists(i) /\ Then(w, "expire")
    <3>1. ASSUME i \in Launches PROVE Spent(i)
      <4>1. height > validThrough[i] /\ validThrough[i] \in Nat /\ height \in Nat
        BY <1>13, <3>1, <1>0 DEF ReadPool, Doing, IInv, Justified, TypeInv, TypeOK
      <4>2. \A x \in landed[i] : x.at \in Nat /\ x.at <= validThrough[i]
        BY <1>0, <3>1 DEF IInv, LaunchInv, InTime, TypeInv, TypeOK, Landing
      <4>3. \A x \in landed[i] : ~x.ok
        BY <2>2, <3>1, <4>1, <4>2 DEF PoolExists
      <4> QED
        BY <4>1, <4>3 DEF Spent, HasPool
    <3> QED
      BY <1>7, <1>13, <2>2, <3>1 DEF ReadPool, Doing, OnlyWorker
  <2> QED
    BY <1>13, <2>1, <2>2 DEF ReadPool
<1>14. ASSUME Die(w) PROVE IInv'
  BY <1>3, <1>14 DEF Die
<1> QED
  BY <1>4, <1>5, <1>8, <1>9, <1>10, <1>11, <1>12, <1>13, <1>14

(* A request that is about to write about a launch, and what it knows.     *)
LEMMA Writing ==
  ASSUME IInv, NEW w \in Workers, worker[w] # None, worker[w].at # "read",
         worker[w].id \in Launches
  PROVE  /\ intents[worker[w].id] # "absent" /\ ~Quiet(worker[w].id)
         /\ worker[w].id \notin launching
         /\ worker[w].wire \in {None, "reviewed"}
         /\ tokens[worker[w].id] \notin {"absent", "released"}
         /\ \A v \in Workers :
              releasing[v] # None => releasing[v].claim # worker[w].id
BY DEF IInv, LaunchInv, Fresh, OneWire, Rows, Ended, Quiet, Serving, Decided

(* The steps of a request that write the rows of its intent.               *)
LEMMA WriteSteps ==
  ASSUME IInv, TypeInv', NEW w \in Workers,
         \/ Persist(w) \/ Send(w) \/ GiveUp(w) \/ Fail(w) \/ Activate(w)
         \/ Confirm(w) \/ Expire(w)
  PROVE  IInv'
<1> DEFINE i == worker[w].id
<1> USE DEF dbVars, chainVars
<1> USE DEF Typed
<1>0. Typed
  BY InvTyped
<1>1. worker[w] # None /\ worker[w].at # "read" /\ worker[w] \in Job /\ i \in Intents
  BY <1>0 DEF Persist, Send, GiveUp, Fail, Activate, Confirm, Expire, Doing, Job
<1>2. /\ landed' = landed /\ height' = height /\ validThrough' = validThrough
      /\ releasing' = releasing /\ launching' = launching
  BY DEF Persist, Send, GiveUp, Fail, Activate, Confirm, Expire
<1>3. \A l \in Launches : (Spent(l)' <=> Spent(l)) /\ (PoolExists(l)' <=> PoolExists(l))
  BY <1>2 DEF Spent, HasPool, PoolExists
<1>4. /\ worker' \in [Workers -> Job \cup {None}]
      /\ \A v \in Workers \ {w} : worker'[v] = worker[v]
  <2>1. worker' \in [Workers -> Job \cup {None}]
    BY DEF TypeInv, TypeOK
  <2>2. ASSUME NEW job, worker' = [worker EXCEPT ![w] = job]
        PROVE  \A v \in Workers \ {w} : worker'[v] = worker[v]
    BY <1>0, <2>2
  <2>3. ASSUME NEW step, Then(w, step)
        PROVE  \A v \in Workers \ {w} : worker'[v] = worker[v]
    BY <1>0, <2>3 DEF Then
  <2> QED
    BY <2>1, <2>2, <2>3
    DEF Persist, Send, GiveUp, Fail, Activate, Confirm, Expire, Done, Now
<1>5. worker'[w] # None => /\ worker'[w].id = i
                           /\ worker'[w].at \in {"send", "read", "fail", "confirm"}
                           /\ worker'[w].wire \in {None, worker[w].wire}
  BY <1>0, <1>1 DEF Persist, Send, GiveUp, Fail, Activate, Confirm, Expire,
     Done, Then, Now, Job
<1>6. \A j \in Intents : j # i => intents'[j] = intents[j] /\ signature'[j] = signature[j]
                                  /\ message'[j] = message[j] /\ sent'[j] = sent[j]
  BY <1>0, <1>1 DEF Persist, Send, GiveUp, Fail, Activate, Confirm, Expire
<1>7. \A l \in Launches : l # i => tokens'[l] = tokens[l]
  BY <1>0, <1>1 DEF Persist, Send, GiveUp, Fail, Activate, Confirm, Expire
<1>8. \A l \in Launches : Quiet(l) => l # i /\ Quiet(l)'
  BY <1>0, <1>1, <1>4, <1>5, <1>6 DEF Quiet, Serving
<1>9. i \in Launches => \A v \in Workers : releasing[v] # None => releasing[v].claim # i
  BY <1>1, Writing
<1>10. i \in Launches => /\ intents'[i] # "absent" /\ i \notin launching
                         /\ tokens'[i] \in {"draft", "active", "failed", "expired"}
                         /\ message'[i] = "reviewed" /\ signature'[i] \in {None, "reviewed"}
                         /\ sent'[i] \subseteq {"reviewed"}
                         /\ worker[w].wire \in {None, "reviewed"}
  <2>1. i \in Launches =>
          /\ intents[i] # "absent" /\ i \notin launching
          /\ tokens[i] \in {"draft", "active", "failed", "expired"}
          /\ worker[w].wire \in {None, "reviewed"}
          /\ message[i] = "reviewed" /\ signature[i] \in {None, "reviewed"}
          /\ sent[i] \subseteq {"reviewed"}
    BY <1>0, <1>1, Writing DEF IInv, LaunchInv, OneWire
  <2>2. Doing(w, "persist") \/ Doing(w, "send") \/ Doing(w, "rebroadcast") =>
          worker[w].wire \in Wire
    BY DEF IInv, TypeInv, Carrying, Doing
  <2>3. worker[w].wire \in Wire /\ i \in Launches => worker[w].wire = "reviewed"
    BY <2>1, RegistryAssumption
  <2>4. CASE Persist(w)
    <3>1. tokens' = tokens /\ sent' = sent /\ worker[w].wire \in Wire
      BY <2>2, <2>4 DEF Persist
    <3>2. CASE intents' = intents /\ signature' = signature /\ message' = message
      BY <2>1, <3>1, <3>2
    <3>3. CASE /\ intents' = [intents EXCEPT ![i] = "submitted"]
               /\ signature' = [signature EXCEPT ![i] = worker[w].wire]
               /\ message' = [message EXCEPT ![i] = worker[w].wire]
      BY <1>0, <1>1, <2>1, <2>3, <3>1, <3>3
    <3> QED
      BY <2>4, <3>2, <3>3 DEF Persist
  <2>5. CASE Send(w)
    BY <1>0, <1>1, <2>1, <2>2, <2>3, <2>5 DEF Send
  <2>6. CASE GiveUp(w) \/ Fail(w) \/ Activate(w)
    BY <1>0, <1>1, <2>1, <2>6 DEF GiveUp, Fail, Activate
  <2>7. CASE Confirm(w) \/ Expire(w)
    BY <1>0, <1>1, <2>1, <2>7 DEF Confirm, Expire
  <2> QED
    BY <2>4, <2>5, <2>6, <2>7
<1>11. i \in Launches =>
         /\ tokens'[i] \in {"failed", "expired"} => Spent(i)
         /\ intents'[i] \in {"failed", "expired"} => Spent(i)
         /\ worker'[w] # None /\ worker'[w].at = "fail" => Spent(i)
         /\ tokens'[i] = "active" \/ intents'[i] = "confirmed" => PoolExists(i)
         /\ worker'[w] # None /\ worker'[w].at = "confirm" => PoolExists(i)
  <2>1. i \in Launches /\ worker[w].at \in {"giveUp", "fail", "expire"} => Spent(i)
    BY <1>1 DEF IInv, Justified
  <2>2. i \in Launches /\ tokens[i] \in {"failed", "expired"} => Spent(i)
    BY DEF IInv, LaunchInv, Ended
  <2>3. i \in Launches /\ worker[w].at = "confirm" => PoolExists(i)
    BY <1>1 DEF IInv, Justified
  <2>4. i \in Launches => Settled(i)
    BY DEF IInv, LaunchInv
  <2> QED
    BY <1>0, <1>1, <2>1, <2>2, <2>3, <2>4
    DEF Persist, Send, GiveUp, Fail, Activate, Confirm, Expire, Done, Now, Then, Doing, Job,
        Settled
<1>12. ASSUME NEW l \in Launches PROVE Holding(l)'
  <2>0. /\ Holding(l)
        /\ i \in Launches => Holding(i)
    BY DEF IInv, LaunchInv
  <2>1. CASE claims' = claims /\ tokens' = tokens
    BY <2>0, <2>1 DEF Holding
  <2>2. CASE i \in Launches /\ (GiveUp(w) \/ Expire(w))
    <3>1. claims' = WithoutClaim(i) /\ tokens'[i] \notin {"draft", "active"}
      BY <1>0, <2>2 DEF GiveUp, Expire
    <3> QED
      BY <1>0, <1>7, <2>0, <2>2, <3>1 DEF Holding, WithoutClaim
  <2>3. CASE Activate(w)
    <3>1. i \in Launches /\ ~Spent(i) /\ claims' = claims
      BY <2>3 DEF Activate, PoolExists, Spent, HasPool
    <3>2. tokens[i] \in {"draft", "active"}
      <4>1. tokens[i] \notin {"failed", "expired"}
        BY <3>1 DEF IInv, LaunchInv, Ended
      <4> QED
        BY <1>0, <1>1, <3>1, <4>1, Writing
    <3>3. tokens'[i] = "active"
      BY <1>0, <2>3, <3>1 DEF Activate
    <3> QED
      BY <1>0, <1>7, <2>0, <3>1, <3>2, <3>3 DEF Holding
  <2>4. CASE GiveUp(w) /\ i \notin Launches
    BY <1>0, <1>1, <2>1, <2>4, RegistryAssumption DEF GiveUp, WithoutClaim
  <2> QED
    BY <2>1, <2>2, <2>3, <2>4 DEF Persist, Send, Fail, Confirm, Expire
<1>13. ASSUME NEW l \in Launches PROVE LaunchInv(l)'
  <2>0. LaunchInv(l)
    BY DEF IInv
  <2>1. Rows(l)'
    BY <1>0, <1>2, <1>6, <1>7, <1>10, <2>0 DEF LaunchInv, Rows
  <2>2. Fresh(l)'
    BY <1>0, <1>2, <1>4, <1>5, <1>6, <1>10, <2>0 DEF LaunchInv, Fresh, Serving
  <2>3. OneWire(l)'
    BY <1>0, <1>2, <1>4, <1>5, <1>6, <1>10, <2>0 DEF LaunchInv, OneWire, Serving
  <2>4. InTime(l)'
    BY <1>2, <2>0 DEF LaunchInv, InTime
  <2>5. Ended(l)' /\ Settled(l)'
    BY <1>0, <1>3, <1>6, <1>7, <1>8, <1>10, <1>11, <2>0 DEF LaunchInv, Ended, Settled
  <2> QED
    BY <1>12, <2>1, <2>2, <2>3, <2>4, <2>5 DEF LaunchInv
<1>14. ASSUME NEW v \in Workers PROVE Justified(v)' /\ Decided(v)'
  <2>0. Justified(v) /\ Decided(v)
    BY DEF IInv
  <2>1. Justified(v)'
    BY <1>2, <1>3, <1>4, <1>5, <1>11, <2>0 DEF Justified
  <2>2. Decided(v)'
    BY <1>0, <1>2, <1>7, <1>8, <1>9, <2>0 DEF Decided, Decision
  <2> QED
    BY <2>1, <2>2
<1> QED
  BY <1>13, <1>14 DEF IInv

(* The launch call: reservation, intent, undo. *)
LEMMA LaunchSteps ==
  ASSUME IInv, TypeInv',
         \/ \E l \in Launches : Reserve(l) \/ UndoReservation(l) \/ DieLaunching(l)
         \/ \E i \in Intents : PrepareIntent(i) \/ ReviewChangedFee(i)
  PROVE  IInv'
<1> USE DEF dbVars, chainVars
<1>0. Typed
  BY InvTyped
<1>1. ASSUME NEW k \in Launches, Reserve(k) \/ UndoReservation(k) \/ DieLaunching(k)
      PROVE  IInv'
  <2>1. /\ landed' = landed /\ height' = height /\ validThrough' = validThrough
        /\ releasing' = releasing /\ worker' = worker /\ intents' = intents
        /\ message' = message /\ signature' = signature /\ sent' = sent
    BY <1>1 DEF Reserve, UndoReservation, DieLaunching
  <2>2. \/ tokens' = tokens /\ claims' = claims
        \/ /\ tokens[k] = "absent" /\ tokens' = [tokens EXCEPT ![k] = "draft"]
           /\ claims[tickerOf[k]] = None
           /\ claims' = [claims EXCEPT ![tickerOf[k]] = k]
        \/ /\ tokens[k] = "draft" /\ tokens' = [tokens EXCEPT ![k] = "absent"]
           /\ claims' = WithoutClaim(k)
    BY <1>1 DEF Reserve, UndoReservation, DieLaunching, NobodyHolds, IInv, LaunchInv, Rows
  <2>3. ASSUME NEW l \in Launches PROVE LaunchInv(l)'
    <3>0. LaunchInv(l) /\ LaunchInv(k)
      BY DEF IInv
    <3>1. Rows(l)'
      <4>1. CASE Reserve(k)
        BY <1>0, <2>1, <3>0, <4>1 DEF LaunchInv, Rows, Reserve, Typed
      <4>2. CASE UndoReservation(k) \/ DieLaunching(k)
        BY <1>0, <2>1, <3>0, <4>2
        DEF LaunchInv, Rows, UndoReservation, DieLaunching, Typed
      <4> QED
        BY <1>1, <4>1, <4>2
    <3>2. Fresh(l)' /\ OneWire(l)' /\ InTime(l)'
      BY <2>1, <3>0 DEF LaunchInv, Fresh, OneWire, InTime, Serving
    <3>3. Holding(l)'
      <4>1. CASE UNCHANGED <<tokens, claims>>
        BY <3>0, <4>1 DEF LaunchInv, Holding
      <4>2. CASE /\ tokens[k] = "absent" /\ tokens' = [tokens EXCEPT ![k] = "draft"]
                 /\ claims[tickerOf[k]] = None
                 /\ claims' = [claims EXCEPT ![tickerOf[k]] = k]
        BY <1>0, <3>0, <4>2 DEF LaunchInv, Holding, Typed
      <4>3. CASE /\ tokens[k] = "draft" /\ tokens' = [tokens EXCEPT ![k] = "absent"]
                 /\ claims' = WithoutClaim(k)
        BY <1>0, <3>0, <4>3 DEF LaunchInv, Holding, Typed, WithoutClaim
      <4> QED
        BY <2>2, <4>1, <4>2, <4>3
    <3>4. Ended(l)' /\ Settled(l)'
      BY <1>0, <2>1, <2>2, <3>0
      DEF LaunchInv, Ended, Settled, Spent, HasPool, PoolExists, Quiet, Serving, Typed
    <3> QED
      BY <3>1, <3>2, <3>3, <3>4 DEF LaunchInv
  <2>4. ASSUME NEW v \in Workers PROVE Justified(v)' /\ Decided(v)'
    <3>0. Justified(v) /\ Decided(v)
      BY DEF IInv
    <3>1. Justified(v)'
      BY <2>1, <3>0 DEF Justified, Spent, HasPool, PoolExists
    <3>2. Decided(v)'
      BY <1>0, <2>1, <2>2, <3>0 DEF Decided, Quiet, Serving, Typed, Decision
    <3> QED
      BY <3>1, <3>2
  <2> QED
    BY <2>3, <2>4 DEF IInv
<1>2. ASSUME NEW i \in Intents, PrepareIntent(i) PROVE IInv'
  <2>1. /\ landed' = landed /\ height' = height /\ sent' = sent
        /\ releasing' = releasing /\ worker' = worker /\ tokens' = tokens
        /\ claims' = claims /\ message' = message /\ signature' = signature
        /\ intents[i] = "absent" /\ intents' = [intents EXCEPT ![i] = "prepared"]
        /\ launching' = launching \ {i}
        /\ i \in Launches => i \in launching
        /\ \A j \in Intents : j # i => validThrough'[j] = validThrough[j]
    BY <1>0, <1>2 DEF PrepareIntent, Typed
  <2>2. i \in Launches => /\ tokens[i] = "draft" /\ landed[i] = {}
                          /\ \A w \in Workers : ~Serving(w, i)
    <3>1. i \in Launches => Rows(i) /\ Fresh(i)
      BY DEF IInv, LaunchInv
    <3> QED
      BY <2>1, <3>1 DEF Rows, Fresh
  <2>3. ASSUME NEW l \in Launches PROVE LaunchInv(l)'
    <3>0. LaunchInv(l)
      BY DEF IInv
    <3>1. Rows(l)' /\ Fresh(l)' /\ OneWire(l)'
      <4>1. Rows(l)'
        BY <1>0, <2>1, <2>2, <3>0 DEF LaunchInv, Rows, Typed
      <4>2. Fresh(l)'
        BY <1>0, <2>1, <3>0 DEF LaunchInv, Fresh, Serving, Typed
      <4>3. OneWire(l)'
        BY <2>1, <3>0 DEF LaunchInv, OneWire, Serving
      <4> QED
        BY <4>1, <4>2, <4>3
    <3>2. InTime(l)' /\ Holding(l)'
      BY <1>0, <2>1, <2>2, <3>0 DEF LaunchInv, InTime, Holding, Typed
    <3>3. Ended(l)' /\ Settled(l)'
      BY <1>0, <2>1, <2>2, <3>0
      DEF LaunchInv, Ended, Settled, Spent, HasPool, PoolExists, Quiet, Serving, Typed
    <3> QED
      BY <3>1, <3>2, <3>3 DEF LaunchInv
  <2>4. ASSUME NEW v \in Workers PROVE Justified(v)' /\ Decided(v)'
    <3>0. Justified(v) /\ Decided(v)
      BY DEF IInv
    <3>1. Justified(v)'
      BY <1>0, <2>1, <2>2, <3>0 DEF Justified, Spent, HasPool, PoolExists, Serving, Typed
    <3>2. Decided(v)'
      BY <1>0, <2>1, <2>2, <3>0 DEF Decided, Quiet, Serving, Typed, Decision
    <3> QED
      BY <3>1, <3>2
  <2> QED
    BY <2>3, <2>4 DEF IInv
<1>3. ASSUME NEW i \in Intents, ReviewChangedFee(i) PROVE IInv'
  <2>1. /\ UNCHANGED <<tokens, claims, intents, signature, validThrough, launching,
                       worker, releasing, height, landed, sent>>
        /\ \A l \in Launches : message'[l] = message[l]
    BY <1>0, <1>3 DEF ReviewChangedFee, Typed
  <2>2. ASSUME NEW l \in Launches PROVE LaunchInv(l)'
    BY <2>1 DEF IInv, LaunchInv, Rows, Fresh, OneWire, InTime, Holding, Ended,
       Settled, PoolExists, Spent, HasPool, Quiet, Serving
  <2>3. ASSUME NEW v \in Workers PROVE Justified(v)' /\ Decided(v)'
    BY <2>1 DEF IInv, Justified, Decided, Spent, HasPool, PoolExists, Quiet, Serving
  <2> QED
    BY <2>2, <2>3 DEF IInv
<1> QED
  BY <1>1, <1>2, <1>3

(* The release of a quiet ticker, decided and written. *)
LEMMA ReleaseSteps ==
  ASSUME IInv, TypeInv', NEW w \in Workers,
         Release(w) \/ DieReleasing(w) \/ \E t \in Tickers : FindInactive(w, t)
  PROVE  IInv'
<1> USE DEF dbVars, chainVars
<1>0. Typed
  BY InvTyped
<1>1. /\ landed' = landed /\ height' = height /\ validThrough' = validThrough
      /\ launching' = launching /\ worker' = worker /\ intents' = intents
      /\ message' = message /\ signature' = signature /\ sent' = sent
  BY DEF Release, DieReleasing, FindInactive
<1>2. \A l \in Launches : (Quiet(l)' <=> Quiet(l)) /\ (Spent(l)' <=> Spent(l))
  BY <1>1 DEF Quiet, Serving, Spent, HasPool
<1>3. \A v \in Workers : Justified(v)'
  BY <1>1 DEF IInv, Justified, Spent, HasPool, PoolExists
<1>4. ASSUME NEW t \in Tickers, FindInactive(w, t) PROVE IInv'
  <2>1. /\ tokens' = tokens /\ claims' = claims /\ claims[t] \in Launches
        /\ releasing' = [releasing EXCEPT ![w] =
                           [claim |-> claims[t], pools |-> ActivePools(t)]]
    BY <1>0, <1>4 DEF FindInactive, Typed
  <2>2. ActivePools(t) = {claims[t]}
    <3>1. \A l \in ActivePools(t) : l = claims[t]
      BY DEF ActivePools, IInv, LaunchInv, Holding
    <3> QED
      BY <1>4, <3>1 DEF FindInactive
  <2>3. tokens[claims[t]] = "active" /\ Quiet(claims[t])
    BY <1>4, <2>2 DEF ActivePools, FindInactive, ThirtyDays, Quiet
  <2>4. \A v \in Workers : Decided(v)'
    BY <1>0, <1>2, <2>1, <2>2, <2>3 DEF IInv, Decided, Typed, Decision
  <2>5. \A l \in Launches : LaunchInv(l)'
    BY <1>1, <2>1 DEF IInv, LaunchInv, Rows, Fresh, OneWire, InTime, Holding, Ended,
       Settled, PoolExists, Quiet, Serving, Spent, HasPool
  <2> QED
    BY <1>3, <2>4, <2>5 DEF IInv
<1>5. ASSUME tokens' = tokens, claims' = claims, releasing' = [releasing EXCEPT ![w] = None]
      PROVE  IInv'
  <2>1. \A v \in Workers : Decided(v)'
    BY <1>0, <1>2, <1>5 DEF IInv, Decided, Typed, Decision
  <2>2. \A l \in Launches : LaunchInv(l)'
    BY <1>1, <1>5 DEF IInv, LaunchInv, Rows, Fresh, OneWire, InTime, Holding, Ended,
       Settled, PoolExists, Quiet, Serving, Spent, HasPool
  <2> QED
    BY <1>3, <2>1, <2>2 DEF IInv
<1>6. ASSUME Release(w), StillHolds(releasing[w].claim) PROVE IInv'
  <2> DEFINE c == releasing[w].claim
  <2>1. releasing[w] # None /\ c \in Launches
    BY <1>0, <1>6 DEF Release, Typed, Decision
  <2>2. releasing[w].pools = {c} /\ Quiet(c) /\ claims[tickerOf[c]] = c
    BY <1>6, <2>1 DEF IInv, Decided, StillHolds
  <2>3. /\ releasing' = [releasing EXCEPT ![w] = None]
        /\ claims' = [claims EXCEPT ![tickerOf[c]] = None]
        /\ tokens' = [tokens EXCEPT ![c] = "released"]
    BY <1>0, <1>6, <2>1, <2>2 DEF Release, Typed
  <2>4. \A v \in Workers : Decided(v)'
    BY <1>0, <1>2, <2>1, <2>2, <2>3 DEF IInv, Decided, Typed, Decision
  <2>5. ASSUME NEW l \in Launches PROVE LaunchInv(l)'
    <3>0. LaunchInv(l) /\ LaunchInv(c)
      BY <2>1 DEF IInv
    <3>1. Rows(l)'
      BY <1>0, <1>1, <2>1, <2>2, <2>3, <3>0 DEF LaunchInv, Rows, Typed, Quiet
    <3>2. Fresh(l)' /\ OneWire(l)' /\ InTime(l)'
      BY <1>1, <3>0 DEF LaunchInv, Fresh, OneWire, InTime, Serving
    <3>3. Holding(l)'
      BY <1>0, <2>1, <2>2, <2>3, <3>0 DEF LaunchInv, Holding, Typed
    <3>4. Ended(l)' /\ Settled(l)'
      BY <1>0, <1>1, <1>2, <2>1, <2>2, <2>3, <3>0
      DEF LaunchInv, Ended, Settled, PoolExists, Typed
    <3> QED
      BY <3>1, <3>2, <3>3, <3>4 DEF LaunchInv
  <2> QED
    BY <1>3, <2>4, <2>5 DEF IInv
<1>7. CASE Release(w) /\ ~StillHolds(releasing[w].claim)
  BY <1>5, <1>7 DEF Release
<1>8. CASE DieReleasing(w)
  BY <1>5, <1>8 DEF DieReleasing
<1> QED
  BY <1>4, <1>6, <1>7, <1>8

(* The chain, when it never drops a block. *)
LEMMA ChainSteps ==
  ASSUME IInv, TypeInv',
         Tick \/ \E i \in Intents, s \in Wire, ok \in BOOLEAN : Land(i, s, ok)
  PROVE  IInv'
<1> USE DEF dbVars, chainVars
<1>0. Typed
  BY InvTyped
<1>1. /\ UNCHANGED <<tokens, claims, launching, intents, message, signature,
                     validThrough, worker, releasing, sent>>
      /\ \A l \in Launches : Quiet(l)' <=> Quiet(l)
  BY DEF Tick, Land, Quiet, Serving
<1>2. CASE Tick
  <2>1. landed' = landed /\ height' = height + 1
    BY <1>2 DEF Tick
  <2>2. \A l \in Launches : (Spent(l) => Spent(l)') /\ (PoolExists(l) => PoolExists(l)')
    BY <1>0, <1>1, <2>1 DEF Spent, HasPool, PoolExists, Typed, Landing
  <2>3. ASSUME NEW l \in Launches PROVE LaunchInv(l)'
    BY <1>1, <2>1, <2>2 DEF IInv, LaunchInv, Rows, Fresh, OneWire, InTime, Holding,
       Ended, Settled, Serving
  <2>4. ASSUME NEW v \in Workers PROVE Justified(v)' /\ Decided(v)'
    <3>1. Justified(v)'
      BY <1>0, <1>1, <2>1, <2>2 DEF IInv, Justified, Typed
    <3>2. Decided(v)'
      BY <1>0, <1>1 DEF IInv, Decided, Typed, Decision
    <3> QED
      BY <3>1, <3>2
  <2> QED
    BY <2>3, <2>4 DEF IInv
<1>3. ASSUME NEW i \in Intents, NEW s \in Wire, NEW ok \in BOOLEAN, Land(i, s, ok)
      PROVE  IInv'
  <2> DEFINE x == [wire |-> s, at |-> height + 1, ok |-> ok]
  <2>1. /\ s \in sent[i] /\ height < validThrough[i] /\ height' = height
        /\ \A y \in landed[i] : y.wire # s
        /\ landed' = [landed EXCEPT ![i] = @ \cup {x}]
    BY <1>3 DEF Land
  <2>2. i \in Launches => s = "reviewed" /\ landed[i] = {} /\ intents[i] # "absent"
    <3>1. SUFFICES ASSUME i \in Launches
                   PROVE  s = "reviewed" /\ landed[i] = {} /\ intents[i] # "absent"
      OBVIOUS
    <3>2. Fresh(i) /\ OneWire(i)
      BY <3>1 DEF IInv, LaunchInv
    <3> QED
      BY <1>0, <2>1, <3>1, <3>2 DEF Fresh, OneWire, Typed
  <2>3. \A l \in Launches : /\ Spent(l) => l # i /\ Spent(l)'
                            /\ PoolExists(l) => PoolExists(l)'
    BY <1>0, <1>1, <2>1, <2>2 DEF Spent, HasPool, PoolExists, Typed
  <2>4. ASSUME NEW l \in Launches PROVE LaunchInv(l)'
    <3>0. LaunchInv(l)
      BY DEF IInv
    <3>1. Rows(l)' /\ Holding(l)'
      BY <1>1, <3>0 DEF LaunchInv, Rows, Holding
    <3>2. Ended(l)' /\ Settled(l)'
      BY <1>1, <2>3, <3>0 DEF LaunchInv, Ended, Settled
    <3>3. CASE l = i
      <4>1. landed'[l] = {x}
        BY <1>0, <2>1, <2>2, <3>3 DEF Typed
      <4>2. Fresh(l)' /\ OneWire(l)' /\ InTime(l)'
        BY <1>0, <1>1, <2>1, <2>2, <3>0, <3>3, <4>1
        DEF LaunchInv, Fresh, OneWire, InTime, Serving, Typed
      <4> QED
        BY <3>1, <3>2, <4>2 DEF LaunchInv
    <3>4. CASE l # i
      <4>1. landed'[l] = landed[l]
        BY <1>0, <2>1, <3>4 DEF Typed
      <4>2. Fresh(l)' /\ OneWire(l)' /\ InTime(l)'
        BY <1>1, <3>0, <4>1 DEF LaunchInv, Fresh, OneWire, InTime, Serving
      <4> QED
        BY <3>1, <3>2, <4>2 DEF LaunchInv
    <3> QED
      BY <3>3, <3>4
  <2>5. ASSUME NEW v \in Workers PROVE Justified(v)' /\ Decided(v)'
    <3>1. Justified(v)'
      BY <1>1, <2>1, <2>3 DEF IInv, Justified
    <3>2. Decided(v)'
      BY <1>0, <1>1 DEF IInv, Decided, Typed, Decision
    <3> QED
      BY <3>1, <3>2
  <2> QED
    BY <2>4, <2>5 DEF IInv
<1> QED
  BY <1>2, <1>3

LEMMA InvStep == ~Forks /\ IInv /\ [Next]_vars => IInv'
<1> SUFFICES ASSUME ~Forks, IInv, [Next]_vars PROVE IInv'
  OBVIOUS
<1>0. TypeInv'
  BY TypeStep DEF IInv
<1>1. ASSUME NEW l \in Launches,
             Reserve(l) \/ UndoReservation(l) \/ DieLaunching(l)
      PROVE  IInv'
  BY <1>0, <1>1, LaunchSteps
<1>2. ASSUME NEW i \in Intents, PrepareIntent(i) \/ ReviewChangedFee(i) PROVE IInv'
  BY <1>0, <1>2, LaunchSteps
<1>3. ASSUME NEW w \in Workers, NEW i \in Intents,
             Reconcile(w, i) \/ \E s \in Wire : Submit(w, i, s)
      PROVE  IInv'
  BY <1>0, <1>3, ReadSteps
<1>4. ASSUME NEW w \in Workers, HandlerStep(w) PROVE IInv'
  <2>1. CASE \/ CheckHeight(w) \/ ReadIntent(w) \/ ReadStatus(w) \/ CheckFailure(w)
             \/ ReadHeight(w) \/ ReadPool(w)
    BY <1>0, <2>1, ReadSteps
  <2>2. CASE \/ Persist(w) \/ Send(w) \/ GiveUp(w) \/ Fail(w) \/ Activate(w)
             \/ Confirm(w) \/ Expire(w)
    BY <1>0, <2>2, WriteSteps
  <2> QED
    BY <1>4, <2>1, <2>2 DEF HandlerStep
<1>5. ASSUME NEW w \in Workers,
             Release(w) \/ DieReleasing(w) \/ \E t \in Tickers : FindInactive(w, t)
      PROVE  IInv'
  BY <1>0, <1>5, ReleaseSteps
<1>6. ASSUME NEW w \in Workers, Die(w) PROVE IInv'
  BY <1>0, <1>6, ReadSteps
<1>7. CASE Tick \/ \E i \in Intents, s \in Wire, ok \in BOOLEAN : Land(i, s, ok)
  BY <1>0, <1>7, ChainSteps
<1>8. ASSUME NEW i \in Intents, Drop(i) PROVE IInv'
  BY <1>8 DEF Drop
<1>9. CASE UNCHANGED vars
  BY <1>0, <1>9
  DEF vars, dbVars, chainVars, IInv, LaunchInv, Rows, Fresh, OneWire, InTime,
      Holding, Ended, Settled, PoolExists, Spent, HasPool, Quiet, Serving, Justified,
      Decided
<1> QED
  BY <1>1, <1>2, <1>3, <1>4, <1>5, <1>6, <1>7, <1>8, <1>9 DEF Next, Environment

(* Every launch, request and reservation stays as IInv describes it.       *)
THEOREM LaunchesCorrect == ASSUME ~Forks PROVE Spec => []IInv
<1>1. IInv /\ [Next]_vars => IInv'
  BY InvStep
<1> QED
  BY <1>1, InitInv, PTL DEF Spec

LEMMA PoolHolds == IInv => PoolHoldsTicker
<1> SUFFICES ASSUME IInv, NEW l \in Launches, HasPool(l), tokens[l] # "released"
             PROVE  claims[tickerOf[l]] = l
  BY DEF PoolHoldsTicker
<1>1. Rows(l) /\ Fresh(l) /\ Holding(l) /\ Ended(l)
  BY DEF IInv, LaunchInv
<1>2. intents[l] # "absent"
  BY <1>1 DEF Fresh, HasPool
<1>3. tokens[l] \in {"draft", "active"}
  BY <1>1, <1>2 DEF Rows, Ended, Spent, IInv, TypeInv, TypeOK
<1> QED
  BY <1>1, <1>3 DEF Holding

(* A launch whose pool exists holds its ticker until it is released        *)
(* (PoolHoldsTicker of the runs).                                          *)
THEOREM PoolsHoldTickers == ASSUME ~Forks PROVE Spec => []PoolHoldsTicker
  BY LaunchesCorrect, PoolHolds, PTL

(* A launch's intent ends as its transaction did on the chain              *)
(* (LaunchesSettleAsOnChain of the runs).                                  *)
THEOREM LaunchesSettle == ASSUME ~Forks PROVE Spec => []LaunchesSettleAsOnChain
<1>1. IInv => LaunchesSettleAsOnChain
  BY DEF IInv, LaunchInv, Settled, Spent, HasPool, PoolExists,
     LaunchesSettleAsOnChain, SettledAsOnChain
<1> QED
  BY <1>1, LaunchesCorrect, PTL

(* A ticker leaves a token only when that token can no longer go live or   *)
(* has been released (ClaimOutlivesToken of the runs).                     *)
THEOREM ClaimsOutliveTokens == ASSUME ~Forks PROVE Spec => ClaimOutlivesToken
<1> DEFINE Kept ==
      \A l \in Launches : claims[tickerOf[l]] = l /\ claims'[tickerOf[l]] # l =>
        tokens'[l] \in {"absent", "failed", "expired", "released"}
<1>1. IInv /\ IInv' /\ [Next]_vars => [Kept]_vars
  <2>1. ASSUME IInv', NEW l \in Launches, claims'[tickerOf[l]] # l
        PROVE  tokens'[l] \in {"absent", "failed", "expired", "released"}
    <3>1. Holding(l)'
      BY <2>1 DEF IInv, LaunchInv
    <3>2. TypeOK'
      BY <2>1 DEF IInv, TypeInv
    <3> QED
      BY <2>1, <3>1, <3>2 DEF Holding, TypeOK
  <2> QED
    BY <2>1
<1> QED
  BY <1>1, LaunchesCorrect, PTL DEF Spec, ClaimOutlivesToken

(* No step takes a token back to a draft, an intent back to one that can   *)
(* be signed, or, without forks, a pool off the chain.                     *)
LEMMA NoWayBack ==
  ASSUME ~Forks, IInv, [Next]_vars, NEW l \in Launches
  PROVE  /\ PoolExists(l) => PoolExists(l)'
         /\ tokens'[l] = "draft" => tokens[l] \in {"absent", "draft"}
         /\ intents'[l] \in {"prepared", "submitted"} =>
              intents[l] \in {"absent", "prepared", "submitted"}
<1> DEFINE Onward ==
      /\ PoolExists(l) => PoolExists(l)'
      /\ tokens'[l] = "draft" => tokens[l] \in {"absent", "draft"}
      /\ intents'[l] \in {"prepared", "submitted"} =>
           intents[l] \in {"absent", "prepared", "submitted"}
<1> USE DEF dbVars, chainVars
<1>0. Typed
  BY InvTyped
<1>1. CASE UNCHANGED <<tokens, intents, height, landed>>
  BY <1>1 DEF PoolExists
<1>2. ASSUME NEW k \in Launches, Reserve(k) \/ UndoReservation(k) \/ DieLaunching(k)
      PROVE  Onward
  BY <1>0, <1>2 DEF Reserve, UndoReservation, DieLaunching, PoolExists, Typed
<1>3. ASSUME NEW i \in Intents, PrepareIntent(i) \/ ReviewChangedFee(i) PROVE Onward
  BY <1>0, <1>3 DEF PrepareIntent, ReviewChangedFee, PoolExists, Typed
<1>4. ASSUME NEW w \in Workers, NEW i \in Intents,
             Reconcile(w, i) \/ \E s \in Wire : Submit(w, i, s)
      PROVE  Onward
  BY <1>1, <1>4 DEF Reconcile, Submit, OnlyWorker
<1>5. ASSUME NEW w \in Workers, HandlerStep(w) PROVE Onward
  <2>1. CASE \/ CheckHeight(w) \/ ReadIntent(w) \/ ReadStatus(w) \/ CheckFailure(w)
             \/ ReadHeight(w) \/ ReadPool(w) \/ Send(w)
    BY <1>1, <2>1 DEF CheckHeight, ReadIntent, ReadStatus, CheckFailure, ReadHeight,
       ReadPool, Send, OnlyWorker
  <2>2. CASE Persist(w)
    BY <1>0, <2>2 DEF Persist, StillPrepared, PoolExists, Typed
  <2>3. CASE GiveUp(w) \/ Fail(w) \/ Activate(w) \/ Confirm(w) \/ Expire(w)
    BY <1>0, <2>3 DEF GiveUp, Fail, Activate, Confirm, Expire, PoolExists, Typed
  <2> QED
    BY <1>5, <2>1, <2>2, <2>3 DEF HandlerStep
<1>6. ASSUME NEW w \in Workers,
             \/ Release(w) \/ DieReleasing(w) \/ Die(w)
             \/ \E t \in Tickers : FindInactive(w, t)
      PROVE  Onward
  BY <1>0, <1>6 DEF Release, DieReleasing, Die, FindInactive, PoolExists, Typed
<1>7. CASE Tick
  BY <1>0, <1>7 DEF Tick, PoolExists, Typed, Landing
<1>8. ASSUME NEW i \in Intents, NEW s \in Wire, NEW ok \in BOOLEAN, Land(i, s, ok)
      PROVE  Onward
  BY <1>0, <1>8 DEF Land, PoolExists, Typed
<1>9. ASSUME NEW i \in Intents, Drop(i) PROVE Onward
  BY <1>9 DEF Drop
<1>10. CASE UNCHANGED vars
  BY <1>1, <1>10 DEF vars
<1> QED
  BY <1>2, <1>3, <1>4, <1>5, <1>6, <1>7, <1>8, <1>9, <1>10 DEF Next, Environment

(* An active token and a confirmed launch stay so, or are released         *)
(* (LaunchIsFinal of the runs).                                            *)
THEOREM LaunchesAreFinal == ASSUME ~Forks PROVE Spec => LaunchIsFinal
<1> DEFINE Final ==
      \A l \in Launches :
        /\ tokens[l] = "active" => tokens'[l] \in {"active", "released"}
        /\ intents[l] = "confirmed" => intents'[l] = "confirmed"
<1>1. IInv /\ IInv' /\ [Next]_vars => [Final]_vars
  <2> SUFFICES ASSUME IInv, IInv', [Next]_vars, NEW l \in Launches,
                      tokens[l] = "active" \/ intents[l] = "confirmed"
               PROVE  /\ tokens[l] = "active" => tokens'[l] \in {"active", "released"}
                      /\ intents[l] = "confirmed" => intents'[l] = "confirmed"
    OBVIOUS
  <2>1. PoolExists(l)'
    BY NoWayBack DEF IInv, LaunchInv, Settled
  <2>2. HasPool(l)'
    BY <2>1 DEF PoolExists, HasPool
  <2>3. Rows(l)' /\ Fresh(l)' /\ Ended(l)' /\ Settled(l)' /\ TypeOK'
    BY DEF IInv, LaunchInv, TypeInv
  <2>4. intents'[l] \notin {"absent", "failed", "expired"}
    BY <2>2, <2>3 DEF Fresh, Settled, Spent, HasPool
  <2>5. tokens'[l] \notin {"absent", "failed", "expired"}
    BY <2>2, <2>3, <2>4 DEF Rows, Ended, Spent
  <2>6. intents[l] = "confirmed" => intents'[l] = "confirmed"
    <3>1. intents'[l] \in Status
      BY <2>3, RegistryAssumption DEF TypeOK, Intents
    <3> QED
      BY <2>4, <3>1, NoWayBack DEF Status
  <2>7. tokens[l] = "active" => tokens'[l] \in {"active", "released"}
    BY <2>3, <2>5, NoWayBack DEF TypeOK
  <2> QED
    BY <2>6, <2>7
<1> QED
  BY <1>1, LaunchesCorrect, PTL DEF Spec, LaunchIsFinal

(* The reservations of the launchpad behave as TickerRegistry: the owner   *)
(* of a ticker alone goes live, and keeps it until it is retired           *)
(* (ImplementsRegistry of the runs).                                       *)
THEOREM Refinement == ASSUME ~Forks PROVE Spec => ImplementsRegistry
<1> DEFINE Alive == {l \in Launches : HasPool(l) /\ tokens[l] # "released"}
<1>1. Init => Registry!Init
  BY RegistryAssumption DEF Init, Registry!Init, HasPool, Intents
<1>2. IInv' => PoolHoldsTicker'
  BY PoolHolds, PTL
<1>3. IInv /\ IInv' /\ [Next]_vars => [Registry!Next]_(Registry!vars)
  <2> SUFFICES ASSUME IInv, IInv', [Next]_vars
               PROVE  Registry!Next \/ UNCHANGED Registry!vars
    OBVIOUS
  <2> USE DEF dbVars, chainVars
  <2>0. Typed
    BY InvTyped
  <2>1. CASE UNCHANGED <<tokens, claims, landed>>
    BY <2>1 DEF Registry!vars, HasPool
  <2>2. ASSUME NEW l \in Launches, Reserve(l) PROVE Registry!Next
    <3>1. Alive' = Alive
      BY <2>0, <2>2 DEF Reserve, HasPool, Typed
    <3> QED
      BY <2>2, <3>1 DEF Reserve, NobodyHolds, Registry!Next, Registry!Claim
  <2>3. ASSUME NEW l \in Launches, claims' = WithoutClaim(l), landed' = landed,
               ~HasPool(l), \A k \in Launches \ {l} : tokens'[k] = tokens[k]
        PROVE  Registry!Next \/ UNCHANGED Registry!vars
    <3>1. Alive' = Alive /\ l \notin Alive
      BY <2>3 DEF HasPool
    <3>2. \A t \in Tickers : claims[t] = l => t = tickerOf[l]
      BY DEF IInv, LaunchInv, Holding
    <3>3. CASE claims[tickerOf[l]] = l
      <4>1. claims' = [claims EXCEPT ![tickerOf[l]] = None]
        BY <2>0, <2>3, <3>2, <3>3 DEF WithoutClaim, Typed
      <4> QED
        BY <3>1, <3>3, <4>1 DEF Registry!Next, Registry!Abandon
    <3>4. CASE claims[tickerOf[l]] # l
      <4>1. claims' = claims
        BY <2>0, <2>3, <3>2, <3>4 DEF WithoutClaim, Typed
      <4> QED
        BY <3>1, <4>1 DEF Registry!vars
    <3> QED
      BY <3>3, <3>4
  <2>4. ASSUME NEW l \in Launches, UndoReservation(l)
        PROVE  Registry!Next \/ UNCHANGED Registry!vars
    <3>1. ~HasPool(l)
      BY <2>4 DEF UndoReservation, IInv, LaunchInv, Rows, Fresh, HasPool
    <3> QED
      BY <2>0, <2>3, <2>4, <3>1 DEF UndoReservation, Typed
  <2>5. ASSUME NEW w \in Workers, GiveUp(w) \/ Expire(w)
        PROVE  Registry!Next \/ UNCHANGED Registry!vars
    <3> DEFINE i == worker[w].id
    <3>1. landed' = landed /\ worker[w] # None /\ worker[w].at \in {"giveUp", "expire"}
      BY <2>5 DEF GiveUp, Expire, Doing
    <3>2. CASE i \in Launches
      <4>1. ~HasPool(i)
        BY <3>1, <3>2 DEF IInv, Justified, Spent
      <4> QED
        BY <2>0, <2>3, <2>5, <3>1, <3>2, <4>1 DEF GiveUp, Expire, Typed
    <3>3. CASE i \notin Launches
      <4>1. i \in Intents
        BY <2>0, <3>1 DEF Typed, Job
      <4>2. UNCHANGED <<tokens, claims>>
        BY <2>0, <2>5, <3>3, <4>1, RegistryAssumption
        DEF GiveUp, Expire, WithoutClaim, Typed
      <4> QED
        BY <2>1, <3>1, <4>2
    <3> QED
      BY <3>2, <3>3
  <2>6. ASSUME NEW w \in Workers, Activate(w) PROVE UNCHANGED Registry!vars
    <3> DEFINE i == worker[w].id
    <3>1. i \in Launches /\ tokens[i] # "released"
      <4>1. i \in Launches
        BY <2>6 DEF Activate, PoolExists
      <4> QED
        BY <2>6, <4>1, Writing DEF Activate, Doing
    <3>2. claims' = claims /\ landed' = landed /\ tokens' = [tokens EXCEPT ![i] = "active"]
      BY <2>6 DEF Activate
    <3>3. Alive' = Alive
      BY <2>0, <3>1, <3>2 DEF HasPool, Typed
    <3> QED
      BY <3>2, <3>3 DEF Registry!vars
  <2>7. ASSUME NEW w \in Workers, Release(w)
        PROVE  Registry!Next \/ UNCHANGED Registry!vars
    <3> DEFINE c == releasing[w].claim
    <3>1. landed' = landed /\ releasing[w] # None /\ c \in Launches
      BY <2>0, <2>7 DEF Release, Typed, Decision
    <3>2. CASE StillHolds(c)
      <4>1. releasing[w].pools = {c} /\ tokens[c] \in {"active", "released"}
        BY <3>1 DEF IInv, Decided
      <4>2. tokens[c] = "active" /\ HasPool(c)
        BY <2>0, <3>1, <3>2, <4>1
        DEF Typed, IInv, LaunchInv, Holding, Settled, StillHolds, PoolExists, HasPool
      <4>3. /\ claims' = [claims EXCEPT ![tickerOf[c]] = None]
            /\ tokens' = [tokens EXCEPT ![c] = "released"]
        BY <2>0, <2>7, <3>1, <3>2, <4>1 DEF Release, Typed
      <4>4. Alive' = Alive \ {c} /\ c \in Alive
        BY <2>0, <3>1, <4>2, <4>3 DEF HasPool, Typed
      <4> QED
        BY <3>1, <3>2, <4>3, <4>4 DEF Registry!Next, Registry!Retire, StillHolds
    <3>3. CASE ~StillHolds(c)
      BY <2>1, <2>7, <3>1, <3>3 DEF Release
    <3> QED
      BY <3>2, <3>3
  <2>8. ASSUME NEW i \in Intents, NEW s \in Wire, NEW ok \in BOOLEAN, Land(i, s, ok)
        PROVE  Registry!Next \/ UNCHANGED Registry!vars
    <3> DEFINE x == [wire |-> s, at |-> height + 1, ok |-> ok]
    <3>1. /\ UNCHANGED <<tokens, claims>> /\ s \in sent[i]
          /\ \A y \in landed[i] : y.wire # s
          /\ landed' = [landed EXCEPT ![i] = @ \cup {x}]
      BY <2>8 DEF Land
    <3>2. CASE i \in Launches /\ ok
      <4>1. landed[i] = {} /\ intents[i] # "absent"
        BY <2>0, <3>1, <3>2 DEF IInv, LaunchInv, Fresh, OneWire, Typed
      <4>2. tokens[i] # "released"
        <5>1. Ended(i) /\ Settled(i) /\ ~PoolExists(i)
          BY <3>2, <4>1 DEF IInv, LaunchInv, PoolExists
        <5> QED
          BY <5>1 DEF Ended, Quiet, Settled
      <4>3. HasPool(i)' /\ \A l \in Launches \ {i} : HasPool(l)' <=> HasPool(l)
        <5>1. landed'[i] = landed[i] \cup {x} /\ x.ok
          BY <2>0, <3>1, <3>2 DEF Typed
        <5>2. \A l \in Launches \ {i} : landed'[l] = landed[l]
          BY <2>0, <3>1 DEF Typed
        <5> QED
          BY <5>1, <5>2 DEF HasPool
      <4>4. Alive' = Alive \cup {i} /\ i \notin Alive
        <5>1. ~HasPool(i)
          BY <4>1 DEF HasPool
        <5> QED
          BY <3>1, <3>2, <4>2, <4>3, <5>1
      <4>5. claims[tickerOf[i]] = i
        BY <1>2, <3>1, <3>2, <4>2, <4>3 DEF PoolHoldsTicker
      <4> QED
        BY <3>1, <3>2, <4>4, <4>5 DEF Registry!Next, Registry!GoLive
    <3>3. CASE i \notin Launches \/ ~ok
      <4>1. \A l \in Launches : HasPool(l)' <=> HasPool(l)
        BY <2>0, <3>1, <3>3 DEF HasPool, Typed
      <4>2. Alive' = Alive
        BY <3>1, <4>1
      <4> QED
        BY <3>1, <4>2 DEF Registry!vars
    <3> QED
      BY <3>2, <3>3
  <2>9. ASSUME NEW i \in Intents, Drop(i) PROVE FALSE
    BY <2>9 DEF Drop
  <2>10. CASE \/ UNCHANGED vars \/ Tick
              \/ \E l \in Launches : DieLaunching(l)
              \/ \E i \in Intents : PrepareIntent(i) \/ ReviewChangedFee(i)
    BY <2>1, <2>10 DEF vars, Tick, DieLaunching, PrepareIntent, ReviewChangedFee
  <2>11. ASSUME NEW w \in Workers,
                \/ Die(w) \/ DieReleasing(w) \/ \E t \in Tickers : FindInactive(w, t)
                \/ \E i \in Intents : Reconcile(w, i) \/ \E s \in Wire : Submit(w, i, s)
         PROVE  Registry!Next \/ UNCHANGED Registry!vars
    BY <2>1, <2>11 DEF Die, DieReleasing, FindInactive, Reconcile, Submit, OnlyWorker
  <2>12. ASSUME NEW w \in Workers, HandlerStep(w)
         PROVE  Registry!Next \/ UNCHANGED Registry!vars
    <3>1. CASE \/ CheckHeight(w) \/ ReadIntent(w) \/ ReadStatus(w) \/ CheckFailure(w)
               \/ ReadHeight(w) \/ ReadPool(w) \/ Send(w) \/ Persist(w) \/ Fail(w)
               \/ Confirm(w)
      BY <2>1, <3>1 DEF CheckHeight, ReadIntent, ReadStatus, CheckFailure, ReadHeight,
         ReadPool, Send, Persist, Fail, Confirm, OnlyWorker
    <3> QED
      BY <2>5, <2>6, <2>12, <3>1 DEF HandlerStep
  <2> QED
    BY <2>2, <2>4, <2>7, <2>8, <2>9, <2>10, <2>11, <2>12 DEF Next, Environment
<1> QED
  BY <1>1, <1>3, LaunchesCorrect, PTL DEF Spec, ImplementsRegistry, Registry!Spec

-----------------------------------------------------------------------------
(* One wire of an intent, of any kind and on any chain *)

(* A signature is stored by the step that makes the row "submitted" and is *)
(* never replaced; only a wire that is on record is ever sent.             *)
Recorded(i) ==
  /\ intents[i] \in {"absent", "prepared"} => signature[i] = None
  /\ signature[i] # None => message[i] = signature[i]
  /\ \A s \in sent[i] : s = signature[i]
  /\ \A x \in landed[i] : x.wire \in sent[i]

(* What a request is about to send, look up or resend is on record.        *)
OnRecord(w) ==
  worker[w] # None /\
  (\/ worker[w].at \in {"send", "status", "rebroadcast"}
   \/ worker[w].at = "height" /\ worker[w].resend)
  => worker[w].wire = signature[worker[w].id]

WireInv ==
  /\ TypeInv
  /\ \A i \in Intents : Recorded(i)
  /\ \A w \in Workers : OnRecord(w)

LEMMA WireInit == Init => WireInv
  BY TypeInit DEF Init, WireInv, Recorded, OnRecord

(* A step that leaves the rows and the chain alone.                        *)
LEMMA WireReads ==
  ASSUME WireInv, TypeInv', NEW w \in Workers,
         UNCHANGED <<intents, signature, message, sent, landed>>,
         \A v \in Workers \ {w} : worker'[v] = worker[v],
         OnRecord(w)'
  PROVE  WireInv'
  BY DEF WireInv, Recorded, OnRecord

LEMMA WireStep == WireInv /\ [Next]_vars => WireInv'
<1> SUFFICES ASSUME WireInv, [Next]_vars PROVE WireInv'
  OBVIOUS
<1> USE DEF dbVars, chainVars
<1>1. TypeInv /\ TypeInv'
  BY TypeStep DEF WireInv
<1>2. /\ worker \in [Workers -> Job \cup {None}] /\ intents \in [Intents -> Status]
      /\ message \in [Intents -> Wire] /\ signature \in [Intents -> Wire \cup {None}]
      /\ sent \in [Intents -> SUBSET Wire] /\ landed \in [Intents -> SUBSET Landing]
      /\ None \notin Wire
  BY <1>1, RegistryAssumption DEF TypeInv, TypeOK
<1>3. ASSUME UNCHANGED <<intents, signature, message, sent, landed, worker>>
      PROVE  WireInv'
  BY <1>1, <1>3 DEF WireInv, Recorded, OnRecord
<1>4. ASSUME NEW w \in Workers, Done(w),
             UNCHANGED <<intents, signature, message, sent, landed>>
      PROVE  WireInv'
  <2>1. worker'[w] = None /\ \A v \in Workers \ {w} : worker'[v] = worker[v]
    BY <1>2, <1>4 DEF Done
  <2>2. OnRecord(w)'
    BY <2>1 DEF OnRecord
  <2> QED
    BY <1>1, <1>4, <2>1, <2>2, WireReads
<1>5. ASSUME NEW w \in Workers, NEW i \in Intents, NEW x, NEW resend, NEW step,
             Now(w, i, x, resend, step), step \notin {"send", "status", "rebroadcast"},
             step = "height" /\ resend => x = signature[i],
             UNCHANGED <<intents, signature, message, sent, landed>>
      PROVE  WireInv'
  <2>1. /\ worker'[w] = [at |-> step, id |-> i, wire |-> x, resend |-> resend]
        /\ \A v \in Workers \ {w} : worker'[v] = worker[v]
    BY <1>2, <1>5 DEF Now
  <2>2. OnRecord(w)'
    BY <1>5, <2>1 DEF OnRecord
  <2> QED
    BY <1>1, <1>5, <2>1, <2>2, WireReads
<1>r. ASSUME NEW w \in Workers, NEW i \in Intents, NEW resend \in BOOLEAN,
             Now(w, i, None, resend, "read"),
             UNCHANGED <<intents, signature, message, sent, landed>>
      PROVE  WireInv'
  BY <1>5, <1>r
<1>6. ASSUME NEW w \in Workers, worker[w] # None, NEW step, Then(w, step),
             step \in {"send", "status", "rebroadcast"} => worker[w].wire = signature[worker[w].id],
             step # "height",
             UNCHANGED <<intents, signature, message, sent, landed>>
      PROVE  WireInv'
  <2>1. /\ worker'[w] = [worker[w] EXCEPT !.at = step]
        /\ \A v \in Workers \ {w} : worker'[v] = worker[v] /\ worker[w] \in Job
    BY <1>2, <1>6 DEF Then
  <2>2. worker[w] \in Job
    BY <1>2, <1>6
  <2>3. worker'[w].at = step /\ worker'[w].id = worker[w].id
        /\ worker'[w].wire = worker[w].wire
    BY <2>1, <2>2 DEF Job
  <2>4. OnRecord(w)'
    BY <1>6, <2>3 DEF OnRecord
  <2> QED
    BY <1>1, <1>6, <2>1, <2>4, WireReads
<1>7. ASSUME NEW w \in Workers, worker[w] # None
      PROVE  worker[w] \in Job /\ worker[w].id \in Intents /\ OnRecord(w) /\ Carrying(w)
  BY <1>1, <1>2, <1>7 DEF Job, WireInv, TypeInv
<1>8. ASSUME NEW i \in Intents, PrepareIntent(i) \/ ReviewChangedFee(i)
      PROVE  WireInv'
  <2>1. /\ UNCHANGED <<signature, sent, landed, worker>>
        /\ intents[i] \in {"absent", "prepared"}
        /\ \A j \in Intents \ {i} : intents'[j] = intents[j] /\ message'[j] = message[j]
    BY <1>2, <1>8 DEF PrepareIntent, ReviewChangedFee
  <2>2. \A j \in Intents : Recorded(j)'
    BY <2>1 DEF WireInv, Recorded
  <2>3. \A v \in Workers : OnRecord(v)'
    BY <2>1 DEF WireInv, OnRecord
  <2> QED
    BY <1>1, <2>2, <2>3 DEF WireInv
<1>9. ASSUME NEW w \in Workers, NEW i \in Intents, Reconcile(w, i)
      PROVE  WireInv'
  BY <1>r, <1>9 DEF Reconcile, OnlyWorker
<1>10. ASSUME NEW w \in Workers, NEW i \in Intents, NEW s \in Wire, Submit(w, i, s)
       PROVE  WireInv'
  <2>1. UNCHANGED <<intents, signature, message, sent, landed>>
    BY <1>10 DEF Submit, OnlyWorker
  <2>2. CASE Now(w, i, None, FALSE, "read")
    BY <1>r, <2>1, <2>2
  <2>3. CASE Now(w, i, s, TRUE, "check")
    BY <1>5, <2>1, <2>3
  <2> QED
    BY <1>10, <2>2, <2>3 DEF Submit
<1>11. ASSUME NEW w \in Workers, CheckHeight(w)
       PROVE  WireInv'
  <2>1. worker[w] # None /\ UNCHANGED <<intents, signature, message, sent, landed>>
    BY <1>11 DEF CheckHeight, OnlyWorker, Doing
  <2>2. CASE Now(w, worker[w].id, None, TRUE, "read")
    BY <1>r, <1>7, <2>1, <2>2
  <2>3. CASE Then(w, "persist")
    BY <1>6, <2>1, <2>3
  <2> QED
    BY <1>11, <2>2, <2>3 DEF CheckHeight
<1>12. ASSUME NEW w \in Workers, Persist(w)
       PROVE  WireInv'
  <2> DEFINE i == worker[w].id
  <2>1. worker[w] # None /\ worker[w].at = "persist" /\ i \in Intents
        /\ worker[w].wire \in Wire /\ worker[w] \in Job
    BY <1>7, <1>12 DEF Persist, Doing, Carrying
  <2>2. CASE ~StillPrepared(i)
    BY <1>r, <1>12, <2>1, <2>2 DEF Persist
  <2>3. CASE StillPrepared(i)
    <3>1. /\ intents' = [intents EXCEPT ![i] = "submitted"]
          /\ signature' = [signature EXCEPT ![i] = worker[w].wire]
          /\ message' = [message EXCEPT ![i] = worker[w].wire]
          /\ worker' = [worker EXCEPT ![w] = [worker[w] EXCEPT !.at = "send"]]
          /\ UNCHANGED <<sent, landed>>
      BY <1>12, <2>3 DEF Persist, Then
    <3>2. /\ Recorded(i) /\ signature[i] = None
          /\ sent[i] = {} /\ landed[i] = {}
      BY <1>2, <2>1, <2>3 DEF WireInv, Recorded, StillPrepared
    <3>3. \A j \in Intents : Recorded(j)'
      BY <1>2, <2>1, <3>1, <3>2 DEF WireInv, Recorded
    <3>4. OnRecord(w)'
      <4>1. worker'[w] = [worker[w] EXCEPT !.at = "send"] /\ signature'[i] = worker[w].wire
        BY <1>2, <2>1, <3>1
      <4>2. worker'[w].id = i /\ worker'[w].wire = worker[w].wire
        BY <2>1, <4>1 DEF Job
      <4> QED
        BY <4>1, <4>2 DEF OnRecord
    <3>5. ASSUME NEW v \in Workers \ {w} PROVE OnRecord(v)'
      <4>1. worker'[v] = worker[v]
        BY <1>2, <3>1
      <4>2. CASE worker[v] # None
        <5>1. OnRecord(v) /\ Carrying(v) /\ worker[v].id \in Intents
          BY <1>7, <4>2
        <5> QED
          BY <1>2, <2>1, <3>1, <3>2, <4>1, <4>2, <5>1 DEF OnRecord, Carrying
      <4> QED
        BY <4>1, <4>2 DEF OnRecord
    <3> QED
      BY <1>1, <3>3, <3>4, <3>5 DEF WireInv
  <2> QED
    BY <2>2, <2>3
<1>13. ASSUME NEW w \in Workers, Send(w)
       PROVE  WireInv'
  <2> DEFINE i == worker[w].id
  <2>1. worker[w] # None /\ i \in Intents /\ worker[w].wire = signature[i]
    BY <1>7, <1>13 DEF Send, Doing, OnRecord
  <2>2. /\ Done(w) /\ UNCHANGED <<intents, signature, message, landed>>
        /\ sent' = [sent EXCEPT ![i] = @ \cup {signature[i]}] \/ sent' = sent
    BY <1>13, <2>1 DEF Send
  <2>3. \A j \in Intents : Recorded(j)'
    BY <1>2, <2>1, <2>2 DEF WireInv, Recorded
  <2>4. \A v \in Workers : OnRecord(v)'
    BY <1>2, <2>2 DEF WireInv, OnRecord, Done
  <2> QED
    BY <1>1, <2>3, <2>4 DEF WireInv
<1>14. ASSUME NEW w \in Workers, ReadIntent(w)
       PROVE  WireInv'
  <2>1. UNCHANGED <<intents, signature, message, sent, landed>>
    BY <1>14 DEF ReadIntent, OnlyWorker
  <2>2. CASE Done(w)
    BY <1>4, <2>1, <2>2
  <2>3. CASE ~Done(w)
    <3> DEFINE i == worker[w].id
               resend == worker[w].resend /\ intents[i] = "submitted"
               step == IF signature[i] = None THEN "height" ELSE "status"
    <3>1. worker'[w] = [at |-> step, id |-> i, wire |-> signature[i], resend |-> resend]
          /\ \A v \in Workers \ {w} : worker'[v] = worker[v]
      BY <1>2, <1>14, <2>3 DEF ReadIntent, Now
    <3>2. OnRecord(w)'
      BY <2>1, <3>1 DEF OnRecord
    <3> QED
      BY <1>1, <2>1, <3>1, <3>2, WireReads
  <2> QED
    BY <2>2, <2>3
<1>15. ASSUME NEW w \in Workers, ReadStatus(w)
       PROVE  WireInv'
  <2>1. worker[w] # None /\ worker[w].at = "status"
    BY <1>15 DEF ReadStatus, Doing
  <2>2. worker[w].id \in Intents /\ worker[w].wire = signature[worker[w].id]
    BY <1>7, <2>1 DEF OnRecord
  <2>3. PICK status : Now(w, worker[w].id, worker[w].wire,
                          worker[w].resend /\ status = "absent",
                          AfterStatus(worker[w].id, status))
    BY <1>15 DEF ReadStatus
  <2>4. AfterStatus(worker[w].id, status) \notin {"send", "status", "rebroadcast"}
    BY DEF AfterStatus
  <2>5. UNCHANGED <<intents, signature, message, sent, landed>>
    BY <1>15 DEF ReadStatus, OnlyWorker
  <2> QED
    BY <1>5, <2>2, <2>3, <2>4, <2>5
<1>16. ASSUME NEW w \in Workers, CheckFailure(w) \/ ReadPool(w)
       PROVE  WireInv'
  BY <1>4, <1>6, <1>16 DEF CheckFailure, ReadPool, Doing, OnlyWorker
<1>17. ASSUME NEW w \in Workers, ReadHeight(w)
       PROVE  WireInv'
  <2> DEFINE i == worker[w].id
  <2>1. worker[w] # None /\ worker[w].at = "height"
    BY <1>17 DEF ReadHeight, Doing
  <2>2. UNCHANGED <<intents, signature, message, sent, landed>>
    BY <1>17 DEF ReadHeight, OnlyWorker
  <2>3. CASE Then(w, AfterExpiry(i))
    <3>1. AfterExpiry(i) \in {"pool", "expire"}
      BY DEF AfterExpiry
    <3> QED
      BY <1>6, <2>1, <2>2, <2>3, <3>1
  <2>4. CASE worker[w].resend /\ Then(w, "rebroadcast")
    BY <1>6, <1>7, <2>1, <2>2, <2>4 DEF OnRecord
  <2>5. CASE Done(w)
    BY <1>4, <2>2, <2>5
  <2> QED
    BY <1>17, <2>3, <2>4, <2>5 DEF ReadHeight
<1>18. ASSUME NEW w \in Workers, GiveUp(w) \/ Activate(w)
       PROVE  WireInv'
  BY <1>6, <1>18 DEF GiveUp, Activate, Doing
<1>19. ASSUME NEW w \in Workers, Fail(w) \/ Confirm(w) \/ Expire(w)
       PROVE  WireInv'
  <2> DEFINE i == worker[w].id
  <2>1. i \in Intents
    BY <1>7, <1>19 DEF Fail, Confirm, Expire, Doing
  <2>2. /\ Done(w) /\ UNCHANGED <<signature, message, sent, landed>>
        /\ intents'[i] \in Terminal /\ \A j \in Intents \ {i} : intents'[j] = intents[j]
    BY <1>2, <1>19, <2>1 DEF Fail, Confirm, Expire, Terminal
  <2>3. \A j \in Intents : Recorded(j)'
    BY <2>2 DEF WireInv, Recorded, Terminal
  <2>4. \A v \in Workers : OnRecord(v)'
    BY <1>2, <2>2 DEF WireInv, OnRecord, Done
  <2> QED
    BY <1>1, <2>3, <2>4 DEF WireInv
<1>20. ASSUME NEW i \in Intents,
              Drop(i) \/ \E s \in Wire, ok \in BOOLEAN : Land(i, s, ok)
       PROVE  WireInv'
  <2>1. /\ UNCHANGED <<intents, signature, message, sent, worker>>
        /\ \A j \in Intents : \A x \in landed'[j] : x \in landed[j] \/ x.wire \in sent[j]
    BY <1>2, <1>20 DEF Drop, Land
  <2>2. \A j \in Intents : Recorded(j)'
    BY <2>1 DEF WireInv, Recorded
  <2>3. \A v \in Workers : OnRecord(v)'
    BY <2>1 DEF WireInv, OnRecord
  <2> QED
    BY <1>1, <2>2, <2>3 DEF WireInv
<1>21. CASE \/ Tick \/ UNCHANGED vars
            \/ \E l \in Launches : Reserve(l) \/ UndoReservation(l) \/ DieLaunching(l)
            \/ \E w \in Workers : DieReleasing(w) \/ Release(w)
                                  \/ \E t \in Tickers : FindInactive(w, t)
  BY <1>3, <1>21 DEF Tick, vars, Reserve, UndoReservation, DieLaunching, DieReleasing,
     Release, FindInactive
<1>22. ASSUME NEW w \in Workers, Die(w)
       PROVE  WireInv'
  BY <1>4, <1>22 DEF Die
<1> QED
  BY <1>8, <1>9, <1>10, <1>11, <1>12, <1>13, <1>14, <1>15, <1>16, <1>17, <1>18, <1>19,
     <1>20, <1>21, <1>22 DEF Next, HandlerStep, Environment

LEMMA WireRecorded == WireInv => OnlyRecordedWireRuns
  BY RegistryAssumption DEF WireInv, Recorded, OnlyRecordedWireRuns, TypeInv, TypeOK

(* Whatever two requests submit for one intent, on a chain that may drop   *)
(* blocks and histories that lag, only the wire on record is ever executed *)
(* (RecordedWireRuns of the runs, for any instance).                       *)
THEOREM OnlyRecordedWires == Spec => []OnlyRecordedWireRuns
<1> QED
  BY WireInit, WireStep, WireRecorded, PTL DEF Spec

====
