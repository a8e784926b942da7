--------------------------- MODULE LaunchRegistry ---------------------------
(***************************************************************************)
(* The launchpad's transactions (apps/web/src/lib/launchpad/transactions): *)
(* the reservation of tickers, the intents a wallet reviews and signs, and *)
(* the two handlers that carry them through, submit and reconcile. Both    *)
(* run in many requests and in the cron job at once, read and write the    *)
(* database and the chain one await at a time, and may die between any two *)
(* of these steps; every step between awaits is one action here.           *)
(***************************************************************************)
EXTENDS Naturals, FiniteSets

CONSTANTS
  Launches,      \* launch intents, each with its token
  Trades,        \* trade and creator claim intents: the wallet may change the fee
  Conversions,   \* other intents: a changed fee needs a second review
  Tickers,
  tickerOf,      \* ticker each launch asks for
  Workers,       \* requests and cron runs that call submit and reconcile
  None,
  HistoryLags,   \* a status lookup may miss a transaction that landed
  Forks,         \* a block that is not yet confirmed may be dropped
  Validity,      \* blocks a blockhash lives
  MaxHeight,     \* bound on the chain's height
  MaxCrashes     \* bound on requests that die half way

Intents == Launches \cup Trades \cup Conversions

(* The transaction as reviewed, and the same with another priority fee.    *)
Wire == {"reviewed", "refeed"}

ASSUME RegistryAssumption ==
  /\ Launches \cap (Trades \cup Conversions) = {} /\ Trades \cap Conversions = {}
  /\ tickerOf \in [Launches -> Tickers]
  /\ None \notin Intents \cup Wire
  /\ HistoryLags \in BOOLEAN /\ Forks \in BOOLEAN
  /\ Validity \in Nat /\ MaxHeight \in Nat /\ MaxCrashes \in Nat

VARIABLES
  tokens,        \* launch_tokens.status; "absent" without a row
  claims,        \* ticker_claims: the token that holds each ticker
  launching,     \* launch calls between the reservation and the intent
  intents,       \* transaction_intents.status; "absent" without a row
  message,       \* the message under review, then the one submitted
  signature,     \* the signature stored, named by the wire it signs
  validThrough,  \* last_valid_block_height
  worker,        \* what each request is about to do; None when it is idle
  releasing,     \* release a cron run has decided and not yet written
  height,        \* confirmed block height
  sent,          \* wires of each intent that reached the network
  landed,        \* transactions of each intent included in a block
  crashes        \* requests that died

dbVars == <<tokens, claims, intents, message, signature, validThrough>>
chainVars == <<height, landed>>
vars == <<dbVars, launching, worker, releasing, chainVars, sent, crashes>>

Landing == [wire : Wire, at : Nat, ok : BOOLEAN]

Step ==
  {"check", "persist", "send",                                  \* submit
   "read", "status", "failed", "giveUp", "fail", "activate", "confirm",
   "height", "pool", "expire", "rebroadcast"}                \* reconcile

Job ==
  [at : Step, id : Intents, wire : Wire \cup {None}, resend : BOOLEAN]

Decision == [claim : Launches, pools : SUBSET Launches]

Status == {"absent", "prepared", "submitted", "confirmed", "failed", "expired"}
Terminal == {"confirmed", "failed", "expired"}

TypeOK ==
  /\ tokens \in [Launches -> {"absent", "draft", "active", "failed", "expired",
                              "released"}]
  /\ claims \in [Tickers -> Launches \cup {None}]
  /\ launching \subseteq Launches
  /\ intents \in [Intents -> Status]
  /\ message \in [Intents -> Wire]
  /\ signature \in [Intents -> Wire \cup {None}]
  /\ validThrough \in [Intents -> Nat]
  /\ worker \in [Workers -> Job \cup {None}]
  /\ releasing \in [Workers -> Decision \cup {None}]
  /\ height \in Nat
  /\ sent \in [Intents -> SUBSET Wire]
  /\ landed \in [Intents -> SUBSET Landing]
  /\ crashes \in Nat

Init ==
  /\ tokens = [l \in Launches |-> "absent"]
  /\ claims = [t \in Tickers |-> None]
  /\ launching = {}
  /\ intents = [i \in Intents |-> "absent"]
  /\ message = [i \in Intents |-> "reviewed"]
  /\ signature = [i \in Intents |-> None]
  /\ validThrough = [i \in Intents |-> 0]
  /\ worker = [w \in Workers |-> None]
  /\ releasing = [w \in Workers |-> None]
  /\ height = 0
  /\ sent = [i \in Intents |-> {}]
  /\ landed = [i \in Intents |-> {}]
  /\ crashes = 0

(* What the chain answers at "confirmed" commitment. *)
PoolExists(i) ==
  i \in Launches /\ \E x \in landed[i] : x.ok /\ x.at <= height

(* getSignatureStatuses also reports blocks that are not confirmed yet.    *)
TrueStatus(i, s) ==
  IF \E x \in landed[i] : x.wire = s /\ ~x.ok THEN "err"
  ELSE IF \E x \in landed[i] : x.wire = s /\ x.at <= height THEN "confirmed"
  ELSE IF \E x \in landed[i] : x.wire = s THEN "processed"
  ELSE "absent"

SeenStatus(i, s) ==
  {TrueStatus(i, s)} \cup (IF HistoryLags THEN {"absent"} ELSE {})

-----------------------------------------------------------------------------
(* launch *)

AnyoneHolds(t) == TRUE   \* mutant: an availability check, no unique key

NobodyHolds(t) == claims[t] = None

(* One database transaction inserts the draft token and its claim, or      *)
(* neither when the ticker is taken.                                       *)
Reserve(l) ==
  /\ tokens[l] = "absent"
  /\ NobodyHolds(tickerOf[l])
  /\ tokens' = [tokens EXCEPT ![l] = "draft"]
  /\ claims' = [claims EXCEPT ![tickerOf[l]] = l]
  /\ launching' = launching \cup {l}
  /\ UNCHANGED <<intents, message, signature, validThrough, worker, releasing,
                 chainVars, sent, crashes>>

WithoutTicker(l) ==      \* mutant: the claim is deleted by its ticker
  [claims EXCEPT ![tickerOf[l]] = None]

WithoutClaim(l) == [t \in Tickers |-> IF claims[t] = l THEN None ELSE claims[t]]

(* prepareIntent for any kind: the blockhash it stores was fetched some    *)
(* blocks before the row is written.                                       *)
PrepareIntent(i) ==
  /\ intents[i] = "absent"
  /\ i \in Launches => i \in launching
  /\ height + Validity < MaxHeight
  /\ \E v \in height .. height + Validity :
       validThrough' = [validThrough EXCEPT ![i] = v]
  /\ intents' = [intents EXCEPT ![i] = "prepared"]
  /\ launching' = launching \ {i}
  /\ UNCHANGED <<tokens, claims, message, signature, worker, releasing,
                 chainVars, sent, crashes>>

(* prepareIntent threw: launch takes its reservation back.                 *)
UndoReservation(l) ==
  /\ l \in launching
  /\ claims' = WithoutClaim(l)
  /\ tokens' = [tokens EXCEPT ![l] = "absent"]
  /\ launching' = launching \ {l}
  /\ UNCHANGED <<intents, message, signature, validThrough, worker, releasing,
                 chainVars, sent, crashes>>

(* reviewChangedFee: a fresh review of the message, unless it was submitted *)
(* or reviewed again in the meantime.  A launch may ask for one, but its   *)
(* mint's key, which must sign too, is gone: nothing that carries the new  *)
(* message verifies, so such a launch is one that nobody submits.          *)
ReviewChangedFee(i) ==
  /\ i \in Conversions
  /\ intents[i] = "prepared" /\ message[i] = "reviewed"
  /\ height <= validThrough[i]
  /\ message' = [message EXCEPT ![i] = "refeed"]
  /\ UNCHANGED <<tokens, claims, intents, signature, validThrough, launching,
                 worker, releasing, chainVars, sent, crashes>>

-----------------------------------------------------------------------------
(* submit *)

Doing(w, step) == worker[w] # None /\ worker[w].at = step

Serving(w, i) == worker[w] # None /\ worker[w].id = i

Now(w, i, wire, resend, step) ==
  worker' = [worker EXCEPT ![w] =
               [at |-> step, id |-> i, wire |-> wire, resend |-> resend]]

Then(w, step) == worker' = [worker EXCEPT ![w].at = step]

Done(w) == worker' = [worker EXCEPT ![w] = None]

OnlyWorker == UNCHANGED <<dbVars, launching, releasing, chainVars, sent, crashes>>

(* The wallet's wire must carry the reviewed message, but for the priority *)
(* fee of a trade or a claim.                                              *)
Accepted(i, wire) == wire = message[i] \/ i \in Trades

Submit(w, i, wire) ==
  /\ worker[w] = None
  /\ intents[i] # "absent"
  /\ IF intents[i] # "prepared"
     THEN Now(w, i, None, FALSE, "read")
     ELSE Accepted(i, wire) /\ Now(w, i, wire, TRUE, "check")
  /\ OnlyWorker

CheckHeight(w) ==
  /\ Doing(w, "check")
  /\ IF height > validThrough[worker[w].id]
     THEN Now(w, worker[w].id, None, TRUE, "read")
     ELSE Then(w, "persist")
  /\ OnlyWorker

AnyStatus(i) == TRUE     \* mutant: the row is updated by its id alone

StillPrepared(i) == intents[i] = "prepared"

(* The row turns "submitted" only if it is still "prepared".               *)
Persist(w) ==
  /\ Doing(w, "persist")
  /\ LET i == worker[w].id IN
     IF StillPrepared(i)
     THEN /\ intents' = [intents EXCEPT ![i] = "submitted"]
          /\ signature' = [signature EXCEPT ![i] = worker[w].wire]
          /\ message' = [message EXCEPT ![i] = worker[w].wire]
          /\ Then(w, "send")
     ELSE /\ Now(w, i, None, FALSE, "read")
          /\ UNCHANGED <<intents, signature, message>>
  /\ UNCHANGED <<tokens, claims, validThrough, launching, releasing, chainVars,
                 sent, crashes>>

(* sendRawTransaction: an error does not tell whether the network has it.  *)
Send(w) ==
  /\ Doing(w, "send") \/ Doing(w, "rebroadcast")
  /\ \/ sent' = [sent EXCEPT ![worker[w].id] = @ \cup {worker[w].wire}]
     \/ UNCHANGED sent
  /\ Done(w)
  /\ UNCHANGED <<dbVars, launching, releasing, chainVars, crashes>>

-----------------------------------------------------------------------------
(* reconcile *)

PendingSubmitted(i) ==   \* mutant: the cron job skips unsigned intents
  intents[i] = "submitted"

Pending(i) == intents[i] \in {"prepared", "submitted"}

(* From the status route, from other handlers, and from the cron job.      *)
Reconcile(w, i) ==
  /\ worker[w] = None
  /\ Pending(i)
  /\ Now(w, i, None, TRUE, "read")
  /\ OnlyWorker

ReadIntent(w) ==
  /\ Doing(w, "read")
  /\ LET i == worker[w].id IN
     IF intents[i] \in Terminal
     THEN Done(w)
     ELSE Now(w, i, signature[i],
              worker[w].resend /\ intents[i] = "submitted",
              IF signature[i] = None THEN "height" ELSE "status")
  /\ OnlyWorker

RawStatus(i, status) == status   \* mutant: the answer is not interpreted

AcceptProcessed(i, status) ==    \* mutant: any block will do
  CASE status = "err" -> "failed"
    [] status = "absent" -> "height"
    [] OTHER -> "confirm"

AfterStatus(i, status) ==
  CASE status = "err" -> "failed"
    [] status = "confirmed" -> IF i \in Launches THEN "activate" ELSE "confirm"
    [] OTHER -> "height"

ReadStatus(w) ==
  /\ Doing(w, "status")
  /\ LET i == worker[w].id IN
     \E status \in SeenStatus(i, worker[w].wire) :
       Now(w, i, worker[w].wire, worker[w].resend /\ status = "absent",
           AfterStatus(i, status))
  /\ OnlyWorker

(* The chain rejected a launch: unless its pool exists after all, the      *)
(* ticker and the token are given up before the intent is marked.          *)
CheckFailure(w) ==
  /\ Doing(w, "failed")
  /\ Then(w, IF worker[w].id \in Launches /\ ~PoolExists(worker[w].id)
             THEN "giveUp" ELSE "fail")
  /\ OnlyWorker

GiveUp(w) ==
  /\ Doing(w, "giveUp")
  /\ claims' = WithoutClaim(worker[w].id)
  /\ tokens' = [tokens EXCEPT ![worker[w].id] = "failed"]
  /\ Then(w, "fail")
  /\ UNCHANGED <<intents, message, signature, validThrough, launching, releasing,
                 chainVars, sent, crashes>>

Fail(w) ==
  /\ Doing(w, "fail")
  /\ intents' = [intents EXCEPT ![worker[w].id] = "failed"]
  /\ Done(w)
  /\ UNCHANGED <<tokens, claims, message, signature, validThrough, launching,
                 releasing, chainVars, sent, crashes>>

(* The pool has been verified, with its fee allocation when it has one.    *)
Activate(w) ==
  /\ Doing(w, "activate")
  /\ PoolExists(worker[w].id)
  /\ tokens' = [tokens EXCEPT ![worker[w].id] = "active"]
  /\ Then(w, "confirm")
  /\ UNCHANGED <<claims, intents, message, signature, validThrough, launching,
                 releasing, chainVars, sent, crashes>>

Confirm(w) ==
  /\ Doing(w, "confirm")
  /\ intents' = [intents EXCEPT ![worker[w].id] = "confirmed"]
  /\ Done(w)
  /\ UNCHANGED <<tokens, claims, message, signature, validThrough, launching,
                 releasing, chainVars, sent, crashes>>

OnceExpired(i) == "expire"       \* mutant: the pool is not looked for

AfterExpiry(i) == IF i \in Launches THEN "pool" ELSE "expire"

(* The blockhash is judged after the status was read.                      *)
ReadHeight(w) ==
  /\ Doing(w, "height")
  /\ LET i == worker[w].id IN
     \/ /\ height > validThrough[i]
        /\ Then(w, AfterExpiry(i))
     \/ height <= validThrough[i] /\ worker[w].resend /\ Then(w, "rebroadcast")
     \/ height <= validThrough[i] /\ ~worker[w].resend /\ Done(w)
  /\ OnlyWorker

(* An ambiguous launch stays reserved while its pool exists.               *)
ReadPool(w) ==
  /\ Doing(w, "pool")
  /\ IF PoolExists(worker[w].id) THEN Done(w) ELSE Then(w, "expire")
  /\ OnlyWorker

(* One database transaction, whatever the rows hold by now.                *)
Expire(w) ==
  /\ Doing(w, "expire")
  /\ LET i == worker[w].id IN
     /\ intents' = [intents EXCEPT ![i] = "expired"]
     /\ IF i \in Launches
        THEN claims' = WithoutClaim(i) /\ tokens' = [tokens EXCEPT ![i] = "expired"]
        ELSE UNCHANGED <<claims, tokens>>
  /\ Done(w)
  /\ UNCHANGED <<message, signature, validThrough, launching, releasing, chainVars,
                 sent, crashes>>

-----------------------------------------------------------------------------
(* releaseInactiveTickers, in the cron job *)

ActivePools(t) == {l \in Launches : tickerOf[l] = t /\ tokens[l] = "active"}

(* Thirty quiet days have passed over the pools: far more than a request   *)
(* lives, and the cron job has settled their intents many times over.      *)
ThirtyDays(pools) ==
  \A l \in pools : /\ intents[l] = "confirmed"
                   /\ ~ \E w \in Workers : Serving(w, l)

FindInactive(w, t) ==
  /\ releasing[w] = None
  /\ claims[t] # None
  /\ ActivePools(t) # {}
  /\ ThirtyDays(ActivePools(t))
  /\ releasing' = [releasing EXCEPT ![w] =
                     [claim |-> claims[t], pools |-> ActivePools(t)]]
  /\ UNCHANGED <<dbVars, launching, worker, chainVars, sent, crashes>>

EveryHolder(l) == TRUE           \* mutant: the claim is deleted by its ticker

StillHolds(l) == claims[tickerOf[l]] = l

(* The claim is removed only if it is still the one that was read.         *)
Release(w) ==
  /\ releasing[w] # None
  /\ releasing' = [releasing EXCEPT ![w] = None]
  /\ LET c == releasing[w].claim
         pools == releasing[w].pools
     IN IF StillHolds(c)
        THEN /\ claims' = [claims EXCEPT ![tickerOf[c]] = None]
             /\ tokens' = [l \in Launches |->
                             IF l \in pools THEN "released" ELSE tokens[l]]
        ELSE UNCHANGED <<claims, tokens>>
  /\ UNCHANGED <<intents, message, signature, validThrough, launching, worker,
                 chainVars, sent, crashes>>

-----------------------------------------------------------------------------
(* Requests that die or throw, and the chain *)

Die(w) ==
  /\ worker[w] # None /\ crashes < MaxCrashes
  /\ Done(w)
  /\ crashes' = crashes + 1
  /\ UNCHANGED <<dbVars, launching, releasing, chainVars, sent>>

DieLaunching(l) ==
  /\ l \in launching /\ crashes < MaxCrashes
  /\ launching' = launching \ {l}
  /\ crashes' = crashes + 1
  /\ UNCHANGED <<dbVars, worker, releasing, chainVars, sent>>

DieReleasing(w) ==
  /\ releasing[w] # None /\ crashes < MaxCrashes
  /\ releasing' = [releasing EXCEPT ![w] = None]
  /\ crashes' = crashes + 1
  /\ UNCHANGED <<dbVars, launching, worker, chainVars, sent>>

Tick ==
  /\ height < MaxHeight
  /\ height' = height + 1
  /\ UNCHANGED <<dbVars, launching, worker, releasing, landed, sent, crashes>>

(* The next block includes a wire, executed or rejected, once and while    *)
(* its blockhash is valid.                                                 *)
Land(i, s, ok) ==
  /\ s \in sent[i]
  /\ height < validThrough[i]
  /\ \A x \in landed[i] : x.wire # s
  /\ landed' = [landed EXCEPT ![i] =
                   @ \cup {[wire |-> s, at |-> height + 1, ok |-> ok]}]
  /\ UNCHANGED <<dbVars, launching, worker, releasing, height, sent, crashes>>

(* The chain settles on a fork without that block.                         *)
Drop(i) ==
  /\ Forks
  /\ \E x \in landed[i] :
       x.at > height /\ landed' = [landed EXCEPT ![i] = @ \ {x}]
  /\ UNCHANGED <<dbVars, launching, worker, releasing, height, sent, crashes>>

-----------------------------------------------------------------------------

HandlerStep(w) ==
  \/ CheckHeight(w) \/ Persist(w) \/ Send(w)
  \/ ReadIntent(w) \/ ReadStatus(w) \/ CheckFailure(w) \/ GiveUp(w) \/ Fail(w)
  \/ Activate(w) \/ Confirm(w) \/ ReadHeight(w) \/ ReadPool(w) \/ Expire(w)

Environment ==
  \/ Tick
  \/ \E i \in Intents : Drop(i) \/ \E s \in Wire, ok \in BOOLEAN : Land(i, s, ok)
  \/ \E w \in Workers : Die(w) \/ DieReleasing(w)
  \/ \E l \in Launches : DieLaunching(l)

Next ==
  \/ \E l \in Launches : Reserve(l) \/ UndoReservation(l)
  \/ \E i \in Intents : PrepareIntent(i) \/ ReviewChangedFee(i)
  \/ \E w \in Workers, i \in Intents :
       Reconcile(w, i) \/ \E s \in Wire : Submit(w, i, s)
  \/ \E w \in Workers : HandlerStep(w)
  \/ \E w \in Workers : Release(w) \/ \E t \in Tickers : FindInactive(w, t)
  \/ Environment

Spec == Init /\ [][Next]_vars

(* A handler takes its next step unless its request dies, blocks keep      *)
(* coming, and a launch call that reserved its ticker goes on.  That       *)
(* reconcile is called for an intent is not assumed here: ComesBackTo.     *)
Fairness ==
  /\ WF_vars(Tick)
  /\ \A w \in Workers : WF_vars(HandlerStep(w))
  /\ \A l \in Launches : WF_vars(PrepareIntent(l) \/ UndoReservation(l))

FairSpec == Spec /\ Fairness

(* Reconcile is called for the intent again and again while it is pending. *)
(* Its own page does so while it is open and the intent submitted; the job *)
(* takes any thirty pending rows, stops twenty seconds before its deadline,*)
(* and at the first row that throws (runIndexer), so it comes back to this *)
(* one if those it takes before do not throw and leave it the time.        *)
ComesBackTo(i) == SF_vars(\E w \in Workers : Reconcile(w, i))

-----------------------------------------------------------------------------
(* Properties *)

(* A launch whose pool the chain has, confirmed or about to be, holds its  *)
(* ticker until the ticker is released for inactivity: no handler gives up *)
(* a reservation whose transaction can still succeed or already did.       *)
HasPool(l) == \E x \in landed[l] : x.ok

PoolHoldsTicker ==
  \A l \in Launches :
    HasPool(l) /\ tokens[l] # "released" => claims[tickerOf[l]] = l

(* An intent's terminal status is the outcome of its transaction on the    *)
(* chain: "confirmed" when it succeeded, "failed" or "expired" only when   *)
(* it did not and never will (docs/launchpad.md: "an unknown RPC outcome   *)
(* is polled rather than treated as a failed purchase").                   *)
SettledAsOnChain(i) ==
  /\ intents[i] = "confirmed" => \E x \in landed[i] : x.ok /\ x.at <= height
  /\ intents[i] \in {"failed", "expired"} =>
       ~ \E x \in landed[i] : x.ok

LaunchesSettleAsOnChain == \A l \in Launches : SettledAsOnChain(l)

LandedNeverExpired == \A i \in Trades : SettledAsOnChain(i)

(* Whatever two tabs submit for one intent, only one wire is ever executed, *)
(* and its message and signature are the ones on record ("Transaction      *)
(* signatures are persisted before broadcast", docs/launchpad.md).         *)
OnlyRecordedWireRuns ==
  \A i \in Intents : \A x \in landed[i] :
    signature[i] = x.wire /\ message[i] = x.wire

(* A ticker leaves a token only together with that token's own end: it     *)
(* failed, expired, was undone or released, and is not a draft that can    *)
(* still be signed nor an active token ("A stale worker cannot delete a    *)
(* newer owner's claim", docs/launchpad.md).                               *)
ClaimOutlivesToken ==
  [][\A l \in Launches :
       claims[tickerOf[l]] = l /\ claims'[tickerOf[l]] # l =>
         tokens'[l] \in {"absent", "failed", "expired", "released"}]_vars

(* An active token is only ever released, and a launch told "confirmed" is *)
(* never told anything else, however late another request writes.          *)
LaunchIsFinal ==
  [][\A l \in Launches :
       /\ tokens[l] = "active" => tokens'[l] \in {"active", "released"}
       /\ intents[l] = "confirmed" => intents'[l] = "confirmed"]_vars

(* Every intent that reached the wallet is settled in the end, if its page *)
(* or the job comes back to it.                                            *)
EveryIntentSettles ==
  \A i \in Intents :
    ComesBackTo(i) =>
      (intents[i] \in {"prepared", "submitted"} ~> intents[i] \in Terminal)

(* A reserved draft comes to an end: it goes live or its ticker is free.   *)
AbandonedReservationReleased ==
  \A l \in Launches :
    ComesBackTo(l) => (tokens[l] = "draft" ~> tokens[l] # "draft")

Registry ==
  INSTANCE TickerRegistry WITH
    owner <- claims,
    live <- {l \in Launches : HasPool(l) /\ tokens[l] # "released"}

(* The registry of tickers implements TickerRegistry, where only the owner *)
(* of a ticker comes to life and keeps it until retired.                   *)
ImplementsRegistry == Registry!Spec
=============================================================================
