------------------------------ MODULE PoolSetup -----------------------------
(* The owner creates the pool configuration of a quote asset: the server   *)
(* prepares it, resumes an unfinished review or retires one that is about  *)
(* to expire, the owner signs it, and the operator deploys its address.    *)
(* A launch accepts a deployed configuration only if it matches the        *)
(* published curve.  Heights are blocks, a review is valid for Window.     *)
EXTENDS Naturals, FiniteSets

CONSTANTS None,
          Prices,                     \* thresholds today's price would give
          Deployed,                   \* configurations deployed before
          Window, Nearly,             \* a review's validity, and its end
          MaxIntents, MaxHeight       \* bounds

VARIABLES price, height,
          env,        \* the deployed configuration of the pair
          intents,    \* reviews in the order they were prepared
          chain,      \* configurations on the chain
          call,       \* a call that prepares a configuration
          signed,     \* reviews the owner's wallet has signed
          submitting, \* a submission between its read and its update
          polling,    \* another reconcile between its reads and its write
          missed      \* reviews marked expired although they had landed

vars == <<price, height, env, intents, chain, call, signed, submitting, polling, missed>>

Ids == 1..MaxIntents

(* ------------------------------ the curve ------------------------------ *)

(* What defaultCurve builds for a new pair, and what a launch checks of a  *)
(* deployed one; old pairs keep their token program.                       *)
Curve(tokenType, threshold, migratedFee) ==
  [tokenType |-> tokenType, threshold |-> threshold, supply |-> 1000000000, fee |-> 125,
   creatorShare |-> 50, migration |-> "damm-v2", migratedFee |-> migratedFee, locked |-> 50]
DefaultCurve(threshold) == Curve("token2022", threshold, 125)

ConfiguredPool(config, tokenType) ==
  /\ config.tokenType = tokenType /\ config.supply = 1000000000
  /\ config.fee = 125 /\ config.creatorShare = 50
  /\ config.migration = "damm-v2" /\ config.migratedFee = 125 /\ config.locked = 50

SameCurve(curve, existing) == curve.threshold = existing.threshold

(* quoteAssets: a Token-2022 configuration takes the place of the old one. *)
Classic(threshold) == Curve("spl", threshold, 125)
Asset == [config |-> env, tokenType |-> IF env = None THEN "spl" ELSE env.tokenType]
Upgraded == Asset.config # None /\ Asset.tokenType = "token2022"

Idle == [at |-> "idle", id |-> 0]

Init ==
  /\ price \in Prices /\ height = 0
  /\ env \in {None} \cup {Classic(t) : t \in Deployed}
  /\ intents = [i \in Ids |-> None] /\ chain = {}
  /\ call = Idle /\ signed = {} /\ submitting = None
  /\ polling = None /\ missed = {}

(* ----------------------------- one preparation ------------------------- *)

Made == {i \in Ids : intents[i] # None}
Latest == IF Made = {} THEN 0 ELSE CHOOSE i \in Made : \A j \in Made : j <= i
Landed(i) == \E c \in chain : c.id = i

(* reconcile reads the row and the status of its signature, and some       *)
(* awaits later judges the height and writes by id, whatever the row says  *)
(* by then; a review that is over is left alone.                           *)
Look(i) ==
  [id |-> i, status |-> intents[i].status, landed |-> intents[i].sent /\ Landed(i)]

Open(look) == look.status \in {"prepared", "submitted"}
Verdict(look) ==
  IF ~Open(look) THEN look.status
  ELSE IF look.landed THEN "confirmed"
  ELSE IF height > intents[look.id].through THEN "expired" ELSE look.status

Conclude(look) ==
  LET written == Open(look) /\ Verdict(look) \in {"confirmed", "expired"} IN
  /\ intents' = IF written THEN [intents EXCEPT ![look.id].status = Verdict(look)]
                ELSE intents
  /\ missed' = IF written /\ Verdict(look) = "expired" /\ Landed(look.id)
                 THEN missed \cup {look.id} ELSE missed

ReadPrevious ==
  /\ call = Idle /\ ~Upgraded
  /\ call' = IF Latest = 0 THEN [at |-> "build", id |-> 0]
             ELSE [at |-> "settle", look |-> Look(Latest)]
  /\ UNCHANGED <<price, height, env, intents, chain, signed, submitting, polling, missed>>

SettlePrevious ==
  /\ call.at = "settle" /\ Conclude(call.look)
  /\ LET id == call.look.id
         status == Verdict(call.look)
         ending == intents[id].through < height + Nearly
     IN call' = IF status = "prepared" /\ ending THEN [at |-> "retire", id |-> id]
                ELSE IF status \in {"expired", "failed"} THEN [at |-> "build", id |-> 0]
                ELSE Idle
  /\ UNCHANGED <<price, height, env, chain, signed, submitting, polling>>

(* The page's polls, the job and a call whose retirement came too late     *)
(* reconcile a review as well.                                             *)
Poll(i) ==
  /\ polling = None /\ i \in Made /\ Open(Look(i))
  /\ polling' = Look(i)
  /\ UNCHANGED <<price, height, env, intents, chain, call, signed, submitting, missed>>

PollEnds ==
  /\ polling # None /\ Conclude(polling) /\ polling' = None
  /\ UNCHANGED <<price, height, env, chain, call, signed, submitting>>

(* The review is retired only while nothing was submitted for it.          *)
Unsubmitted(i) == intents[i].status = "prepared" /\ ~intents[i].sent

Retire ==
  /\ call.at = "retire"
  /\ IF Unsubmitted(call.id)
       THEN /\ intents' = [intents EXCEPT ![call.id].status = "expired"]
            /\ call' = [at |-> "build", id |-> 0]
       ELSE call' = Idle /\ UNCHANGED intents
  /\ UNCHANGED <<price, height, env, chain, signed, submitting, polling, missed>>

(* An existing pair keeps its curve; a new one is priced today.            *)
AtTodaysPrice == DefaultCurve(price)
Replacement ==
  LET old == Asset.config
      curve == DefaultCurve(IF old = None THEN price ELSE old.threshold)
  IN IF old # None /\ ~SameCurve(curve, old) THEN None ELSE curve

(* The threshold is read, and the review stored some awaits later.         *)
BuildCurve ==
  /\ call.at = "build"
  /\ call' = IF Replacement = None THEN Idle ELSE [at |-> "insert", id |-> 0, curve |-> Replacement]
  /\ UNCHANGED <<price, height, env, intents, chain, signed, submitting, polling, missed>>

PrepareIntent ==
  /\ call.at = "insert" /\ Latest < MaxIntents
  /\ intents' = [intents EXCEPT ![Latest + 1] =
                   [status |-> "prepared", sent |-> FALSE, through |-> height + Window,
                    curve |-> call.curve]]
  /\ call' = Idle
  /\ UNCHANGED <<price, height, env, chain, signed, submitting, polling, missed>>

(* ------------------------- the wallet and the chain -------------------- *)

Sign(i) ==
  /\ i \in Made \ signed /\ intents[i].status = "prepared"
  /\ signed' = signed \cup {i}
  /\ UNCHANGED <<price, height, env, intents, chain, call, submitting, polling, missed>>

ReadIntent(i) ==
  /\ submitting = None /\ i \in signed
  /\ intents[i].status = "prepared" /\ height <= intents[i].through
  /\ submitting' = i
  /\ UNCHANGED <<price, height, env, intents, chain, call, signed, polling, missed>>

Persist ==
  /\ submitting # None
  /\ intents' = IF intents[submitting].status = "prepared"
                  THEN [intents EXCEPT ![submitting].status = "submitted", ![submitting].sent = TRUE]
                  ELSE intents
  /\ submitting' = None
  /\ UNCHANGED <<price, height, env, chain, call, signed, polling, missed>>

Land(i) ==
  /\ i \in Made /\ ~Landed(i)
  /\ intents[i].sent /\ height <= intents[i].through
  /\ chain' = chain \cup {[id |-> i, curve |-> intents[i].curve]}
  /\ UNCHANGED <<price, height, env, intents, call, signed, submitting, polling, missed>>

(* The operator sets the Token-2022 variable of the pair to a confirmed    *)
(* configuration, once.                                                    *)
Deploy(i) ==
  /\ ~Upgraded
  /\ \E c \in chain : c.id = i /\ env' = c.curve
  /\ UNCHANGED <<price, height, intents, chain, call, signed, submitting, polling, missed>>

PriceMoves ==
  /\ price' \in Prices \ {price}
  /\ UNCHANGED <<height, env, intents, chain, call, signed, submitting, polling, missed>>

Tick ==
  /\ height < MaxHeight /\ height' = height + 1
  /\ UNCHANGED <<price, env, intents, chain, call, signed, submitting, polling, missed>>

Next ==
  \/ ReadPrevious \/ SettlePrevious \/ Retire \/ BuildCurve \/ PrepareIntent
  \/ \E i \in Ids : Sign(i) \/ ReadIntent(i) \/ Land(i) \/ Deploy(i)
  \/ \E i \in Ids : Poll(i)
  \/ PollEnds \/ Persist \/ PriceMoves \/ Tick
Spec == Init /\ [][Next]_vars

(* ------------------------------ properties ----------------------------- *)

TypeOK ==
  /\ price \in Prices /\ height \in 0..MaxHeight
  /\ \A i \in Made : intents[i].status \in {"prepared", "submitted", "confirmed", "expired"}
  /\ signed \subseteq Made /\ submitting \in Ids \cup {None}
  /\ call.at \in {"idle", "settle", "retire", "build", "insert"}

(* The rent of a configuration is paid twice only after reconcile marked a *)
(* review expired that had landed (between its lookup of the signature and *)
(* its write): then the next call builds another. However else reviews are *)
(* retired, resumed, expired and submitted late, one configuration lands.  *)
OneConfigPays == Cardinality({c \in chain : c.id \notin missed}) <= 1

(* A deployed configuration is one that launches accept.                   *)
DeployedIsAccepted == env # None => ConfiguredPool(env, Asset.tokenType)

(* A pair that is moved to Token-2022 keeps the curve it was deployed      *)
(* with, whatever the price did meanwhile.                                 *)
CurveIsKept == env # None => SameCurve(env', env)
=============================================================================
