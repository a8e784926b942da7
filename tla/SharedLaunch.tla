---------------------------- MODULE SharedLaunch ----------------------------
(* A launch whose first buy is paid from a conversion, and whose creator   *)
(* fees are shared: the conversion is confirmed first, the launch is       *)
(* prepared from what it stored, and a launch that landed becomes active   *)
(* after its allocation was verified on the chain and recorded; after      *)
(* quiet days it gives its ticker up again.                                *)
(* Launches are numbered in the order they are reserved, all for one       *)
(* ticker; submission and expiry are LaunchRegistry's, one step each here. *)
EXTENDS Naturals, FiniteSets

CONSTANTS None, Accounts,            \* X accounts
          Calls,                     \* calls of continueLaunch
          MaxLaunches, MaxCrashes, MaxPauses, MaxLinks   \* bounds

(* Nobody is no launch, and the rest of a split is no account.             *)
ASSUME LaunchAssumption ==
  /\ MaxLaunches \in Nat /\ MaxCrashes \in Nat
  /\ None \notin 0..MaxLaunches /\ "rest" \notin Accounts

VARIABLES linked,    \* the X account of the wallet
          looked,    \* are the recipients' profiles younger than a day?
          funding,   \* the conversion: its status, its split, what continues it
          call,      \* what a call of continueLaunch is doing
          ticker,    \* who holds it: a launch, another wallet (0), or nobody
          launch,    \* the launches, and what a reconcile of one has done
          recorded,  \* the allocations the fee service keeps
          paused, crashes, pauses, links

vars == <<linked, looked, funding, call, ticker, launch, recorded, paused, crashes, pauses, links>>

Ids == 1..MaxLaunches
NoLaunch == [status |-> "absent", split |-> {}, onChain |-> FALSE, verified |-> FALSE]
NoCall == [at |-> "idle", split |-> {}, id |-> 0]

(* A split is the set of the accounts that share; "rest" is what the user  *)
(* left over, which goes to the account the wallet is linked to.           *)
CompleteCreatorFeeShares(split) ==
  IF "rest" \in split THEN (split \ {"rest"}) \cup {linked} ELSE split

Init ==
  /\ linked \in Accounts /\ looked = TRUE
  /\ funding = [status |-> "none", split |-> {}, result |-> 0]
  /\ call = [c \in Calls |-> NoCall] /\ ticker = None
  /\ launch = [l \in Ids |-> NoLaunch] /\ recorded = [l \in Ids |-> None]
  /\ paused = FALSE /\ crashes = 0 /\ pauses = 0 /\ links = 0

Counters == <<crashes, pauses, links>>

(* --------------------------- the conversion ---------------------------- *)

(* The remainder is resolved once, here, and stored with the conversion.   *)
LaunchConversion ==
  /\ funding.status = "none" /\ ticker = None /\ looked
  /\ \E split \in {{a, "rest"} : a \in Accounts \ {linked}} \cup {Accounts} :
       funding' = [funding EXCEPT !.status = "prepared",
                                  !.split = CompleteCreatorFeeShares(split)]
  /\ UNCHANGED <<linked, looked, call, ticker, launch, recorded, paused, Counters>>

ConversionLands ==
  /\ funding.status = "prepared" /\ funding' = [funding EXCEPT !.status = "confirmed"]
  /\ UNCHANGED <<linked, looked, call, ticker, launch, recorded, paused, Counters>>

(* ------------------------- continuing the launch ----------------------- *)

ContinueLaunch(c) ==
  /\ call[c] = NoCall /\ funding.status = "confirmed"
  /\ funding.result = 0            \* otherwise its launch is answered
  /\ call' = [call EXCEPT ![c] = [at |-> "resolve", split |-> funding.split, id |-> 0]]
  /\ UNCHANGED <<linked, looked, funding, ticker, launch, recorded, paused, Counters>>

(* launch resolves what is still open and asks for fresh profiles.         *)
Resolve(c) ==
  /\ call[c].at = "resolve"
  /\ call' = [call EXCEPT ![c] =
       IF looked
       THEN [@ EXCEPT !.at = "allocate",
                      !.split = CompleteCreatorFeeShares(call[c].split)]
       ELSE NoCall]
  /\ UNCHANGED <<linked, looked, funding, ticker, launch, recorded, paused, Counters>>

(* The allocation instruction is not built while the escrow is paused.     *)
PrepareLaunchAllocation(c) ==
  /\ call[c].at = "allocate"
  /\ call' = [call EXCEPT ![c] = IF paused THEN NoCall ELSE [@ EXCEPT !.at = "reserve"]]
  /\ UNCHANGED <<linked, looked, funding, ticker, launch, recorded, paused, Counters>>

TickerFree == ticker = None

NextId == Cardinality({l \in Ids : launch[l] # NoLaunch}) + 1

(* The draft and its ticker are one transaction; the intent follows.       *)
Reserve(c) ==
  /\ call[c].at = "reserve" /\ NextId \in Ids
  /\ IF TickerFree
       THEN /\ ticker' = NextId
            /\ launch' = [launch EXCEPT ![NextId].status = "prepared", ![NextId].split = call[c].split]
            /\ call' = [call EXCEPT ![c].at = "continue", ![c].id = NextId]
       ELSE call' = [call EXCEPT ![c] = NoCall] /\ UNCHANGED <<ticker, launch>>
  /\ UNCHANGED <<linked, looked, funding, recorded, paused, Counters>>

RecordContinuation(c) ==
  /\ call[c].at = "continue"
  /\ funding' = [funding EXCEPT !.result = call[c].id]
  /\ call' = [call EXCEPT ![c] = NoCall]
  /\ UNCHANGED <<linked, looked, ticker, launch, recorded, paused, Counters>>

(* A call that dies after its launch was prepared leaves no continuation.  *)
Crash(c) ==
  /\ crashes < MaxCrashes /\ crashes' = crashes + 1
  /\ call[c].at = "continue" /\ call' = [call EXCEPT ![c] = NoCall]
  /\ UNCHANGED <<linked, looked, funding, ticker, launch, recorded, paused, pauses, links>>

(* --------------------------- the launch itself ------------------------- *)

Land(l) ==
  /\ launch[l].status = "prepared" /\ ~launch[l].onChain
  /\ launch' = [launch EXCEPT ![l].onChain = TRUE]
  /\ UNCHANGED <<linked, looked, funding, call, ticker, recorded, paused, Counters>>

Expire(l) ==
  /\ launch[l].status = "prepared" /\ ~launch[l].onChain
  /\ launch' = [launch EXCEPT ![l].status = "expired"]
  /\ ticker' = IF ticker = l THEN None ELSE ticker
  /\ UNCHANGED <<linked, looked, funding, call, recorded, paused, Counters>>

(* A reconcile of a landed launch: the runtime refuses while the escrow is *)
(* paused, the shares on the chain are compared with the saved ones, and   *)
(* the allocation is recorded, once, before the token becomes active.      *)
CreatorFeeRuntime == ~paused

SameAllocation(l) == recorded[l] \in {None, launch[l].split}

ReconcileLaunchAllocation(l) ==
  /\ launch[l].status = "prepared" /\ launch[l].onChain /\ ~launch[l].verified
  /\ CreatorFeeRuntime /\ SameAllocation(l)
  /\ recorded' = [recorded EXCEPT ![l] = launch[l].split]
  /\ launch' = [launch EXCEPT ![l].verified = TRUE]
  /\ UNCHANGED <<linked, looked, funding, call, ticker, paused, Counters>>

Unverified(l) == TRUE
Verified(l) == launch[l].verified

Activate(l) ==
  /\ launch[l].status = "prepared" /\ launch[l].onChain /\ Verified(l)
  /\ launch' = [launch EXCEPT ![l].status = "active"]
  /\ UNCHANGED <<linked, looked, funding, call, ticker, recorded, paused, Counters>>

(* A reconcile that dies between the two starts again.                     *)
DieReconciling(l) ==
  /\ crashes < MaxCrashes /\ crashes' = crashes + 1
  /\ launch[l].verified /\ launch[l].status = "prepared"
  /\ launch' = [launch EXCEPT ![l].verified = FALSE]
  /\ UNCHANGED <<linked, looked, funding, call, ticker, recorded, paused, pauses, links>>

(* ------------------------------ everyone else -------------------------- *)

Relink ==
  /\ links < MaxLinks /\ links' = links + 1
  /\ linked' \in Accounts \ {linked}
  /\ UNCHANGED <<looked, funding, call, ticker, launch, recorded, paused, crashes, pauses>>
ProfilesAge ==
  /\ links < MaxLinks /\ links' = links + 1 /\ looked /\ looked' = FALSE
  /\ UNCHANGED <<linked, funding, call, ticker, launch, recorded, paused, crashes, pauses>>
LookUp ==
  /\ ~looked /\ looked' = TRUE
  /\ UNCHANGED <<linked, funding, call, ticker, launch, recorded, paused, Counters>>
OthersTake ==
  /\ ticker = None /\ ticker' = 0
  /\ UNCHANGED <<linked, looked, funding, call, launch, recorded, paused, Counters>>
OthersGiveUp ==
  /\ ticker = 0 /\ ticker' = None
  /\ UNCHANGED <<linked, looked, funding, call, launch, recorded, paused, Counters>>

(* The indexer releases the ticker of a launch that traded too little for  *)
(* thirty days, in which every call of continueLaunch has long ended.      *)
ReleaseInactive(l) ==
  /\ launch[l].status = "active" /\ ticker = l /\ \A c \in Calls : call[c] = NoCall
  /\ launch' = [launch EXCEPT ![l].status = "released"] /\ ticker' = None
  /\ UNCHANGED <<linked, looked, funding, call, recorded, paused, Counters>>
Pause ==
  /\ pauses < MaxPauses /\ pauses' = pauses + 1 /\ ~paused /\ paused' = TRUE
  /\ UNCHANGED <<linked, looked, funding, call, ticker, launch, recorded, crashes, links>>
Unpause ==
  /\ paused /\ paused' = FALSE
  /\ UNCHANGED <<linked, looked, funding, call, ticker, launch, recorded, Counters>>

Reconciles(l) == ReconcileLaunchAllocation(l) \/ Activate(l)

Next ==
  \/ LaunchConversion \/ ConversionLands
  \/ \E c \in Calls : ContinueLaunch(c) \/ Resolve(c) \/ PrepareLaunchAllocation(c)
                      \/ Reserve(c) \/ RecordContinuation(c) \/ Crash(c)
  \/ \E l \in Ids : Land(l) \/ Expire(l) \/ Reconciles(l) \/ DieReconciling(l)
                     \/ ReleaseInactive(l)
  \/ Relink \/ ProfilesAge \/ LookUp \/ OthersTake \/ OthersGiveUp \/ Pause \/ Unpause

Spec == Init /\ [][Next]_vars

(* ------------------------------ properties ----------------------------- *)

TypeOK ==
  /\ linked \in Accounts /\ looked \in BOOLEAN /\ paused \in BOOLEAN
  /\ funding.status \in {"none", "prepared", "confirmed"} /\ funding.result \in 0..MaxLaunches
  /\ ticker \in 0..MaxLaunches \cup {None}
  /\ \A l \in Ids : launch[l].status \in {"absent", "prepared", "expired", "active", "released"}
  /\ crashes \in 0..MaxCrashes

(* A launch that can still be paid for, or was and has its ticker.         *)
Spends(l) ==
  \/ launch[l].status = "prepared"
  \/ launch[l].onChain /\ launch[l].status # "released"

(* Whatever calls continue it, at once or after a crash, a conversion is   *)
(* spent by one launch at most until that one is released.  Another is     *)
(* paid for after that only if no call had stored what continues it when   *)
(* the ticker was released: each of them died before.                      *)
SpentOnce ==
  /\ Cardinality({l \in Ids : Spends(l)}) <= 1
  /\ \A l, m \in Ids :
       launch[l].status = "released" /\ l < m /\ launch[m] # NoLaunch
         => funding.result = 0 \/ funding.result > l

(* The split of a launch is the one reviewed with the conversion, also     *)
(* when the wallet was linked to another account in between.               *)
SplitAsReviewed ==
  \A l \in Ids : launch[l] # NoLaunch => /\ launch[l].split = funding.split
                                         /\ "rest" \notin funding.split

(* An active launch has its allocation on record, the one on the chain.    *)
ActiveIsRecorded ==
  \A l \in Ids :
    launch[l].status \in {"active", "released"} => recorded[l] = launch[l].split

(* A conversion pays for one launch, or for another only after that one    *)
(* was released and nothing remembered it, with the split that was         *)
(* reviewed, recorded before the launch becomes active (continueLaunch,    *)
(* recordFeeAllocation); with the types of the state, what the run checks. *)
LaunchIsAsReviewed == TypeOK /\ SpentOnce /\ SplitAsReviewed /\ ActiveIsRecorded

(* A launch that landed becomes active, if the escrow is not paused for    *)
(* good and reconcile is called for it again and again (by its page while  *)
(* it is open, by the job when no row before it keeps it away): with those *)
(* the fairness, what the run checks of it.                                *)
LandedBecomesActive ==
  \A l \in Ids :
    (WF_vars(Unpause) /\ WF_vars(Reconciles(l))) =>
      (launch[l].onChain /\ launch[l].status = "prepared" ~> launch[l].status = "active")
=============================================================================
