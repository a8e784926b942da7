-------------------------- MODULE SharedLaunchProofs --------------------------
(***************************************************************************)
(* Theorems about SharedLaunch, for any accounts, number of calls that     *)
(* continue a conversion, launches, crashes and pauses. What stops a       *)
(* second launch is the ticker: a launch that may still land, or landed    *)
(* and was not released, holds it (LaunchInv), so nobody reserves again    *)
(* while one is there, and every call hands on the split stored with the   *)
(* conversion (CallInv), which has no remainder left to resolve.  Once a   *)
(* launch was released only a call that began without a continuation can   *)
(* reserve again, and it can only store a later launch (ReleasedInv): for  *)
(* that, the holder of the ticker is the last launch (Numbered).           *)
(***************************************************************************)
EXTENDS SharedLaunch, TLAPS, FiniteSetTheorems

Splits == SUBSET (Accounts \cup {"rest"})
Funding == [status : {"none", "prepared", "confirmed"}, split : Splits,
            result : 0..MaxLaunches]
Call == [at : {"idle", "resolve", "allocate", "reserve", "continue"},
         split : Splits, id : 0..MaxLaunches]
Launch == [status : {"absent", "prepared", "expired", "active", "released"}, split : Splits,
           onChain : BOOLEAN, verified : BOOLEAN]

Typed ==
  /\ linked \in Accounts /\ looked \in BOOLEAN /\ paused \in BOOLEAN
  /\ funding \in Funding /\ call \in [Calls -> Call] /\ launch \in [Ids -> Launch]
  /\ ticker \in 0..MaxLaunches \cup {None}
  /\ recorded \in [Ids -> Splits \cup {None}]
  /\ crashes \in 0..MaxCrashes

(* The split of a conversion names accounts only.                          *)
FundingInv == funding.status # "none" => "rest" \notin funding.split

CallInv(c) ==
  call[c].at # "idle" =>
    funding.status = "confirmed" /\ call[c].split = funding.split

LaunchInv(l) ==
  /\ launch[l] # NoLaunch =>
       funding.status = "confirmed" /\ launch[l].split = funding.split
  /\ Spends(l) => ticker = l
  /\ launch[l].status \in {"active", "released"} => launch[l].verified
  /\ launch[l].verified => launch[l].onChain /\ recorded[l] = launch[l].split

(* The launches so far are those up to n; one that has the ticker is the   *)
(* last of them.                                                           *)
Numbered ==
  \E n \in 0..MaxLaunches : /\ \A l \in Ids : launch[l] # NoLaunch <=> l <= n
                            /\ ticker \in Ids => ticker = n

ReleasedInv(l) ==
  launch[l].status = "released" =>
    /\ \A m \in Ids : l < m /\ launch[m] # NoLaunch
                       => funding.result = 0 \/ funding.result > l
    /\ \A c \in Calls : call[c].at = "continue" => call[c].id > l
    /\ funding.result \in 1..l => \A c \in Calls : call[c].at = "idle"

SharedInv ==
  /\ Typed
  /\ FundingInv
  /\ \A c \in Calls : CallInv(c)
  /\ \A l \in Ids : LaunchInv(l)
  /\ Numbered
  /\ \A l \in Ids : ReleasedInv(l)

-----------------------------------------------------------------------------
(* Every step *)

LEMMA Facts ==
  /\ NoLaunch \in Launch /\ NoCall \in Call
  /\ \A l \in Ids : l # None /\ l \in 0..MaxLaunches
BY LaunchAssumption DEF NoLaunch, NoCall, Launch, Call, Splits, Ids

LEMMA InitSharedInv == Init => SharedInv
<1> SUFFICES ASSUME Init PROVE SharedInv
  OBVIOUS
<1>1. funding \in Funding /\ funding.status = "none"
  BY LaunchAssumption DEF Init, Funding, Splits
<1>2. Typed
  <2>1. call \in [Calls -> Call] /\ launch \in [Ids -> Launch]
    BY Facts DEF Init
  <2>2. 0 \in 0..MaxCrashes /\ None \in Splits \cup {None}
    BY LaunchAssumption
  <2> QED BY <1>1, <2>1, <2>2 DEF Init, Typed
<1>3. \A c \in Calls : call[c].at = "idle"
  BY DEF Init, NoCall
<1>4. \A l \in Ids : LaunchInv(l)
  BY DEF Init, LaunchInv, NoLaunch, Spends
<1>5. Numbered
  <2>1. 0 \in 0..MaxLaunches /\ ticker \notin Ids /\ \A l \in Ids : launch[l] = NoLaunch /\ ~(l <= 0)
    BY LaunchAssumption DEF Init, Ids
  <2> QED BY <2>1 DEF Numbered
<1>6. \A l \in Ids : ReleasedInv(l)
  BY DEF Init, ReleasedInv, NoLaunch
<1> QED BY <1>1, <1>2, <1>3, <1>4, <1>5, <1>6 DEF SharedInv, FundingInv, CallInv

(* The remainder goes to the linked account before the conversion is       *)
(* stored.                                                                 *)
LEMMA LaunchConversionKeeps ==
  ASSUME SharedInv, LaunchConversion
  PROVE  SharedInv'
<1>1. /\ funding.status = "none" /\ Typed
      /\ UNCHANGED <<linked, looked, call, ticker, launch, recorded, paused, Counters>>
  BY DEF LaunchConversion, SharedInv
<1>2. PICK split \in {{a, "rest"} : a \in Accounts \ {linked}} \cup {Accounts} :
        funding' = [funding EXCEPT !.status = "prepared",
                                   !.split = CompleteCreatorFeeShares(split)]
  BY DEF LaunchConversion
<1> DEFINE complete == CompleteCreatorFeeShares(split)
<1>3. complete \in Splits /\ "rest" \notin complete
  BY <1>1, LaunchAssumption DEF CompleteCreatorFeeShares, Splits, Typed
<1> HIDE DEF complete
<1>4. funding' = [funding EXCEPT !.status = "prepared", !.split = complete]
  BY <1>2 DEF complete
<1>5. funding' \in Funding /\ funding'.split = complete /\ funding'.result = funding.result
  BY <1>1, <1>3, <1>4 DEF Typed, Funding
<1>6. Typed' /\ FundingInv'
  BY <1>1, <1>3, <1>5 DEF Typed, FundingInv, Counters
<1>7. \A c \in Calls : CallInv(c)'
  BY <1>1 DEF SharedInv, CallInv
<1>8. \A l \in Ids : LaunchInv(l)'
  BY <1>1 DEF SharedInv, LaunchInv, Spends
<1>9. Numbered' /\ \A l \in Ids : ReleasedInv(l)'
  BY <1>1, <1>5 DEF SharedInv, Numbered, ReleasedInv
<1> QED BY <1>6, <1>7, <1>8, <1>9 DEF SharedInv

LEMMA ConversionLandsKeeps ==
  ASSUME SharedInv, ConversionLands
  PROVE  SharedInv'
<1>1. /\ funding.status = "prepared" /\ Typed /\ FundingInv
      /\ funding' = [funding EXCEPT !.status = "confirmed"]
      /\ UNCHANGED <<linked, looked, call, ticker, launch, recorded, paused, Counters>>
  BY DEF ConversionLands, SharedInv
<1>2. funding' \in Funding /\ funding'.split = funding.split /\ funding'.result = funding.result
  BY <1>1 DEF Typed, Funding
<1>3. Typed' /\ FundingInv'
  BY <1>1, <1>2 DEF Typed, FundingInv, Counters
<1>4. \A c \in Calls : CallInv(c)'
  BY <1>1 DEF SharedInv, CallInv
<1>5. \A l \in Ids : LaunchInv(l)'
  BY <1>1 DEF SharedInv, LaunchInv, Spends
<1>6. Numbered' /\ \A l \in Ids : ReleasedInv(l)'
  BY <1>1, <1>2 DEF SharedInv, Numbered, ReleasedInv
<1> QED BY <1>3, <1>4, <1>5, <1>6 DEF SharedInv

(* A call that moves on with the conversion's split, or ends.              *)
LEMMA CallMoves ==
  ASSUME SharedInv, NEW c \in Calls, NEW job \in Call,
         call' = [call EXCEPT ![c] = job],
         job.at # "idle" => funding.status = "confirmed" /\ job.split = funding.split
  PROVE  call' \in [Calls -> Call]
         /\ (UNCHANGED <<funding.status, funding.split>> => \A d \in Calls : CallInv(d)')
<1>1. call' \in [Calls -> Call] /\ \A d \in Calls : call'[d] = IF d = c THEN job ELSE call[d]
  BY DEF SharedInv, Typed
<1>2. ASSUME UNCHANGED <<funding.status, funding.split>>, NEW d \in Calls
      PROVE  CallInv(d)'
  BY <1>1, <1>2 DEF SharedInv, CallInv
<1> QED BY <1>1, <1>2

(* What a step that only moves a call leaves as it was.                    *)
LEMMA CallStep ==
  ASSUME SharedInv, NEW c \in Calls, NEW job \in Call,
         call' = [call EXCEPT ![c] = job],
         job.at # "idle" => funding.status = "confirmed" /\ job.split = funding.split,
         job.at # "continue",
         job.at = "idle" \/ call[c].at # "idle" \/ funding.result = 0,
         UNCHANGED <<linked, looked, funding, ticker, launch, recorded, paused>>,
         crashes' \in 0..MaxCrashes
  PROVE  SharedInv'
<1>1. Typed /\ FundingInv /\ \A l \in Ids : LaunchInv(l)
  BY DEF SharedInv
<1>2. call' \in [Calls -> Call] /\ \A d \in Calls : CallInv(d)'
  BY CallMoves
<1>3. Typed' /\ FundingInv'
  BY <1>1, <1>2 DEF Typed, FundingInv
<1>4. \A l \in Ids : LaunchInv(l)'
  BY <1>1 DEF LaunchInv, Spends
<1>5. Numbered'
  BY DEF SharedInv, Numbered
<1>6. ASSUME NEW l \in Ids
      PROVE  ReleasedInv(l)'
  <2>1. \A d \in Calls : call'[d] = IF d = c THEN job ELSE call[d]
    BY <1>1 DEF Typed
  <2>2. ReleasedInv(l) /\ l \in Nat /\ UNCHANGED <<funding, launch>>
    BY DEF SharedInv, Ids
  <2>3. launch[l].status = "released" /\ funding.result \in 1..l => job.at = "idle"
    BY <2>2 DEF ReleasedInv
  <2> QED BY <2>1, <2>2, <2>3 DEF ReleasedInv
<1> QED BY <1>2, <1>3, <1>4, <1>5, <1>6 DEF SharedInv

LEMMA ContinueLaunchKeeps ==
  ASSUME SharedInv, NEW c \in Calls, ContinueLaunch(c)
  PROVE  SharedInv'
<1> DEFINE job == [at |-> "resolve", split |-> funding.split, id |-> 0]
<1>1. job \in Call
  BY LaunchAssumption DEF SharedInv, Typed, Funding, Call
<1>2. /\ job.split = funding.split /\ funding.status = "confirmed" /\ job.at = "resolve"
      /\ funding.result = 0
  BY DEF ContinueLaunch
<1>3. /\ call' = [call EXCEPT ![c] = job] /\ crashes' \in 0..MaxCrashes
      /\ UNCHANGED <<linked, looked, funding, ticker, launch, recorded, paused>>
  BY DEF ContinueLaunch, Counters, SharedInv, Typed
<1> HIDE DEF job
<1> QED BY <1>1, <1>2, <1>3, CallStep

(* Nothing is left to resolve: the split has no remainder.                 *)
LEMMA ResolveKeeps ==
  ASSUME SharedInv, NEW c \in Calls, Resolve(c)
  PROVE  SharedInv'
<1>1. /\ call[c] \in Call /\ call[c].at = "resolve" /\ CallInv(c) /\ FundingInv
      /\ crashes' \in 0..MaxCrashes
      /\ UNCHANGED <<linked, looked, funding, ticker, launch, recorded, paused>>
  BY DEF Resolve, Counters, SharedInv, Typed
<1>2. /\ funding.status = "confirmed" /\ call[c].split = funding.split
      /\ CompleteCreatorFeeShares(call[c].split) = call[c].split
  BY <1>1 DEF CallInv, FundingInv, CompleteCreatorFeeShares
<1> DEFINE job == [call[c] EXCEPT !.at = "allocate", !.split = call[c].split]
<1>3. CASE call' = [call EXCEPT ![c] = job]
  <2>1. job \in Call /\ job.split = funding.split /\ job.at = "allocate"
    BY <1>1, <1>2 DEF Call
  <2> HIDE DEF job
  <2> QED BY <1>1, <1>2, <1>3, <2>1, CallStep
<1>4. CASE call' = [call EXCEPT ![c] = NoCall]
  BY <1>1, <1>4, Facts, CallStep DEF NoCall
<1> QED BY <1>2, <1>3, <1>4 DEF Resolve

LEMMA PrepareLaunchAllocationKeeps ==
  ASSUME SharedInv, NEW c \in Calls, PrepareLaunchAllocation(c)
  PROVE  SharedInv'
<1>1. /\ call[c] \in Call /\ call[c].at = "allocate" /\ CallInv(c)
      /\ crashes' \in 0..MaxCrashes
      /\ UNCHANGED <<linked, looked, funding, ticker, launch, recorded, paused>>
  BY DEF PrepareLaunchAllocation, Counters, SharedInv, Typed
<1> DEFINE job == [call[c] EXCEPT !.at = "reserve"]
<1>2. CASE call' = [call EXCEPT ![c] = job]
  <2>1. job \in Call /\ job.split = call[c].split /\ job.at = "reserve"
    BY <1>1 DEF Call
  <2>2. funding.status = "confirmed" /\ call[c].split = funding.split
    BY <1>1 DEF CallInv
  <2> HIDE DEF job
  <2> QED BY <1>1, <1>2, <2>1, <2>2, CallStep
<1>3. CASE call' = [call EXCEPT ![c] = NoCall]
  BY <1>1, <1>3, Facts, CallStep DEF NoCall
<1> QED BY <1>2, <1>3 DEF PrepareLaunchAllocation

(* The number of the next launch is past those so far.                     *)
LEMMA NextLaunch ==
  ASSUME NEW n \in 0..MaxLaunches, \A l \in Ids : launch[l] # NoLaunch <=> l <= n
  PROVE  NextId = n + 1
<1>1. {l \in Ids : launch[l] # NoLaunch} = 1..n
  BY LaunchAssumption DEF Ids
<1>2. Cardinality(1..n) = n
  BY LaunchAssumption, FS_Interval
<1> QED BY <1>1, <1>2 DEF NextId

(* The ticker is free, so no launch is on its way or has the ticker.       *)
LEMMA ReserveKeeps ==
  ASSUME SharedInv, NEW c \in Calls, Reserve(c)
  PROVE  SharedInv'
<1>1. /\ Typed /\ FundingInv /\ call[c] \in Call /\ call[c].at = "reserve" /\ CallInv(c)
      /\ crashes' \in 0..MaxCrashes
      /\ UNCHANGED <<linked, looked, funding, recorded, paused>>
  BY DEF Reserve, Counters, SharedInv, Typed
<1>2. CASE call' = [call EXCEPT ![c] = NoCall] /\ UNCHANGED <<ticker, launch>>
  BY <1>1, <1>2, Facts, CallStep DEF NoCall
<1>3. CASE /\ ticker = None /\ ticker' = NextId
           /\ launch' = [launch EXCEPT ![NextId].status = "prepared",
                                       ![NextId].split = call[c].split]
           /\ call' = [call EXCEPT ![c].at = "continue", ![c].id = NextId]
  <2>1. PICK new \in Ids : new = NextId
    BY DEF Reserve
  <2>n. PICK n \in 0..MaxLaunches : \A l \in Ids : launch[l] # NoLaunch <=> l <= n
    BY DEF SharedInv, Numbered
  <2>0. new = n + 1 /\ launch[new] = NoLaunch /\ n \in Nat /\ new \in Nat
    BY <2>1, <2>n, NextLaunch, LaunchAssumption DEF Ids
  <2> DEFINE job == [call[c] EXCEPT !.at = "continue", !.id = new]
             row == [launch[new] EXCEPT !.status = "prepared", !.split = call[c].split]
  <2>2. job \in Call /\ job.split = call[c].split /\ job.at = "continue" /\ job.id = new
    BY <1>1, Facts DEF Call
  <2>3. funding.status = "confirmed" /\ call[c].split = funding.split
    BY <1>1 DEF CallInv
  <2>4. launch[new] \in Launch /\ call[c].split \in Splits
    BY <1>1 DEF Typed, Call
  <2>5. /\ row \in Launch /\ row.status = "prepared" /\ row.split = call[c].split
        /\ row.onChain = launch[new].onChain /\ row.verified = launch[new].verified
    BY <2>4 DEF Launch
  <2>6. call' = [call EXCEPT ![c] = job] /\ launch' = [launch EXCEPT ![new] = row] /\ ticker' = new
    BY <1>3, <2>1
  <2> HIDE DEF job, row
  <2>7. call' \in [Calls -> Call] /\ \A d \in Calls : CallInv(d)'
    BY <1>1, <2>2, <2>3, <2>6, CallMoves
  <2>8. launch' \in [Ids -> Launch] /\ \A l \in Ids : launch'[l] = IF l = new THEN row ELSE launch[l]
    BY <1>1, <2>5, <2>6 DEF Typed
  <2>9. Typed' /\ FundingInv'
    BY <1>1, <2>1, <2>6, <2>7, <2>8, Facts DEF Typed, FundingInv
  <2>10. /\ ~row.onChain /\ ~row.verified /\ row # NoLaunch
         /\ \A l \in Ids : ~Spends(l)
    BY <1>3, <2>0, <2>5, Facts DEF SharedInv, LaunchInv, NoLaunch
  <2>11. ASSUME NEW l \in Ids
         PROVE  LaunchInv(l)'
    <3>1. CASE l = new
      BY <1>1, <2>3, <2>5, <2>6, <2>8, <2>10, <3>1 DEF LaunchInv
    <3>2. CASE l # new
      <4>1. LaunchInv(l) /\ launch'[l] = launch[l] /\ ~Spends(l)
        BY <2>8, <2>10, <3>2 DEF SharedInv
      <4>2. ~Spends(l)'
        BY <4>1 DEF Spends
      <4> QED BY <1>1, <4>1, <4>2 DEF LaunchInv
    <3> QED BY <3>1, <3>2
  <2>12. Numbered'
    <3>1. \A l \in Ids : launch'[l] # NoLaunch <=> l <= new
      BY <2>n, <2>0, <2>8, <2>10 DEF Ids
    <3> QED BY <3>1, <2>1, <2>6, Facts DEF Numbered
  <2>13. ASSUME NEW l \in Ids
         PROVE  ReleasedInv(l)'
    <3>1. SUFFICES ASSUME launch'[l].status = "released" PROVE ReleasedInv(l)'
      BY DEF ReleasedInv
    <3>2. l # new /\ launch[l].status = "released" /\ launch[l] # NoLaunch /\ ReleasedInv(l)
      BY <2>5, <2>8, <3>1 DEF NoLaunch, SharedInv
    <3>3. l \in Nat /\ l < new /\ funding.result \in Nat
      BY <1>1, <2>n, <2>0, <3>2, LaunchAssumption DEF Ids, Typed, Funding
    <3>4. funding.result = 0 \/ funding.result > l
      BY <1>1, <3>2, <3>3 DEF ReleasedInv
    <3>5. \A d \in Calls : call'[d] = IF d = c THEN job ELSE call[d]
      BY <1>1, <2>6 DEF Typed
    <3>6. \A d \in Calls : call'[d].at = "continue" => call'[d].id > l
      BY <2>2, <3>2, <3>3, <3>5 DEF ReleasedInv
    <3> QED BY <1>1, <3>3, <3>4, <3>6 DEF ReleasedInv
  <2> QED BY <2>7, <2>9, <2>11, <2>12, <2>13 DEF SharedInv
<1> QED BY <1>2, <1>3 DEF Reserve, TickerFree

LEMMA RecordContinuationKeeps ==
  ASSUME SharedInv, NEW c \in Calls, RecordContinuation(c)
  PROVE  SharedInv'
<1>1. /\ Typed /\ FundingInv /\ call[c] \in Call
      /\ crashes' \in 0..MaxCrashes
      /\ UNCHANGED <<linked, looked, ticker, launch, recorded, paused>>
  BY DEF RecordContinuation, Counters, SharedInv, Typed
<1>2. call[c].id \in 0..MaxLaunches
  BY <1>1 DEF Call
<1>3. funding' = [funding EXCEPT !.result = call[c].id]
  BY DEF RecordContinuation
<1>4. /\ funding' \in Funding /\ UNCHANGED <<funding.status, funding.split>>
      /\ funding'.result = call[c].id
  BY <1>1, <1>2, <1>3 DEF Typed, Funding
<1>5. call' \in [Calls -> Call] /\ \A d \in Calls : CallInv(d)'
  BY <1>4, Facts, CallMoves DEF RecordContinuation, NoCall
<1>6. Typed' /\ FundingInv'
  BY <1>1, <1>4, <1>5 DEF Typed, FundingInv
<1>7. \A l \in Ids : LaunchInv(l)'
  BY <1>1, <1>4 DEF SharedInv, LaunchInv, Spends
<1>8. Numbered'
  BY <1>1 DEF SharedInv, Numbered
<1>9. ASSUME NEW l \in Ids
      PROVE  ReleasedInv(l)'
  <2>1. SUFFICES ASSUME launch[l].status = "released" PROVE ReleasedInv(l)'
    BY <1>1 DEF ReleasedInv
  <2>2. ReleasedInv(l) /\ call[c].at = "continue" /\ l \in Nat /\ call[c].id \in Nat
    BY <1>2, LaunchAssumption DEF RecordContinuation, SharedInv, Ids
  <2>3. call[c].id > l
    BY <2>1, <2>2 DEF ReleasedInv
  <2>4. \A d \in Calls : call'[d] = IF d = c THEN NoCall ELSE call[d]
    BY <1>1 DEF RecordContinuation, Typed
  <2>5. \A d \in Calls : call'[d].at = "continue" => call'[d].id > l
    BY <2>1, <2>2, <2>4 DEF ReleasedInv, NoCall
  <2> QED BY <1>1, <1>4, <2>2, <2>3, <2>5 DEF ReleasedInv
<1> QED BY <1>5, <1>6, <1>7, <1>8, <1>9 DEF SharedInv

LEMMA CrashKeeps ==
  ASSUME SharedInv, NEW c \in Calls, Crash(c)
  PROVE  SharedInv'
<1>1. crashes' \in 0..MaxCrashes
  BY LaunchAssumption DEF Crash, SharedInv, Typed
<1> QED BY <1>1, Facts, CallStep DEF Crash, NoCall

(* A step of a launch that has the ticker: its row changes, and of the     *)
(* rest at most its record and its ticker.                                 *)
LEMMA LaunchStep ==
  ASSUME SharedInv, NEW l \in Ids, Spends(l), NEW row \in Launch, launch[l] # NoLaunch,
         launch' = [launch EXCEPT ![l] = row], row.split = launch[l].split,
         UNCHANGED <<linked, looked, funding, call, paused>>,
         crashes' \in 0..MaxCrashes,
         recorded' \in [Ids -> Splits \cup {None}],
         \A m \in Ids \ {l} : recorded'[m] = recorded[m],
         \/ ticker' = ticker
         \/ /\ ticker' = None /\ ticker = l /\ row.status # "prepared"
            /\ row.onChain => row.status = "released",
         row.status # "absent", row.status \in {"active", "released"} => row.verified,
         row.verified => row.onChain /\ recorded'[l] = row.split,
         row.status = "released" => \A c \in Calls : call[c].at = "idle"
  PROVE  SharedInv'
<1>1. Typed /\ FundingInv /\ (\A c \in Calls : CallInv(c)) /\ LaunchInv(l)
  BY DEF SharedInv
<1>2. launch' \in [Ids -> Launch] /\ \A m \in Ids : launch'[m] = IF m = l THEN row ELSE launch[m]
  BY <1>1 DEF Typed
<1>3. Typed' /\ FundingInv'
  BY <1>1, <1>2 DEF Typed, FundingInv
<1>4. \A c \in Calls : CallInv(c)'
  BY <1>1 DEF CallInv
<1>5. ticker = l /\ row # NoLaunch
  BY <1>1 DEF NoLaunch, LaunchInv
<1>6. LaunchInv(l)'
  BY <1>1, <1>2, <1>5 DEF LaunchInv, Spends
<1>7. ASSUME NEW m \in Ids, m # l
      PROVE  LaunchInv(m)'
  <2>1. LaunchInv(m) /\ launch'[m] = launch[m] /\ recorded'[m] = recorded[m]
    BY <1>2, <1>7 DEF SharedInv
  <2>2. ~Spends(m) /\ ~Spends(m)'
    BY <1>5, <1>7, <2>1 DEF LaunchInv, Spends
  <2> QED BY <1>1, <2>1, <2>2 DEF LaunchInv
<1>8. PICK n \in 0..MaxLaunches : (\A m \in Ids : launch[m] # NoLaunch <=> m <= n) /\ l = n
  BY <1>5 DEF SharedInv, Numbered
<1>9. \A m \in Ids : launch'[m] # NoLaunch <=> launch[m] # NoLaunch
  BY <1>2, <1>5
<1>10. Numbered'
  BY <1>5, <1>8, <1>9, LaunchAssumption DEF Numbered, Ids
<1>11. ASSUME NEW m \in Ids
       PROVE  ReleasedInv(m)'
  <2>1. SUFFICES ASSUME launch'[m].status = "released" PROVE ReleasedInv(m)'
    BY DEF ReleasedInv
  <2>2. CASE m # l
    BY <1>2, <1>9, <2>1, <2>2 DEF SharedInv, ReleasedInv
  <2>3. CASE m = l
    <3>1. \A c \in Calls : call'[c].at = "idle"
      BY <1>2, <2>1, <2>3
    <3>2. \A k \in Ids : m < k => launch'[k] = NoLaunch
      BY <1>8, <1>9, <2>3 DEF Ids
    <3> QED BY <3>1, <3>2 DEF ReleasedInv
  <2> QED BY <2>2, <2>3
<1> QED BY <1>3, <1>4, <1>6, <1>7, <1>10, <1>11 DEF SharedInv

LEMMA LandKeeps ==
  ASSUME SharedInv, NEW l \in Ids, Land(l)
  PROVE  SharedInv'
<1> DEFINE row == [launch[l] EXCEPT !.onChain = TRUE]
<1>1. /\ launch[l] \in Launch /\ LaunchInv(l) /\ launch[l].status = "prepared"
      /\ Spends(l) /\ launch[l] # NoLaunch
  BY DEF Land, SharedInv, Typed, Spends, NoLaunch
<1>2. /\ row \in Launch /\ row.split = launch[l].split /\ row.status = "prepared"
      /\ row.onChain = TRUE /\ row.verified = launch[l].verified
  BY <1>1 DEF Launch
<1>3. launch' = [launch EXCEPT ![l] = row]
  BY DEF Land
<1> HIDE DEF row
<1>4. /\ UNCHANGED <<linked, looked, funding, call, ticker, recorded, paused>>
      /\ crashes' \in 0..MaxCrashes /\ recorded \in [Ids -> Splits \cup {None}]
  BY DEF Land, Counters, SharedInv, Typed
<1>5. row.verified => recorded[l] = row.split
  BY <1>1, <1>2 DEF LaunchInv
<1> QED BY <1>1, <1>2, <1>3, <1>4, <1>5, LaunchStep

LEMMA ExpireKeeps ==
  ASSUME SharedInv, NEW l \in Ids, Expire(l)
  PROVE  SharedInv'
<1> DEFINE row == [launch[l] EXCEPT !.status = "expired"]
<1>1. /\ launch[l] \in Launch /\ LaunchInv(l) /\ launch[l].status = "prepared"
      /\ ~launch[l].onChain /\ Spends(l) /\ launch[l] # NoLaunch
  BY DEF Expire, SharedInv, Typed, Spends, NoLaunch
<1>2. /\ row \in Launch /\ row.split = launch[l].split /\ row.status = "expired"
      /\ row.onChain = launch[l].onChain /\ row.verified = launch[l].verified
  BY <1>1 DEF Launch
<1>3. launch' = [launch EXCEPT ![l] = row]
  BY DEF Expire
<1> HIDE DEF row
<1>4. /\ UNCHANGED <<linked, looked, funding, call, recorded, paused>>
      /\ ticker' = None /\ ticker = l
      /\ crashes' \in 0..MaxCrashes /\ recorded \in [Ids -> Splits \cup {None}]
  BY <1>1 DEF Expire, Counters, SharedInv, Typed, LaunchInv
<1>5. ~row.onChain /\ ~row.verified
  BY <1>1, <1>2 DEF LaunchInv
<1> QED BY <1>1, <1>2, <1>3, <1>4, <1>5, LaunchStep

LEMMA ReconcileLaunchAllocationKeeps ==
  ASSUME SharedInv, NEW l \in Ids, ReconcileLaunchAllocation(l)
  PROVE  SharedInv'
<1> DEFINE row == [launch[l] EXCEPT !.verified = TRUE]
<1>1. /\ launch[l] \in Launch /\ launch[l].status = "prepared" /\ launch[l].onChain
      /\ Spends(l) /\ launch[l] # NoLaunch
  BY DEF ReconcileLaunchAllocation, SharedInv, Typed, Spends, NoLaunch
<1>2. /\ row \in Launch /\ row.split = launch[l].split /\ row.status = "prepared"
      /\ row.onChain = launch[l].onChain /\ launch[l].split \in Splits
  BY <1>1 DEF Launch
<1>3. launch' = [launch EXCEPT ![l] = row]
  BY DEF ReconcileLaunchAllocation
<1> HIDE DEF row
<1>4. /\ UNCHANGED <<linked, looked, funding, call, ticker, paused>>
      /\ crashes' \in 0..MaxCrashes /\ recorded \in [Ids -> Splits \cup {None}]
      /\ recorded' = [recorded EXCEPT ![l] = launch[l].split]
  BY DEF ReconcileLaunchAllocation, Counters, SharedInv, Typed
<1>5. /\ recorded' \in [Ids -> Splits \cup {None}] /\ recorded'[l] = launch[l].split
      /\ \A m \in Ids \ {l} : recorded'[m] = recorded[m]
  BY <1>2, <1>4
<1> QED BY <1>1, <1>2, <1>3, <1>4, <1>5, LaunchStep

LEMMA ActivateKeeps ==
  ASSUME SharedInv, NEW l \in Ids, Activate(l)
  PROVE  SharedInv'
<1> DEFINE row == [launch[l] EXCEPT !.status = "active"]
<1>1. /\ launch[l] \in Launch /\ LaunchInv(l) /\ launch[l].status = "prepared"
      /\ launch[l].onChain /\ launch[l].verified /\ Spends(l) /\ launch[l] # NoLaunch
  BY DEF Activate, Verified, SharedInv, Typed, Spends, NoLaunch
<1>2. /\ row \in Launch /\ row.split = launch[l].split /\ row.status = "active"
      /\ row.onChain = launch[l].onChain /\ row.verified = launch[l].verified
  BY <1>1 DEF Launch
<1>3. launch' = [launch EXCEPT ![l] = row]
  BY DEF Activate
<1> HIDE DEF row
<1>4. /\ UNCHANGED <<linked, looked, funding, call, ticker, recorded, paused>>
      /\ crashes' \in 0..MaxCrashes /\ recorded \in [Ids -> Splits \cup {None}]
  BY DEF Activate, Counters, SharedInv, Typed
<1>5. recorded[l] = row.split
  BY <1>1, <1>2 DEF LaunchInv
<1> QED BY <1>1, <1>2, <1>3, <1>4, <1>5, LaunchStep

LEMMA DieReconcilingKeeps ==
  ASSUME SharedInv, NEW l \in Ids, DieReconciling(l)
  PROVE  SharedInv'
<1> DEFINE row == [launch[l] EXCEPT !.verified = FALSE]
<1>1. /\ launch[l] \in Launch /\ launch[l].status = "prepared"
      /\ Spends(l) /\ launch[l] # NoLaunch
  BY DEF DieReconciling, SharedInv, Typed, Spends, NoLaunch
<1>2. /\ row \in Launch /\ row.split = launch[l].split
      /\ row.status = "prepared" /\ ~row.verified
  BY <1>1 DEF Launch
<1>3. launch' = [launch EXCEPT ![l] = row]
  BY DEF DieReconciling
<1> HIDE DEF row
<1>4. /\ UNCHANGED <<linked, looked, funding, call, ticker, recorded, paused>>
      /\ crashes' \in 0..MaxCrashes /\ recorded \in [Ids -> Splits \cup {None}]
  BY LaunchAssumption DEF DieReconciling, SharedInv, Typed
<1> QED BY <1>1, <1>2, <1>3, <1>4, LaunchStep

(* No call is under way when a launch gives its ticker up.                 *)
LEMMA ReleaseInactiveKeeps ==
  ASSUME SharedInv, NEW l \in Ids, ReleaseInactive(l)
  PROVE  SharedInv'
<1> DEFINE row == [launch[l] EXCEPT !.status = "released"]
<1>1. /\ launch[l] \in Launch /\ LaunchInv(l) /\ launch[l].status = "active" /\ ticker = l
      /\ \A c \in Calls : call[c].at = "idle"
  BY DEF ReleaseInactive, SharedInv, Typed, NoCall
<1>2. Spends(l) /\ launch[l] # NoLaunch /\ launch[l].verified /\ recorded[l] = launch[l].split
  BY <1>1 DEF LaunchInv, Spends, NoLaunch
<1>3. /\ row \in Launch /\ row.split = launch[l].split /\ row.status = "released"
      /\ row.onChain = launch[l].onChain /\ row.verified = launch[l].verified
  BY <1>1 DEF Launch
<1>4. row.verified => row.onChain /\ recorded[l] = row.split
  BY <1>1, <1>3 DEF LaunchInv
<1>5. launch' = [launch EXCEPT ![l] = row]
  BY DEF ReleaseInactive
<1> HIDE DEF row
<1>6. /\ UNCHANGED <<linked, looked, funding, call, recorded, paused>> /\ ticker' = None
      /\ crashes' \in 0..MaxCrashes /\ recorded \in [Ids -> Splits \cup {None}]
  BY DEF ReleaseInactive, Counters, SharedInv, Typed
<1> QED BY <1>1, <1>2, <1>3, <1>4, <1>5, <1>6, LaunchStep

LEMMA EnvironmentKeeps ==
  ASSUME SharedInv,
         Relink \/ ProfilesAge \/ LookUp \/ OthersTake \/ OthersGiveUp \/ Pause \/ Unpause
  PROVE  SharedInv'
<1>1. /\ UNCHANGED <<funding, call, launch, recorded, crashes>> /\ Typed
      /\ linked' \in Accounts /\ looked' \in BOOLEAN /\ paused' \in BOOLEAN
      /\ \/ ticker' = ticker
         \/ ticker = None /\ ticker' = 0
         \/ ticker = 0 /\ ticker' = None
  BY DEF Relink, ProfilesAge, LookUp, OthersTake, OthersGiveUp, Pause, Unpause, Counters,
         SharedInv, Typed
<1>2. Typed' /\ FundingInv' /\ \A c \in Calls : CallInv(c)'
  BY <1>1, LaunchAssumption DEF SharedInv, Typed, FundingInv, CallInv
<1>3. ASSUME NEW l \in Ids
      PROVE  LaunchInv(l)'
  <2>1. LaunchInv(l) /\ l # None /\ l # 0
    BY Facts DEF SharedInv, Ids
  <2> QED BY <1>1, <2>1 DEF LaunchInv, Spends
<1>4. Numbered'
  <2>1. ticker' \in Ids => ticker' = ticker
    BY <1>1, LaunchAssumption DEF Ids
  <2> QED BY <1>1, <2>1 DEF SharedInv, Numbered
<1>5. \A l \in Ids : ReleasedInv(l)'
  BY <1>1 DEF SharedInv, ReleasedInv
<1> QED BY <1>2, <1>3, <1>4, <1>5 DEF SharedInv

LEMMA NextKeeps == SharedInv /\ [Next]_vars => SharedInv'
<1> SUFFICES ASSUME SharedInv, [Next]_vars PROVE SharedInv'
  OBVIOUS
<1>1. CASE LaunchConversion \/ ConversionLands
  BY <1>1, LaunchConversionKeeps, ConversionLandsKeeps
<1>2. CASE \E c \in Calls : \/ ContinueLaunch(c) \/ Resolve(c)
                            \/ PrepareLaunchAllocation(c) \/ Reserve(c)
                            \/ RecordContinuation(c) \/ Crash(c)
  BY <1>2, ContinueLaunchKeeps, ResolveKeeps, PrepareLaunchAllocationKeeps,
     ReserveKeeps, RecordContinuationKeeps, CrashKeeps
<1>3. CASE \E l \in Ids : Land(l) \/ Expire(l) \/ Reconciles(l) \/ DieReconciling(l)
                           \/ ReleaseInactive(l)
  BY <1>3, LandKeeps, ExpireKeeps, ReconcileLaunchAllocationKeeps, ActivateKeeps,
     DieReconcilingKeeps, ReleaseInactiveKeeps DEF Reconciles
<1>4. CASE Relink \/ ProfilesAge \/ LookUp \/ OthersTake \/ OthersGiveUp \/ Pause \/ Unpause
  BY <1>4, EnvironmentKeeps
<1>5. CASE UNCHANGED vars
  BY <1>5 DEF vars, SharedInv, Typed, FundingInv, CallInv, LaunchInv, Spends, Numbered,
              ReleasedInv
<1> QED BY <1>1, <1>2, <1>3, <1>4, <1>5 DEF Next

-----------------------------------------------------------------------------
(* Theorems *)

(* The invariant of launches with shared fees holds in every state.        *)
THEOREM SharedInvariant == Spec => []SharedInv
<1> QED BY InitSharedInv, NextKeeps, PTL DEF Spec

(* A conversion pays for one launch until that one is released, and for    *)
(* another only if no call had stored what continues it by then, with the  *)
(* split that was reviewed, on record before the launch becomes active     *)
(* (continueLaunch, recordFeeAllocation, releaseInactiveTickers).          *)
THEOREM LaunchesAreAsReviewed == Spec => []LaunchIsAsReviewed
<1>1. SharedInv => LaunchIsAsReviewed
  <2> SUFFICES ASSUME SharedInv PROVE LaunchIsAsReviewed
    OBVIOUS
  <2> DEFINE spending == {l \in Ids : Spends(l)}
  <2>1. \A l \in spending : l = ticker
    BY DEF SharedInv, LaunchInv
  <2>2. Cardinality(spending) <= 1
    <3>1. spending \subseteq {ticker}
      BY <2>1
    <3>2. IsFiniteSet({ticker}) /\ Cardinality({ticker}) = 1
      BY FS_Singleton
    <3> HIDE DEF spending
    <3>3. Cardinality(spending) <= Cardinality({ticker})
      BY <3>1, <3>2, FS_Subset
    <3> QED BY <3>2, <3>3
  <2>3. SplitAsReviewed
    BY DEF SharedInv, FundingInv, LaunchInv, SplitAsReviewed
  <2>4. ActiveIsRecorded
    BY DEF SharedInv, LaunchInv, ActiveIsRecorded
  <2>5. TypeOK
    BY DEF SharedInv, Typed, Funding, Launch, TypeOK
  <2>6. \A l, m \in Ids :
          launch[l].status = "released" /\ l < m /\ launch[m] # NoLaunch
            => funding.result = 0 \/ funding.result > l
    BY DEF SharedInv, ReleasedInv
  <2> QED BY <2>2, <2>3, <2>4, <2>5, <2>6 DEF LaunchIsAsReviewed, SpentOnce
<1> QED BY <1>1, SharedInvariant, PTL
=============================================================================
