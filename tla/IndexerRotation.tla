-------------------------- MODULE IndexerRotation ---------------------------
(* Which pools the scheduled runs, the sweeps of recent trades and the     *)
(* chart's catch-ups reach.  Each run works on a bounded batch within a    *)
(* time budget and puts what it tried at the end of the order; leases in   *)
(* the database keep two runs of a kind apart.  What is read of a pool is  *)
(* HistoryIndexer's subject.                                               *)
EXTENDS Naturals, Sequences, FiniteSets

CONSTANTS Pools, Graduated, Broken,      \* Broken: the pool cannot be read
          Visitors, None,
          BatchSize,                         \* pools a run looks at
          PerSweep, PerRun,              \* pools its budget suffices for
          MaxThrows                      \* runs an intent may end by throwing

VARIABLES sweeps,      \* pools by the expiry of their sweep lease, oldest first
          attempts,    \* pools by lastIndexAttempt, oldest first
          resting,     \* pools attempted within the last minute
          sweep,       \* the sweep under way
          run,         \* the history run under way
          chart,       \* the pool whose chart a visitor's request found empty
          started,     \* catch-ups started for a pool in this minute
          throws

vars == <<sweeps, attempts, resting, sweep, run, chart, started, throws>>

Orders == {s \in [1..Cardinality(Pools) -> Pools] : \A p \in Pools : \E i \in DOMAIN s : s[i] = p}
Idle == [on |-> FALSE, batch |-> <<>>, left |-> 0]

FirstOf(order) == SubSeq(order, 1, IF BatchSize < Len(order) THEN BatchSize ELSE Len(order))
ToTheEnd(order, p) ==
  [i \in DOMAIN order |-> IF i = Len(order) THEN p
                          ELSE IF \E j \in 1..i : order[j] = p THEN order[i + 1]
                          ELSE order[i]]

Init ==
  /\ sweeps \in Orders /\ attempts = sweeps
  /\ resting = {} /\ sweep = Idle /\ run = Idle
  /\ chart = [v \in Visitors |-> None] /\ started = [p \in Pools |-> 0]
  /\ throws = 0

(* ------------------------- the sweep of recent trades ------------------ *)

(* Leases give the rotation; within a batch graduated pools come first.    *)
Those(batch, S) ==
  LET those[n \in 0..Len(batch)] ==
        IF n = 0 THEN <<>>
        ELSE IF batch[n] \in S THEN Append(those[n - 1], batch[n]) ELSE those[n - 1]
  IN those[Len(batch)]
Arranged(batch) == Those(batch, Graduated) \o Those(batch, Pools \ Graduated)

StartSweep ==
  /\ ~sweep.on
  /\ sweep' = [on |-> TRUE, batch |-> Arranged(FirstOf(sweeps)), left |-> PerSweep]
  /\ UNCHANGED <<sweeps, attempts, resting, run, chart, started, throws>>

(* A worker takes the next pool and its lease; a failure is only logged.   *)
SweepPool ==
  /\ sweep.on /\ sweep.batch # <<>> /\ sweep.left > 0
  /\ sweeps' = ToTheEnd(sweeps, Head(sweep.batch))
  /\ sweep' = [sweep EXCEPT !.batch = Tail(@), !.left = @ - 1]
  /\ UNCHANGED <<attempts, resting, run, chart, started, throws>>

EndSweep ==
  /\ sweep.on /\ (sweep.batch = <<>> \/ sweep.left = 0) /\ sweep' = Idle
  /\ UNCHANGED <<sweeps, attempts, resting, run, chart, started, throws>>

(* ----------------------------- the history run ------------------------- *)

(* runIndexer: the open intents first.  A reconcile that throws ends the   *)
(* run before any pool is read.                                            *)
StartRun ==
  /\ ~run.on
  /\ run' = [on |-> TRUE, batch |-> FirstOf(attempts), left |-> PerRun]
  /\ UNCHANGED <<sweeps, attempts, resting, sweep, chart, started, throws>>

ReconcileThrows ==
  /\ throws < MaxThrows /\ throws' = throws + 1
  /\ run.on /\ run.left = PerRun /\ run' = Idle
  /\ UNCHANGED <<sweeps, attempts, resting, sweep, chart, started>>

(* indexPool: the snapshot is refreshed before the attempt is recorded, so *)
(* a pool that cannot be read keeps its place.                             *)
AfterAttempt(order, p) == IF p \in Broken THEN order ELSE ToTheEnd(order, p)
Attempt(p) ==
  /\ attempts' = AfterAttempt(attempts, p)
  /\ resting' = IF p \in Broken THEN resting ELSE resting \cup {p}

IndexPool ==
  /\ run.on /\ run.batch # <<>> /\ run.left > 0
  /\ Attempt(Head(run.batch))
  /\ run' = [run EXCEPT !.batch = Tail(@), !.left = @ - 1]
  /\ UNCHANGED <<sweeps, sweep, chart, started, throws>>

EndRun ==
  /\ run.on /\ (run.batch = <<>> \/ run.left = 0) /\ run' = Idle
  /\ UNCHANGED <<sweeps, attempts, resting, sweep, chart, started, throws>>

(* --------------------------- the chart's catch-up ---------------------- *)

(* A chart without history is answered at once; the catch-up comes after,  *)
(* if its update of lastIndexAttempt still finds it a minute old.          *)
AskChart(v, p) ==
  /\ chart[v] = None /\ p \notin resting
  /\ chart' = [chart EXCEPT ![v] = p]
  /\ UNCHANGED <<sweeps, attempts, resting, sweep, run, started, throws>>

MinuteOld(p) == p \notin resting

CatchUp(v) ==
  LET p == chart[v] IN
  /\ p # None /\ chart' = [chart EXCEPT ![v] = None]
  /\ IF MinuteOld(p)
     THEN /\ started' = [started EXCEPT ![p] = @ + 1]
          /\ attempts' = ToTheEnd(attempts, p) /\ resting' = resting \cup {p}
     ELSE UNCHANGED <<started, attempts, resting>>
  /\ UNCHANGED <<sweeps, sweep, run, throws>>

MinutePasses(p) ==
  /\ p \in resting /\ resting' = resting \ {p}
  /\ started' = [started EXCEPT ![p] = 0]
  /\ UNCHANGED <<sweeps, attempts, sweep, run, chart, throws>>

Next ==
  \/ StartSweep \/ SweepPool \/ EndSweep
  \/ StartRun \/ ReconcileThrows \/ IndexPool \/ EndRun
  \/ \E v \in Visitors, p \in Pools : AskChart(v, p)
  \/ \E v \in Visitors : CatchUp(v)
  \/ \E p \in Pools : MinutePasses(p)

Spec == Init /\ [][Next]_vars

(* Vercel calls the cron route every minute, which runs both; a run ends   *)
(* by its deadline.                                                        *)
FairSpec ==
  /\ Spec
  /\ WF_vars(StartSweep) /\ WF_vars(SweepPool) /\ WF_vars(EndSweep)
  /\ WF_vars(StartRun) /\ WF_vars(IndexPool) /\ WF_vars(EndRun)

(* ------------------------------ properties ----------------------------- *)

TypeOK ==
  /\ sweeps \in Orders /\ attempts \in Orders /\ resting \subseteq Pools
  /\ sweep.left \in 0..PerSweep /\ run.left \in 0..PerRun
  /\ chart \in [Visitors -> Pools \cup {None}]

(* Empty charts of one pool, asked for on all instances at once, start one *)
(* catch-up a minute.                                                      *)
OneCatchUpPerMinute == \A p \in Pools : started[p] <= 1

(* Every pool that can be read is scanned again and again, whatever the    *)
(* pools before it in the order and the catch-ups do: fewer than PerRun    *)
(* pools are broken, and a broken one may not hold the others up.  An      *)
(* intent that throws ends a run; when it stops throwing, all are reached. *)
HistoryReachesAll ==
  \A p \in Pools \ Broken : []<>(attempts[Cardinality(Pools)] = p)

(* "Leases also provide a stable fair rotation": every pool is swept again *)
(* and again.                                                              *)
SweepReachesAll ==
  \A p \in Pools : []<>(sweeps[Cardinality(Pools)] = p)
=============================================================================
