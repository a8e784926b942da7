--------------------------- MODULE HistoryIndexer ---------------------------
(***************************************************************************)
(* The indexer of one token's trade history and the release of its ticker. *)
(*                                                                         *)
(* A token trades on two venues: the curve ("dbc") from its launch and,    *)
(* once graduated, the DAMM pool ("damm").  For each venue the database    *)
(* has a cursor: history is listed newest first, page by page, and a scan  *)
(* that reaches the previous cursor, or the first transaction of the venue, *)
(* certifies coverage up to the finalized time at which it started.        *)
(* indexPool (cron job and chart requests) runs under a lease; a run may   *)
(* outlive its lease when Overrun.  releaseInactiveTickers reads what is    *)
(* indexed and gives the ticker up after InactivityDays quiet days.        *)
(*                                                                         *)
(* A transaction is [time, usd]; it is a swap when usd > 0.  Signatures    *)
(* are positions in the venue's history, 0 is null.  Times are nat, the    *)
(* day of a time is time \div DayLength, NoTime is null.                   *)
(***************************************************************************)
EXTENDS Integers, Sequences, FiniteSets, FiniteSetsExt

CONSTANTS
  Workers,         \* concurrent runs of indexPool
  PageSize,        \* HISTORY_PAGE_SIZE
  Concurrency,     \* receipts read at once by scanHistory
  InactivityDays,  \* TICKER_INACTIVITY_DAYS
  DayLength,       \* times in a day
  QuietLimit,      \* a day with this much volume is not quiet
  Overrun,         \* may a run outlive its lease?
  ChartRuns,       \* do chart requests index pools while tickers are released?
  RecentLimit,     \* newest transactions the recent sweep looks at
  PriceOutages,    \* may a historical price be unavailable?
  HoldsTicker,     \* does the token hold its ticker to begin with?
  Volumes,         \* the usd volumes of transactions
  MaxTime, MaxTx, MaxCrashes   \* bounds of the model

ASSUME HistoryAssumption ==
  /\ Concurrency \in Nat \ {0} /\ PageSize \in Nat /\ PageSize >= Concurrency
  /\ InactivityDays \in Nat \ {0} /\ DayLength \in Nat \ {0} /\ QuietLimit \in Nat \ {0}
  /\ Overrun \in BOOLEAN /\ ChartRuns \in BOOLEAN /\ PriceOutages \in BOOLEAN /\ HoldsTicker \in BOOLEAN
  /\ RecentLimit \in Nat /\ Volumes \subseteq 0 .. QuietLimit
  /\ MaxTime \in Nat \ {0} /\ MaxTx \in [{"dbc", "damm"} -> Nat] /\ MaxCrashes \in Nat

VARIABLES
  now,        \* the clock
  chain,      \* history of each venue, oldest first
  index,      \* pool_snapshots ("dbc") and graduated_indexes ("damm"): the cursors
  graduated,  \* pool_snapshots.graduated / dammPool as last refreshed
  stored,     \* token_trades
  priced,     \* those whose volumeUsd is known
  leased,     \* is the lease of the pool taken?
  worker,     \* runs of indexPool
  release,    \* a run of releaseInactiveTickers
  claimed,    \* does the token hold its ticker?
  crashes

vars == <<now, chain, index, graduated, stored, priced, leased, worker, release, claimed, crashes>>

Venues == {"dbc", "damm"}
NoTime == -1
Time   == 0 .. MaxTime
Tx     == [time: Time, usd: Volumes]
Trade  == {<<v, i>> : v \in Venues, i \in 1 .. Max({MaxTx[v] : v \in Venues})}

Cursor == [cursor: Nat, before: Nat, head: Nat, started: Time \cup {NoTime},
           start: Time \cup {NoTime}, through: Time \cup {NoTime}]
NoCursor == [cursor |-> 0, before |-> 0, head |-> 0, started |-> NoTime,
             start |-> NoTime, through |-> NoTime]

Steps == {"idle", "snapshot", "read", "list", "scan", "checkpoint", "finish"}
NoJob == [step |-> "idle", venue |-> "dbc", previous |-> NoCursor, started |-> NoTime, head |-> 0,
          next |-> 0, last |-> 0, short |-> FALSE, complete |-> FALSE, at |-> 0,
          creation |-> NoTime, then |-> "idle"]

NoRelease == [step |-> "idle", now |-> NoTime, graduated |-> FALSE, start |-> NoTime,
              through |-> NoTime, stored |-> {}, priced |-> {}]

Init ==
  /\ now = 1
  /\ chain \in {[v \in Venues |-> IF v = "dbc" THEN <<[time |-> 0, usd |-> u]>> ELSE <<>>] : u \in Volumes}
  /\ index = [v \in Venues |-> NoCursor]
  /\ graduated = FALSE /\ stored = {} /\ priced = {}
  /\ leased = FALSE /\ worker = [w \in Workers |-> NoJob]
  /\ release = NoRelease /\ claimed = HoldsTicker /\ crashes = 0

-----------------------------------------------------------------------------
(* The chain *)

\* No run lasts from one time to the next between its snapshot and its first
\* reads: finality lags by more than that, and a release is a few reads.
Tick ==
  /\ now < MaxTime
  /\ \A w \in Workers : worker[w].step \notin {"snapshot", "read"}
  /\ release.step = "idle"
  /\ now' = now + 1
  /\ UNCHANGED <<chain, index, graduated, stored, priced, leased, worker, release, claimed, crashes>>

\* A transaction of the curve, until it graduates; then of the DAMM pool,
\* whose first transaction initializes it.
Trades(v, usd) ==
  /\ now < MaxTime /\ Len(chain[v]) < MaxTx[v]   \* bounds: what happens becomes final
  /\ v = "dbc" => chain["damm"] = <<>>
  /\ chain' = [chain EXCEPT ![v] = Append(@, [time |-> now, usd |-> usd])]
  /\ UNCHANGED <<now, index, graduated, stored, priced, leased, worker, release, claimed, crashes>>

\* Finalized chain time: everything before now is final.
root == now - 1

Finalized(v) == Cardinality({i \in DOMAIN chain[v] : chain[v][i].time <= root})

-----------------------------------------------------------------------------
(* indexPool *)

ClaimLease(w) ==
  /\ worker[w].step = "idle" /\ ~leased
  /\ ChartRuns \/ release.step = "idle"
  /\ leased' = TRUE
  /\ worker' = [worker EXCEPT ![w] = [NoJob EXCEPT !.step = "snapshot"]]
  /\ UNCHANGED <<now, chain, index, graduated, stored, priced, release, claimed, crashes>>

LeaseExpires ==
  /\ leased
  /\ Overrun \/ \A w \in Workers : worker[w].step = "idle"
  /\ leased' = FALSE
  /\ UNCHANGED <<now, chain, index, graduated, stored, priced, worker, release, claimed, crashes>>

Reading(v) == [NoJob EXCEPT !.step = "read", !.venue = v]

\* The venue is read from the chain; a graduated pool's history goes first.
RefreshSnapshot(w) ==
  /\ worker[w].step = "snapshot"
  /\ graduated' = (chain["damm"] # <<>>)
  /\ worker' = [worker EXCEPT ![w] = Reading(IF graduated' THEN "damm" ELSE "dbc")]
  /\ UNCHANGED <<now, chain, index, stored, priced, leased, release, claimed, crashes>>

\* The cursor row, then the finalized time, which a resumed scan does not move.
ReadCursor(w) ==
  LET job == worker[w]  row == index[job.venue] IN
  /\ job.step = "read"
  /\ worker' = [worker EXCEPT ![w] =
       [@ EXCEPT !.step = "list", !.previous = row, !.at = row.before, !.creation = row.start,
                 !.started = IF row.started # NoTime THEN row.started ELSE root]]
  /\ UNCHANGED <<now, chain, index, graduated, stored, priced, leased, release, claimed, crashes>>

\* One page, newest first: positions top down to bottom.
Top(v, before) == IF before = 0 THEN Finalized(v) ELSE before - 1
Bottom(top)    == Max({1, top - PageSize + 1})

\* The page is cut at the previous cursor; a first scan of the curve ends at
\* the launch transaction, which belongs to it.
ReachesLaunch(job, bottom, top) == job.venue = "dbc" /\ job.previous.cursor = 0 /\ 1 \in bottom .. top

ListPage(w) ==
  LET job == worker[w]
      top == Top(job.venue, job.previous.before)
      bottom == Bottom(top)
      boundary == job.previous.cursor # 0 /\ job.previous.cursor \in bottom .. top
      last == IF boundary THEN job.previous.cursor + 1 ELSE bottom IN
  /\ job.step = "list"
  /\ worker' = [worker EXCEPT ![w] =
       [@ EXCEPT !.step = IF last > top THEN "finish" ELSE "scan", !.next = top, !.last = last,
                 !.short = top - bottom + 1 < PageSize, !.complete = boundary \/ ReachesLaunch(job, bottom, top),
                 !.head = IF job.previous.head # 0 THEN job.previous.head
                          ELSE IF top >= bottom THEN top ELSE job.previous.cursor]]
  /\ UNCHANGED <<now, chain, index, graduated, stored, priced, leased, release, claimed, crashes>>

\* The trade rows of the receipts at is: those with a swap event of the pool.
IsSwap(trade) == chain[trade[1]][trade[2]].usd > 0
CurveRows(is) == {t \in {<<"dbc", i>> : i \in is} : IsSwap(t)}
GraduatedRows(is) == {t \in {<<"damm", i>> : i \in is} : IsSwap(t)}
Rows(v, is) == IF v = "dbc" THEN CurveRows(is) ELSE GraduatedRows(is)

\* scanHistory reads the receipts of a batch concurrently.  Those in ok were
\* visited without error; a visit that failed may have stored its trade.  The
\* cursor only moves past the receipts before the first failure.
Batch(job) == Max({job.last, job.next - Concurrency + 1}) .. job.next

PassedWhatWorked(batch, ok) == ok          \* mutant: skips the failures
Passed(batch, ok) ==
  LET failed == batch \ ok IN IF failed = {} THEN batch ELSE {i \in batch : i > Max(failed)}

\* The visit of the pool's initialization ends a first scan of a DAMM pool.
Initializes(job, i) == job.venue = "damm" /\ i = 1

VisitBatch(w) ==
  LET job == worker[w]  batch == Batch(job)  v == job.venue IN
  /\ job.step = "scan"
  /\ \E visited \in SUBSET batch, ok \in SUBSET batch : \E known \in IF PriceOutages THEN {{}, visited} ELSE {visited} :
       LET passed == Passed(batch, ok)
           ends   == job.previous.cursor = 0 /\ \E i \in passed : Initializes(job, i) IN
       /\ ok \subseteq visited
       /\ stored' = stored \cup Rows(v, visited)
       /\ priced' = priced \cup Rows(v, known)
       /\ worker' = [worker EXCEPT ![w] =
            [job EXCEPT !.step = "checkpoint",
                      !.at = IF passed = {} THEN job.at ELSE Min(passed),
                      !.creation = IF \E i \in ok : Initializes(job, i) THEN chain[v][1].time ELSE job.creation,
                      !.next = Min(batch) - 1,
                      !.then = IF passed # batch THEN "leave"
                               ELSE IF ends \/ Min(batch) = job.last THEN "finish" ELSE "scan"]]
  /\ UNCHANGED <<now, chain, index, graduated, leased, release, claimed, crashes>>

\* Errors and the end of a graduated scan go on to the curve; a curve scan ends the run.
AfterScan(job) == IF job.venue = "damm" THEN Reading("dbc") ELSE NoJob

SavedCurve(job) ==
  [index["dbc"] EXCEPT !.head = job.head, !.started = job.started, !.before = job.at]
ForgetsStart(job) ==
  [index["damm"] EXCEPT !.head = job.head, !.started = job.started, !.before = job.at]
SavedGraduated(job) ==
  [index["damm"] EXCEPT !.head = job.head, !.started = job.started, !.before = job.at, !.start = job.creation]
Saved(job) == IF job.venue = "dbc" THEN SavedCurve(job) ELSE SavedGraduated(job)

Checkpoint(w) ==
  LET job == worker[w] IN
  /\ job.step = "checkpoint"
  /\ index' = [index EXCEPT ![job.venue] = Saved(job)]
  /\ worker' = [worker EXCEPT ![w] = IF job.then = "leave" THEN AfterScan(job) ELSE [job EXCEPT !.step = job.then]]
  /\ UNCHANGED <<now, chain, graduated, stored, priced, leased, release, claimed, crashes>>

\* The boundary was reached: certify up to the time the scan started at.
Certified(job, start) ==
  [cursor |-> job.head, before |-> 0, head |-> 0, started |-> NoTime, through |-> job.started, start |-> start]

FinishCurve(w) ==
  LET job == worker[w]
      start == IF job.previous.start = NoTime THEN 0 ELSE job.previous.start IN
  /\ job.step = "finish" /\ job.venue = "dbc"
  /\ index' = [index EXCEPT !["dbc"] = IF job.complete THEN Certified(job, start) ELSE SavedCurve(job)]
  /\ worker' = [worker EXCEPT ![w] = NoJob]
  /\ UNCHANGED <<now, chain, graduated, stored, priced, leased, release, claimed, crashes>>

FinishGraduated(w) ==
  LET job == worker[w]
      complete == job.complete \/ (job.previous.cursor = 0 /\ job.creation # NoTime) IN
  /\ job.step = "finish" /\ job.venue = "damm"
  /\ index' = CASE complete -> [index EXCEPT !["damm"] = Certified(job, job.creation)]
                [] ~complete /\ ~job.short -> [index EXCEPT !["damm"] = SavedGraduated(job)]
                [] OTHER -> index
  /\ worker' = [worker EXCEPT ![w] = Reading("dbc")]
  /\ UNCHANGED <<now, chain, graduated, stored, priced, leased, release, claimed, crashes>>

\* The deadline stops a scan before a batch, without a checkpoint.
Deadline(w) ==
  /\ worker[w].step = "scan"
  /\ worker' = [worker EXCEPT ![w] = AfterScan(worker[w])]
  /\ UNCHANGED <<now, chain, index, graduated, stored, priced, leased, release, claimed, crashes>>

\* A thrown error, of which one in the graduated scan is caught, or the end of
\* the function, at any await.
Crash(w) ==
  /\ worker[w].step # "idle" /\ crashes < MaxCrashes
  /\ crashes' = crashes + 1
  /\ \E job \in {NoJob, AfterScan(worker[w])} : worker' = [worker EXCEPT ![w] = job]
  /\ UNCHANGED <<now, chain, index, graduated, stored, priced, leased, release, claimed>>

-----------------------------------------------------------------------------
(* Trades stored outside the scans, and late prices *)

\* indexConfirmedTrade and refreshRecentTrades never touch a cursor.
StoreRecent(v, i) ==
  /\ i \in DOMAIN chain[v] /\ i > Len(chain[v]) - RecentLimit /\ IsSwap(<<v, i>>) /\ <<v, i>> \notin stored
  /\ stored' = stored \cup {<<v, i>>}
  /\ UNCHANGED <<now, chain, index, graduated, priced, leased, worker, release, claimed, crashes>>

PriceMissing(t) ==
  /\ t \in stored \ priced
  /\ priced' = priced \cup {t}
  /\ UNCHANGED <<now, chain, index, graduated, stored, leased, worker, release, claimed, crashes>>

-----------------------------------------------------------------------------
(* releaseInactiveTickers: the snapshot, the trades and the graduated index  *)
(* are three reads                                                         *)

Midnight(t) == (t \div DayLength) * DayLength
Start(t)    == Midnight(t) - InactivityDays * DayLength
Day(t)      == t \div DayLength

ObserveSnapshot ==
  /\ release.step = "idle" /\ claimed
  /\ ChartRuns \/ \A w \in Workers : worker[w].step = "idle"
  /\ release' = [NoRelease EXCEPT !.step = "trades", !.now = now, !.graduated = graduated,
                                  !.start = index["dbc"].start, !.through = index["dbc"].through]
  /\ UNCHANGED <<now, chain, index, graduated, stored, priced, leased, worker, claimed, crashes>>

ObserveTrades ==
  /\ release.step = "trades"
  /\ release' = [release EXCEPT !.step = "decide", !.stored = stored, !.priced = priced]
  /\ UNCHANGED <<now, chain, index, graduated, stored, priced, leased, worker, claimed, crashes>>

\* A graduated pool is covered up to the earlier of its two histories.
CurveThrough == release.through            \* mutant: reads the curve's only
CoveredThrough ==
  LET damm == index["damm"] IN
  IF ~release.graduated THEN release.through
  ELSE IF /\ damm.start # NoTime /\ damm.through # NoTime /\ release.through # NoTime
          /\ release.through >= damm.start
       THEN Min({release.through, damm.through})
       ELSE NoTime

TimeOf(t) == chain[t[1]][t[2]].time
Volume(ts)  == FoldSet(LAMBDA t, sum : sum + chain[t[1]][t[2]].usd, 0, ts)
OnDay(ts, day) == {t \in ts : Day(TimeOf(t)) = day}

\* canReleaseTicker for one pool, created at time 0.
CanReleaseTicker ==
  LET start == Start(release.now)  midnight == Midnight(release.now)
      recent == {t \in release.stored : TimeOf(t) >= start} IN
  /\ 0 <= start
  /\ CoveredThrough # NoTime /\ CoveredThrough >= midnight
  /\ release.start # NoTime /\ release.start <= start
  /\ recent \subseteq release.priced
  /\ \A day \in Day(start) .. Day(midnight) : Volume(OnDay(recent, day)) < QuietLimit

ReleaseInactive ==
  /\ release.step = "decide"
  /\ claimed' = (claimed /\ ~CanReleaseTicker)
  /\ release' = NoRelease
  /\ UNCHANGED <<now, chain, index, graduated, stored, priced, leased, worker, crashes>>

-----------------------------------------------------------------------------
WorkerStep(w) ==
  \/ ClaimLease(w) \/ RefreshSnapshot(w) \/ ReadCursor(w) \/ ListPage(w)
  \/ VisitBatch(w) \/ Checkpoint(w) \/ FinishCurve(w) \/ FinishGraduated(w)

Next ==
  \/ Tick \/ LeaseExpires
  \/ \E v \in Venues, usd \in Volumes : Trades(v, usd)
  \/ \E w \in Workers : WorkerStep(w) \/ Deadline(w) \/ Crash(w)
  \/ \E v \in Venues : \E i \in 1 .. MaxTx[v] : StoreRecent(v, i)
  \/ \E t \in Trade : PriceMissing(t)
  \/ ObserveSnapshot \/ ObserveTrades \/ ReleaseInactive

Spec == Init /\ [][Next]_vars

VisitsWholeBatch(w) == VisitBatch(w) /\ worker[w]'.at = Min(Batch(worker[w]))

\* The cron job comes back to the pool, the node answers in the end, and a
\* run is not always stopped by its deadline before the same batch.
FairSpec ==
  /\ Spec /\ SF_vars(Tick) /\ WF_vars(LeaseExpires)
  /\ \A w \in Workers :
       /\ SF_vars(ClaimLease(w))
       /\ WF_vars(RefreshSnapshot(w)) /\ WF_vars(ReadCursor(w)) /\ WF_vars(ListPage(w))
       /\ WF_vars(Checkpoint(w)) /\ WF_vars(FinishCurve(w)) /\ WF_vars(FinishGraduated(w))
       /\ SF_vars(VisitsWholeBatch(w))

-----------------------------------------------------------------------------
(* Properties *)

TypeOK ==
  /\ now \in Time
  /\ chain \in [Venues -> Seq(Tx)] /\ \A v \in Venues : Len(chain[v]) <= MaxTx[v]
  /\ index \in [Venues -> Cursor]
  /\ graduated \in BOOLEAN /\ leased \in BOOLEAN /\ claimed \in BOOLEAN
  /\ priced \subseteq stored
  /\ stored \subseteq {t \in Trade : t[2] \in DOMAIN chain[t[1]] /\ chain[t[1]][t[2]].usd > 0}
  /\ \A w \in Workers : worker[w].step \in Steps /\ worker[w].venue \in Venues
  /\ release.step \in {"idle", "trades", "decide"}

\* A swap that the index is certified to cover, and that is not stored.
Missed(v, i) ==
  /\ i \in DOMAIN chain[v] /\ IsSwap(<<v, i>>) /\ <<v, i>> \notin stored
  /\ index[v].through # NoTime /\ chain[v][i].time <= index[v].through

\* "Never certify coverage over a gap" (scan-history.ts:57): every swap of a
\* venue up to the time its index is certified for is in token_trades.
CoverageHasNoGap == \A v \in Venues : \A i \in DOMAIN chain[v] : ~Missed(v, i)

\* What holds of it, whatever fails on the way, and also when a run that
\* outlived its lease writes over the cursor of another: nothing of the curve
\* is missed, and of the DAMM pool only transactions that were read in one
\* batch with its initialization, whose visit alone ends a first scan.
GapOnlyInFirstBatch ==
  \A v \in Venues : \A i \in DOMAIN chain[v] :
    Missed(v, i) => v = "damm" /\ i \in 2 .. Concurrency

\* What a complete index of the chain would have shown at time t.
Swaps == UNION {Rows(v, DOMAIN chain[v]) : v \in Venues}
WasQuiet(t) ==
  \A day \in Day(Start(t)) .. Day(t) - 1 : Volume(OnDay(Swaps, day)) < QuietLimit

\* A ticker is given up only after thirty days that were quiet on the chain,
\* not only in the database (canReleaseTicker, releaseInactiveTickers).
ReleasedAfterQuietDays ==
  [][claimed /\ ~claimed' => WasQuiet(release.now)]_vars

\* A first scan that a crash interrupts anywhere is resumed and certified in
\* the end, and later ones go on from there: on the DAMM pool the checkpoint
\* also remembers that its initialization was seen (indexGraduatedPool), and
\* every transaction ends up before the certified time.
GraduatedCompletes ==
  \A i \in 1 .. MaxTx["damm"] :
    i \in DOMAIN chain["damm"] ~>
      /\ i \in DOMAIN chain["damm"] /\ index["damm"].through # NoTime
      /\ chain["damm"][i].time <= index["damm"].through

\* The same of the curve: "large backfills continue across invocations"
\* (docs/launchpad.md:37).  Holds only when no run ends between its last
\* checkpoint and the certificate (indexPool).
CurveCompletes == <>(index["dbc"].through # NoTime)
=============================================================================
