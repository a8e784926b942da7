----------------------------- MODULE MCServices -----------------------------
(* What the server does beside transactions, for TLC: HistoryIndexer       *)
(* itself, and instances of the modules for sessions, limits, comments,    *)
(* sales and the order in which pools are indexed. They share no variable, *)
(* so one of them moves in a behaviour (part) and the variables of the     *)
(* others are None, or as they began.                                      *)
EXTENDS HistoryIndexer

CONSTANTS None, r1, r2, w1, w2, x1

(* The constants of WalletSession.                                         *)
CONSTANTS Wallets, XIds, Tabs, Handlers, MaxChallenges, MaxFlows, MaxLoads

(* The constants of ApiGate, and of IndexerRotation.                       *)
CONSTANTS Instances, Visitors, Possible, Maximum, Window, Kept, MaxNow,
          MaxRequests, MaxOutages,
          Pools, Graduated, Broken, BatchSize, PerSweep, PerRun, MaxThrows

(* Those of TraderComments, and of SaleShare.                              *)
CONSTANTS Visitor, CommentPage, MaxReceipts, MaxComments, MaxRemovals,
          Amounts, Quotes, MaxTrades, MaxSeconds, MaxPolls

VARIABLES
  part,
  \* Links: the variables of WalletSession
  challenges, signatures, sessions, verifying, jar, tab, profile, issued, flows, loads,
  \* Gate: those of ApiGate
  nowG, redisUp, outages, limits, blocked, cache, requests, reply, granted, arrived,
  \* CatchUps: those of IndexerRotation
  sweeps, attempts, resting, sweep, run, chart, started, throws,
  \* Comments: those of TraderComments
  receipts, proofs, comments, posting, tabC, used, removed,
  \* Sales: those of SaleShare
  chainS, graduatedS, indexed, through, sale, shown, polls

Transactions(dbc, damm) == [v \in Venues |-> IF v = "dbc" THEN dbc ELSE damm]

(* The constants of HistoryIndexer itself: a first scan of three           *)
(* transactions by two runs that may outlive their leases and crash.       *)
CoverageTx == Transactions(3, 0)

(* A graduated pool whose history outgrows a page while its first scan     *)
(* fails and goes on.                                                      *)
Graduation ==
  INSTANCE HistoryIndexer WITH
    Workers <- {r1}, PageSize <- 2, Concurrency <- 2, InactivityDays <- 1,
    DayLength <- 2, QuietLimit <- 1, Overrun <- FALSE, ChartRuns <- FALSE,
    RecentLimit <- 0, PriceOutages <- FALSE, HoldsTicker <- FALSE,
    Volumes <- {1}, MaxTime <- 3, MaxTx <- Transactions(1, 4), MaxCrashes <- 0

(* A token that may turn quiet, on both venues, with missing prices. The   *)
(* DAMM pool's history fits a page: beyond it, its index may be certified  *)
(* over trades it misses (CoverageHasNoGap).                               *)
Inactivity ==
  INSTANCE HistoryIndexer WITH
    Workers <- {r1}, PageSize <- 2, Concurrency <- 2, InactivityDays <- 1,
    DayLength <- 2, QuietLimit <- 1, Overrun <- FALSE, ChartRuns <- FALSE,
    RecentLimit <- 1, PriceOutages <- TRUE, HoldsTicker <- TRUE,
    Volumes <- {0, 1}, MaxTime <- 3, MaxTx <- Transactions(1, 2), MaxCrashes <- 0

(* Two wallets sign in and link one X account in two tabs.                 *)
Links == INSTANCE WalletSession

(* None is no tab, no number, and the bounds are numbers.                  *)
ASSUME SessionAssumption ==
  /\ MaxChallenges \in Nat /\ MaxFlows \in Nat
  /\ None \notin Nat \cup Tabs

Request(action, wallet, session, instance, sameOrigin) ==
  [action |-> action, wallet |-> wallet, session |-> session,
   visitor |-> x1, instance |-> instance, sameOrigin |-> sameOrigin]

(* For TLC: a limited write on two instances while Redis fails and comes   *)
(* back, the public and the private read of one action, and requests to be *)
(* refused.                                                                *)
SomeRequests ==
  {Request("post-image", None, w1, r1, TRUE), Request("post-image", None, w1, r2, TRUE),
   Request("trade", None, None, r2, FALSE),
   Request("trade-assets", None, None, r1, TRUE), Request("trade-assets", w1, None, r1, TRUE),
   Request("tokens", w1, None, r1, TRUE), Request("portfolio", None, w1, r1, TRUE),
   Request("cron", None, None, r1, TRUE)}

(* Requests on two instances.                                              *)
Gate == INSTANCE ApiGate WITH now <- nowG

(* A request comes from a browser to an instance, with a wallet in its     *)
(* session and in its parameters or without; limits and times are counts,  *)
(* and no account is None.                                                 *)
ASSUME GateAssumption ==
  /\ Maximum \in Nat /\ Window \in Nat \ {0} /\ MaxNow \in Nat /\ Kept \in Nat
  /\ MaxRequests \in Nat /\ MaxOutages \in Nat
  /\ Possible \subseteq
       [action : STRING, wallet : Wallets \cup {None}, session : Wallets \cup {None},
        visitor : Visitors, instance : Instances, sameOrigin : BOOLEAN]

(* Empty charts of two pools, one of them broken, seen by two visitors.    *)
CatchUps == INSTANCE IndexerRotation

(* The order has every pool; a run looks at some and has a budget.         *)
ASSUME RotationAssumption ==
  /\ IsFiniteSet(Pools) /\ None \notin Pools
  /\ BatchSize \in Nat /\ PerSweep \in Nat /\ PerRun \in Nat

(* Comments of the wallets, one of whom has the list on the screen.        *)
Comments == INSTANCE TraderComments WITH PageSize <- CommentPage, tab <- tabC

(* Trades of one wallet on both venues, of which several share a second.   *)
Sales ==
  INSTANCE SaleShare WITH
    MaxTime <- MaxSeconds, chain <- chainS, graduated <- graduatedS

(* For TLC: signatures order the trades of one second only, so between     *)
(* seconds they may as well grow; a sweep commutes with what comes before  *)
(* the sale; a pending result changes nothing and an unavailable one is    *)
(* the end; the last trade there can be is worth a look if it is a sale.   *)
(* Trades of a pool that graduates are of fewer amounts.                   *)
SalesBound ==
  /\ \A i, j \in DOMAIN chainS' :
       chainS'[i].time < chainS'[j].time => chainS'[i].signature < chainS'[j].signature
  /\ indexed' # indexed => through' # through \/ (sale # None /\ polls < MaxPolls)
  /\ polls' # polls => shown'.status # "pending"
  /\ shown.status # "unavailable"
  /\ graduatedS' # None => \A i \in DOMAIN chainS' : chainS'[i].amount # 2
  /\ Len(chainS') = MaxTrades => chainS'[MaxTrades].side = "sell"

(* Trades are of something, and the bounds are numbers.                    *)
ASSUME RecordsAssumption ==
  /\ MaxComments \in Nat /\ MaxRemovals \in Nat
  /\ Amounts \subseteq Nat \ {0} /\ Quotes \subseteq Nat
  /\ MaxTrades \in Nat /\ MaxSeconds \in Nat /\ MaxPolls \in Nat

historyVars == vars
sessionVars ==
  <<challenges, signatures, sessions, verifying, jar, tab, profile, issued, flows, loads>>
limitVars ==
  <<nowG, redisUp, outages, limits, blocked, cache, requests, reply, granted, arrived>>
rotationVars == <<sweeps, attempts, resting, sweep, run, chart, started, throws>>
commentVars == <<receipts, proofs, comments, posting, tabC, used, removed>>
saleVars == <<chainS, graduatedS, indexed, through, sale, shown, polls>>

Parts == {"coverage", "graduation", "inactivity", "links", "gate", "catch-ups",
          "comments", "sales"}

MCServicesInit ==
  /\ part \in Parts
  /\ IF part = "inactivity" THEN Inactivity!Init
     ELSE IF part = "graduation" THEN Graduation!Init ELSE Init
  /\ IF part = "links" THEN Links!Init
     ELSE /\ challenges = None /\ signatures = None /\ sessions = None
          /\ verifying = None /\ jar = None /\ tab = None /\ profile = None
          /\ issued = None /\ flows = None /\ loads = None
  /\ IF part = "gate" THEN Gate!Init
     ELSE /\ nowG = None /\ redisUp = None /\ outages = None /\ limits = None
          /\ blocked = None /\ cache = None /\ requests = None /\ reply = None
          /\ granted = None /\ arrived = None
  /\ IF part = "catch-ups" THEN CatchUps!Init
     ELSE /\ sweeps = None /\ attempts = None /\ resting = None /\ sweep = None
          /\ run = None /\ chart = None /\ started = None /\ throws = None
  /\ IF part = "comments" THEN Comments!Init
     ELSE /\ receipts = None /\ proofs = None /\ comments = None
          /\ posting = None /\ tabC = None /\ used = None /\ removed = None
  /\ IF part = "sales" THEN Sales!Init
     ELSE /\ chainS = None /\ graduatedS = None /\ indexed = None
          /\ through = None /\ sale = None /\ shown = None /\ polls = None

MCServicesNext ==
  /\ part' = part
  /\ \/ part = "coverage" /\ Next
        /\ UNCHANGED <<sessionVars, limitVars, rotationVars, commentVars, saleVars>>
     \/ part = "graduation" /\ Graduation!Next
        /\ UNCHANGED <<sessionVars, limitVars, rotationVars, commentVars, saleVars>>
     \/ part = "inactivity" /\ Inactivity!Next
        /\ UNCHANGED <<sessionVars, limitVars, rotationVars, commentVars, saleVars>>
     \/ part = "links" /\ Links!Next
        /\ UNCHANGED <<historyVars, limitVars, rotationVars, commentVars, saleVars>>
     \/ part = "gate" /\ Gate!Next
        /\ UNCHANGED <<historyVars, sessionVars, rotationVars, commentVars, saleVars>>
     \/ part = "catch-ups" /\ CatchUps!Next
        /\ UNCHANGED <<historyVars, sessionVars, limitVars, commentVars, saleVars>>
     \/ part = "comments" /\ Comments!Next
        /\ UNCHANGED <<historyVars, sessionVars, limitVars, rotationVars, saleVars>>
     \/ part = "sales" /\ Sales!Next /\ SalesBound
        /\ UNCHANGED <<historyVars, sessionVars, limitVars, rotationVars, commentVars>>

MCServicesSpec ==
  MCServicesInit
  /\ [][MCServicesNext]_<<part, historyVars, sessionVars, limitVars, rotationVars,
                          commentVars, saleVars>>

(* A challenge opens one session and a proof of X ownership counts in the  *)
(* session it was made in, whatever two tabs of one browser do at once     *)
(* (auth.ts, x-session.ts).                                                *)
SessionsAreOwn == part = "links" => Links!TypeOK /\ Links!SessionsAreOwn

(* Of two overlapping link flows of one browser only the one begun last    *)
(* writes a profile (beginXLink, x-callback).                              *)
LatestLinkWins == [][part = "links" => Links!LinkIsLatest]_sessionVars

(* Limits hold over all instances and through Redis outages, a denial ends *)
(* with the window that caused it, what is about a wallet never becomes a  *)
(* public answer (rateLimit, publicPolicy), and a pool whose chart is      *)
(* empty is caught up with once a minute (the candles read).               *)
LimitsHold ==
  /\ part = "gate" =>
       /\ Gate!TypeOK /\ Gate!LimitHolds /\ Gate!DenialEndsWithWindow
       /\ Gate!PublicIsNobodys
  /\ part = "catch-ups" => CatchUps!TypeOK /\ CatchUps!OneCatchUpPerMinute

(* A comment stands by a finalized purchase of its author (comments.ts),   *)
(* and the cost shown for a sale is the average cost of all the trades     *)
(* before it, in an order the chain allows, of a graduated pool where its  *)
(* curve was covered when the cost was computed (sale-share.ts).           *)
RecordsAreTrue ==
  /\ part = "comments" => Comments!TypeOK /\ Comments!CommentsAreFromBuyers
  /\ part = "sales" => Sales!TypeOK /\ Sales!ShownCostIsTrue
=============================================================================
