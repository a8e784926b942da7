----------------------------- MODULE MCProgress -----------------------------
(* What comes to an end, for TLC: launches and trades, the history of a    *)
(* pool, a launch with shared fees, the rotation of the pools, the claim   *)
(* service, the public cache, the review of an intent on a page and the    *)
(* panels that poll, under the fairness of their modules; the launch is    *)
(* SharedLaunch itself. They share no variable, so one of them moves in a  *)
(* behaviour (part); of the others the variables are None, or as they      *)
(* began where a property reads them.                                      *)
EXTENDS SharedLaunch, Sequences

CONSTANTS q1, q2, i1, i2, l1, t1, n1, symbol, r1, x1, a1, c1, p1, p2, p3, g1, g2, d1, d2

VARIABLES
  part,
  \* LaunchRegistry
  tokens, claims, launching, intents, message, signature, validThrough, worker,
  releasing, height, sent, landed, crashesR,
  \* HistoryIndexer
  nowH, chain, index, graduated, stored, priced, leased, workerH, release,
  claimed, crashesH,
  \* IndexerRotation
  sweeps, attempts, resting, sweep, run, chart, started, throws,
  \* FeeClaims
  profile, binding, challenge, intent, workerC, sentC, landedC, entitled, claimedC,
  bound, receipt, control, nowC,
  \* PublicCache
  now, version, memory, redis, lock, fallback, unavailableUntil, work, request,
  failures,
  \* WalletReview
  server, page, storage, calls, submitted, late, counted, notified, attemptsR, reloads,
  \* LivePanels
  panel, selection, requests, shown, loading, failed, hidden, due, changes,
  failuresP, hides

sharedVars == vars
registryVars == <<tokens, claims, launching, intents, message, signature,
                  validThrough, worker, releasing, height, sent, landed, crashesR>>
historyVars == <<nowH, chain, index, graduated, stored, priced, leased, workerH,
                 release, claimed, crashesH>>
cacheVars == <<now, version, memory, redis, lock, fallback, unavailableUntil,
               work, request, failures>>
rotationVars == <<sweeps, attempts, resting, sweep, run, chart, started, throws>>
claimVars == <<profile, binding, challenge, intent, workerC, sentC, landedC,
               entitled, claimedC, bound, receipt, control, nowC>>
reviewVars == <<server, page, storage, calls, submitted, late, counted,
                notified, attemptsR, reloads>>
panelVars == <<panel, selection, requests, shown, loading, failed, hidden, due,
               changes, failuresP, hides>>

(* A launch and a trade, dropped blocks and a request that dies.           *)
Registry ==
  INSTANCE LaunchRegistry WITH
    Launches <- {l1}, Trades <- {t1}, Conversions <- {}, Tickers <- {symbol},
    tickerOf <- [l \in {l1} |-> symbol], Workers <- {r1}, HistoryLags <- FALSE,
    Forks <- TRUE, Validity <- 1, MaxHeight <- 2, MaxCrashes <- 1,
    crashes <- crashesR

(* A first scan of a graduated pool, interrupted once.                     *)
History ==
  INSTANCE HistoryIndexer WITH
    Workers <- {r1}, PageSize <- 2, Concurrency <- 2, InactivityDays <- 1,
    DayLength <- 2, QuietLimit <- 1, Overrun <- FALSE, ChartRuns <- FALSE,
    RecentLimit <- 0, PriceOutages <- FALSE, HoldsTicker <- FALSE, Volumes <- {1},
    MaxTime <- 2, MaxTx <- [v \in {"dbc", "damm"} |-> IF v = "dbc" THEN 1 ELSE 3],
    MaxCrashes <- 1, now <- nowH, worker <- workerH, crashes <- crashesH

(* Three pools, one of them broken, and a budget for two.                  *)
Rotation ==
  INSTANCE IndexerRotation WITH
    Pools <- {p1, p2, p3}, Graduated <- {p1, p2}, Broken <- {p2}, Visitors <- {x1},
    BatchSize <- 2, PerSweep <- 2, PerRun <- 2, MaxThrows <- 1

(* One claim of one account, a pause that may last for ever, requests that *)
(* die.                                                                    *)
Claim ==
  INSTANCE FeeClaims WITH
    Challenges <- {c1}, XIds <- {x1}, Wallets <- {a1}, Posts <- {p1},
    MaxIntents <- 1, Workers <- {r1}, Amounts <- {1}, MaxEntitled <- 1,
    MaxEpoch <- 2, ChallengeLife <- 1, BlockhashLife <- 1, MaxTime <- 2,
    now <- nowC, worker <- workerC, sent <- sentC, landed <- landedC,
    claimed <- claimedC

(* Two requests on two instances, loaders that outlive their lock, an      *)
(* outage of Redis.                                                        *)
Cache ==
  INSTANCE PublicCache WITH
    Instances <- {i1, i2}, Requests <- {q1, q2}, Fresh <- 1, Stale <- 1,
    LockLife <- 1, BreakerLength <- 3, Polls <- 2, MaxTime <- 2,
    MaxFailures <- 1, MaxWorks <- 1

(* A trade and a conversion on one page, whose replies arrive.             *)
Review ==
  INSTANCE WalletReview WITH
    Intents <- {t1, n1}, Trades <- {t1}, Conversions <- {n1}, Setups <- {},
    LostReplies <- FALSE, MaxPolls <- 2, MaxAttempts <- 1, MaxReloads <- 1,
    attempts <- attemptsR

(* Every panel, two groups and two details to select.                      *)
Panel ==
  INSTANCE LivePanels WITH
    Panels <- {"assets", "quote", "chart", "traders", "creators", "recipients",
               "office", "token"},
    Groups <- {g1, g2}, Details <- {d1, d2}, Latest <- d1, MaxChanges <- 2,
    MaxFailures <- 1, MaxHides <- 1, failures <- failuresP

Parts == {"cache", "registry", "history", "shared", "rotation", "claims",
          "review", "panels"}

MCProgressInit ==
  /\ part \in Parts
  /\ Init /\ (part # "shared" => linked = x1)
  /\ IF part = "registry" THEN Registry!Init
     ELSE /\ intents = [i \in {l1, t1} |-> "absent"]
          /\ tokens = None /\ claims = None /\ launching = None /\ message = None
          /\ signature = None /\ validThrough = None /\ worker = None
          /\ releasing = None /\ height = None /\ sent = None /\ landed = None
          /\ crashesR = None
  /\ IF part = "history" THEN History!Init
     ELSE /\ chain = [v \in {"dbc", "damm"} |-> <<>>]
          /\ index = [v \in {"dbc", "damm"} |-> [through |-> History!NoTime]]
          /\ nowH = None /\ graduated = None /\ stored = None
          /\ priced = None /\ leased = None /\ workerH = None /\ release = None
          /\ claimed = None /\ crashesH = None
  /\ IF part = "cache" THEN Cache!Init
     ELSE /\ request = [q \in {q1, q2} |-> [status |-> "new"]]
          /\ redis = None /\ now = None /\ version = None /\ memory = None
          /\ lock = None /\ fallback = None /\ unavailableUntil = None
          /\ work = None /\ failures = None
  /\ IF part = "rotation" THEN Rotation!Init
     ELSE /\ attempts = <<p1, p2, p3>>
          /\ sweeps = None /\ resting = None /\ sweep = None /\ run = None
          /\ chart = None /\ started = None /\ throws = None
  /\ IF part = "claims" THEN Claim!Init
     ELSE /\ intent = <<None>> /\ sentC = {}
          /\ profile = None /\ binding = None /\ challenge = None /\ workerC = None
          /\ landedC = None /\ entitled = None /\ claimedC = None /\ bound = None
          /\ receipt = None /\ control = None /\ nowC = None
  /\ IF part = "review" THEN Review!Init
     ELSE /\ page = Review!Blank
          /\ server = None /\ storage = None /\ calls = None /\ submitted = None
          /\ late = None /\ counted = None /\ notified = None /\ attemptsR = None
          /\ reloads = None
  \* the groups are interchangeable: one of them is selected first
  /\ IF part = "panels" THEN Panel!Init /\ selection.group = g1
     ELSE /\ panel = "quote" /\ selection = [group |-> g1, detail |-> d1]
          /\ requests = {} /\ shown = None /\ loading = TRUE /\ failed = FALSE
          /\ hidden = FALSE /\ due = TRUE /\ changes = 0 /\ failuresP = 0 /\ hides = 0

(* The sweeps of recent trades share nothing with the history runs: none   *)
(* starts here.                                                            *)
SweepsRest == UNCHANGED <<sweeps, sweep>>

MCProgressNext ==
  /\ part' = part
  /\ IF part = "cache" THEN Cache!Next ELSE UNCHANGED cacheVars
  /\ IF part = "registry" THEN Registry!Next ELSE UNCHANGED registryVars
  /\ IF part = "history" THEN History!Next ELSE UNCHANGED historyVars
  /\ IF part = "shared" THEN Next ELSE UNCHANGED sharedVars
  /\ IF part = "rotation" THEN Rotation!Next /\ SweepsRest ELSE UNCHANGED rotationVars
  /\ IF part = "claims" THEN Claim!Next /\ Claim!DeathsEnd(r1) ELSE UNCHANGED claimVars
  /\ IF part = "review" THEN Review!Next ELSE UNCHANGED reviewVars
  /\ IF part = "panels" THEN Panel!Next ELSE UNCHANGED panelVars

(* The part never changes, so fairness of a disjunction of steps of        *)
(* different parts is fairness of the step of the part that moves. The     *)
(* k-th of these holds the k-th condition of the fairness of each module.  *)
Moving ==
  CASE part = "cache" -> cacheVars [] part = "registry" -> registryVars
    [] part = "history" -> historyVars [] part = "shared" -> sharedVars
    [] part = "rotation" -> rotationVars [] part = "claims" -> claimVars
    [] part = "review" -> reviewVars [] part = "panels" -> panelVars

Of(p) == part = p /\ part' = part

PartsAreFair ==
  /\ WF_Moving(\/ Of("cache") /\ Cache!WorkStep(i1)
               \/ Of("registry") /\ Registry!Tick
               \/ Of("history") /\ History!LeaseExpires
               \/ Of("rotation") /\ Rotation!StartRun
               \/ Of("claims") /\ Claim!Tick
               \/ Of("review") /\ Review!Poll
               \/ Of("panels") /\ Panel!Tick)
  /\ WF_Moving(\/ Of("cache") /\ Cache!WorkStep(i2)
               \/ Of("registry") /\ Registry!HandlerStep(r1)
               \/ Of("history") /\ History!RefreshSnapshot(r1)
               \/ Of("rotation") /\ Rotation!IndexPool
               \/ Of("claims") /\ Claim!Leave(r1)
               \/ Of("review") /\ Review!ServeSubmit
               \/ Of("panels") /\ Panel!StartLoad)
  /\ WF_Moving(\/ Of("registry") /\ (Registry!PrepareIntent(l1) \/ Registry!UndoReservation(l1))
               \/ Of("history") /\ History!ReadCursor(r1)
               \/ Of("rotation") /\ Rotation!EndRun
               \/ Of("claims") /\ Claim!ReconcileStep(r1)
               \/ Of("review") /\ Review!SubmitAnswers
               \/ Of("panels") /\ Panel!Show)
  /\ WF_Moving(\/ Of("history") /\ History!ListPage(r1)
               \/ Of("review") /\ \E x \in calls : Review!Serve(x)
               \/ Of("panels") /\ \E r \in requests : Panel!Answer(r) \/ Panel!Fail(r))
  /\ WF_Moving(\/ Of("history") /\ History!Checkpoint(r1)
               \/ Of("review")
                  /\ \E x \in calls : Review!PollAnswers(x) \/ Review!ResumeAnswers(x))
  /\ WF_Moving(\/ Of("history") /\ History!FinishCurve(r1)
               \/ Of("review") /\ server[t1] = "submitted" /\ Review!Settle(t1))
  /\ WF_Moving(\/ Of("history") /\ History!FinishGraduated(r1)
               \/ Of("review") /\ server[n1] = "submitted" /\ Review!Settle(n1))
  /\ SF_Moving(Of("history") /\ History!Tick)
  /\ SF_Moving(Of("history") /\ History!ClaimLease(r1))
  /\ SF_Moving(Of("history") /\ History!VisitsWholeBatch(r1))

progressVars == <<part, cacheVars, registryVars, historyVars, sharedVars,
                  rotationVars, claimVars, reviewVars, panelVars>>
MCProgressSpec == MCProgressInit /\ [][MCProgressNext]_progressVars /\ PartsAreFair

(* Every intent that reached a wallet is settled, through dropped blocks,  *)
(* lost broadcasts and requests that die (reconcile), and a launch with    *)
(* shared fees that landed becomes active unless the escrow stays paused   *)
(* (reconcileLaunchAllocation), each if reconcile is called for it again   *)
(* and again: EveryIntentSettles and LandedBecomesActive, for this part.   *)
IntentsSettle ==
  /\ \A i \in {l1, t1} :
       SF_Moving(Of("registry") /\ Registry!Reconcile(r1, i)) =>
         (intents[i] \in {"prepared", "submitted"} ~> intents[i] \in Registry!Terminal)
  /\ \A l \in Ids :
       (WF_Moving(Of("shared") /\ Unpause) /\ WF_Moving(Of("shared") /\ Reconciles(l))) =>
         (launch[l].onChain /\ launch[l].status = "prepared" ~> launch[l].status = "active")

(* Every pool that can be read is scanned again and again, whatever pools  *)
(* are broken, and a first scan of a graduated pool is certified although  *)
(* it was interrupted (indexPool, indexGraduatedPool, recent-indexer.ts).  *)
HistoryReachesAll ==
  /\ part = "rotation" => Rotation!HistoryReachesAll
  /\ History!GraduatedCompletes

(* A submitted claim is settled even while the escrow is paused for good,  *)
(* if reconcile is called for it again and again (FeeClaims!ClaimsSettle,  *)
(* for this part; reconcileCreatorFeeClaim).                               *)
ClaimsSettle ==
  SF_Moving(Of("claims") /\ Claim!Reconcile(r1, 1)) =>
    (1 \in sentC ~> intent[1] # None /\ intent[1].status \in Claim!Terminal)

(* Whoever waits is answered: a request for cached data (publicCache), a   *)
(* page for the end of its intent (provider.tsx), and a panel that polls   *)
(* for what is selected, after failed loads as well; what a panel that has *)
(* settled shows is what is selected (portfolio-view.tsx, quote-assets.ts, *)
(* office.tsx).                                                            *)
RequestsEnd ==
  /\ Cache!EveryRequestEnds
  /\ Review!SettlesOnScreen
  /\ part = "panels" => Panel!CatchesUp
  /\ [](part = "panels" => Panel!TypeOK /\ Panel!SettledIsSelected)
=============================================================================
