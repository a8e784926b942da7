----------------------------- MODULE MCClients ------------------------------
(* The pages, the transactions a user reviews, and the tools of the        *)
(* operators, with the public cache, which is PublicCache itself, for TLC. *)
(* The modules share no variable, so one of them moves in a behaviour      *)
(* (part) and the variables of the others are None, or as they began.      *)
EXTENDS PublicCache, Sequences

(* The constants of WalletReview, and of DeploymentConsole.                *)
CONSTANTS Intents, Trades, Conversions, Setups, LostReplies, MaxPolls,
          MaxAttempts, MaxReloads, Consoles, Chunks, BatchSize, Window, FeeCeiling, BufferRent,
          ProgramRent, ApprovedBudget, MaxHeight, MaxCrashes

(* The constants of MarketFeed, FeeDashboard and WalletSession.            *)
CONSTANTS Keys, MaxTrades, MaxFetches, MaxChanges, Tokens, PageSize, MaxClicks,
          Tabs, Handlers, MaxChallenges, MaxFlows, MaxLoads

(* The constants of LifecycleScript.                                       *)
CONSTANTS Labels, Claims, RunWindow, LastRunHeight, RunCrashes, RunErrors

(* The constants of CreateLaunch, RetirementReview and PoolSetup.          *)
CONSTANTS Wallets, Handles, Tickers, XIds, Whole, Shares, MaxRows, MaxEdits,
          Pools, MaxSlot,
          Prices, Deployed, ReviewWindow, Nearly, MaxReviews, LastBlock

VARIABLES
  part,
  \* CreateLaunch
  form, session, profile, lookups, preparing, adopting, adding, prefill, draft,
  sent, launches, edits,
  \* MarketFeed
  entries, pending, fetches, generation, key, view, hook, seeking, available,
  fetched, changes,
  \* FeeDashboard
  wallet, sessionD, allocations, bound, account, auto, asked, flow, running,
  challenges, clicks,
  \* Portfolios: the variables of WalletSession
  challengesP, signatures, sessions, verifying, jar, tab, profileP, issued, flows, loads,
  \* WalletReview
  server, page, storage, calls, submitted, late, counted, notified, attempts, reloads,
  \* DeploymentConsole
  lockC, disk, con, pageC, ledger, accountC, height, crashes, failuresC,
  \* LifecycleScript
  file, run, sentL, heightL, crashesL, errors,
  \* RetirementReview
  escrow, review, used, slot,
  \* PoolSetup
  price, heightY, env, intents, chain, call, signed, submitting, polling, missed

cacheVars == vars
createVars == <<form, session, profile, lookups, preparing, adopting, adding,
                prefill, draft, sent, launches, edits>>
feedVars == <<entries, pending, fetches, generation, key, view, hook, seeking,
              available, fetched, changes>>
dashboardVars == <<wallet, sessionD, allocations, bound, account, auto, asked,
                   flow, running, challenges, clicks>>
portfolioVars == <<challengesP, signatures, sessions, verifying, jar, tab,
                   profileP, issued, flows, loads>>
reviewVars == <<server, page, storage, calls, submitted, late, counted,
                notified, attempts, reloads>>
consoleVars == <<lockC, disk, con, pageC, ledger, accountC, height, crashes, failuresC>>
lifecycleVars == <<file, run, sentL, heightL, crashesL, errors>>
retirementVars == <<escrow, review, used, slot>>
setupVars == <<price, heightY, env, intents, chain, call, signed, submitting, polling, missed>>

(* Two wallets, two tickers and one fee recipient; five things a creator   *)
(* does.                                                                   *)
Create == INSTANCE CreateLaunch

(* Two filters, four requests, two confirmed trades.                       *)
Feed == INSTANCE MarketFeed

(* Two wallets with up to two allocations, one to a page.                  *)
Dashboard == INSTANCE FeeDashboard WITH session <- sessionD

(* What a creator does on a page is counted, there are tokens to share     *)
(* fees of, and no request of a list is None.                              *)
ASSUME PagesAssumption ==
  /\ MaxEdits \in Nat /\ Tokens # {} /\ PageSize \in Nat
  /\ None \notin [id : Nat, key : Keys, generation : Nat]

(* Two tabs of two wallets load portfolios while sessions change; what the *)
(* sessions themselves promise is checked in MCServices.                   *)
Portfolios ==
  INSTANCE WalletSession WITH challenges <- challengesP, profile <- profileP

(* A trade and another intent, lost replies and a reload of the page.      *)
Review == INSTANCE WalletReview

(* None is no intent, no status and no call.                               *)
ASSUME ReviewAssumption ==
  /\ Trades \subseteq Intents /\ Setups \subseteq Intents /\ None \notin Intents
  /\ None \notin Review!Terminal \cup {"none", "prepared", "submitted", "rejected"}
  /\ None \notin [intent : Intents,
                  answer : Review!Terminal \cup {"submitted", "rejected", None}]

(* Two chunks in one batch, a budget that a second attempt exhausts.       *)
Console ==
  INSTANCE DeploymentConsole WITH
    lock <- lockC, page <- pageC, account <- accountC, failures <- failuresC,
    Budget <- ApprovedBudget

(* A transaction is valid for so many blocks, prices and the approved      *)
(* total are amounts, an artifact has finitely many chunks, a process is   *)
(* never nobody, and no chunk is one of the other loader transactions.     *)
ASSUME ConsoleAssumption ==
  /\ Window \in Nat /\ MaxHeight \in Nat /\ None \notin Consoles
  /\ FeeCeiling \in Nat /\ BufferRent \in Nat /\ ProgramRent \in Nat
  /\ ApprovedBudget \in Nat
  /\ IsFiniteSet(Chunks)
  /\ Chunks \cap {"create-buffer", "deploy", "recover-buffer"} = {}

(* For TLC: a purchase and a fee claim.                                    *)
ScriptLabels == <<"buy", "claim">>

Lifecycle ==
  INSTANCE LifecycleScript WITH
    Window <- RunWindow, MaxHeight <- LastRunHeight, MaxCrashes <- RunCrashes,
    MaxErrors <- RunErrors,
    sent <- sentL, height <- heightL, crashes <- crashesL

(* The labels have an order, a transaction is valid for so many blocks,    *)
(* and a height is never None.                                             *)
ASSUME LifecycleAssumption ==
  /\ Labels \in Seq(Lifecycle!Names) /\ Claims \subseteq Lifecycle!Names
  /\ RunWindow \in Nat /\ LastRunHeight \in Nat /\ None \notin Nat

Retirement == INSTANCE RetirementReview

(* Three reviews of one pair at two prices.                                *)
Setup ==
  INSTANCE PoolSetup WITH
    Window <- ReviewWindow, MaxIntents <- MaxReviews, MaxHeight <- LastBlock,
    height <- heightY

(* A review is numbered and valid for so many blocks, and no review is     *)
(* None.                                                                   *)
ASSUME SetupAssumption ==
  /\ MaxReviews \in Nat /\ ReviewWindow \in Nat /\ LastBlock \in Nat
  /\ None \notin [status : {"prepared", "submitted", "confirmed", "expired"},
                  sent : BOOLEAN, through : Nat,
                  curve : {Setup!DefaultCurve(t) : t \in Prices \cup Deployed}]

Parts == {"cache", "create", "feed", "dashboard", "portfolios", "review", "console",
          "lifecycle", "retirement", "setup"}

MCClientsInit ==
  /\ part \in Parts
  /\ Init
  /\ IF part = "create" THEN Create!Init
     ELSE /\ form = None /\ session = None /\ profile = None /\ lookups = None
          /\ preparing = None /\ adopting = None /\ adding = None /\ prefill = None
          /\ draft = None /\ sent = None /\ launches = None /\ edits = None
  /\ IF part = "feed" THEN Feed!Init
     ELSE /\ entries = None /\ pending = None /\ fetches = None /\ generation = None
          /\ key = None /\ view = None /\ hook = None /\ seeking = None
          /\ available = None /\ fetched = None /\ changes = None
  /\ IF part = "dashboard" THEN Dashboard!Init
     ELSE /\ wallet = None /\ sessionD = None /\ allocations = None /\ bound = None
          /\ account = None /\ auto = None /\ asked = None /\ flow = None
          /\ running = None /\ challenges = None /\ clicks = None
  /\ IF part = "portfolios" THEN Portfolios!Init
     ELSE /\ challengesP = None /\ signatures = None /\ sessions = None
          /\ verifying = None /\ jar = None /\ tab = None /\ profileP = None
          /\ issued = None /\ flows = None /\ loads = None
  /\ IF part = "review" THEN Review!Init
     ELSE /\ server = None /\ page = None /\ storage = None /\ calls = None
          /\ submitted = None /\ late = None /\ counted = None /\ notified = None
          /\ attempts = None /\ reloads = None
  /\ IF part = "console" THEN Console!Init
     ELSE /\ lockC = None /\ disk = None /\ con = None /\ pageC = None /\ ledger = None
          /\ accountC = None /\ height = None /\ crashes = None /\ failuresC = None
  /\ IF part = "lifecycle" THEN Lifecycle!Init
     ELSE /\ file = None /\ run = None /\ sentL = None /\ heightL = None
          /\ crashesL = None /\ errors = None
  /\ IF part = "retirement" THEN Retirement!Init
     ELSE escrow = None /\ review = None /\ used = None /\ slot = None
  /\ IF part = "setup" THEN Setup!Init
     ELSE /\ price = None /\ heightY = None /\ env = None /\ intents = None
          /\ chain = None /\ call = None /\ signed = None /\ submitting = None
          /\ polling = None /\ missed = None

MCClientsNext ==
  /\ part' = part
  /\ IF part = "cache" THEN Next ELSE UNCHANGED cacheVars
  /\ IF part = "create" THEN Create!Next ELSE UNCHANGED createVars
  /\ IF part = "feed" THEN Feed!Next ELSE UNCHANGED feedVars
  /\ IF part = "dashboard" THEN Dashboard!Next ELSE UNCHANGED dashboardVars
  /\ IF part = "portfolios" THEN Portfolios!Next ELSE UNCHANGED portfolioVars
  /\ IF part = "review" THEN Review!Next ELSE UNCHANGED reviewVars
  /\ IF part = "console" THEN Console!Next ELSE UNCHANGED consoleVars
  /\ IF part = "lifecycle" THEN Lifecycle!Next ELSE UNCHANGED lifecycleVars
  /\ IF part = "retirement" THEN Retirement!Next ELSE UNCHANGED retirementVars
  /\ IF part = "setup" THEN Setup!Next ELSE UNCHANGED setupVars

clientVars ==
  <<part, cacheVars, createVars, feedVars, dashboardVars, portfolioVars, reviewVars,
    consoleVars, lifecycleVars, retirementVars, setupVars>>
MCClientsSpec == MCClientsInit /\ [][MCClientsNext]_clientVars

(* Replies are shown for what they answer, in whatever order they come:    *)
(* the ticker, image and connected account of the form, the rows of the    *)
(* market, the portfolio of the connected wallet; and on the fee dashboard *)
(* an account that the page loads by itself is the connected wallet's, its *)
(* rows come once, and a post shown as verified was. An account loaded by  *)
(* a button there may be another wallet's (create.tsx, market-results.ts,  *)
(* dashboard.tsx, portfolio-view.tsx).                                     *)
RepliesMatch ==
  /\ part = "create" =>
       /\ Create!TypeOK
       /\ Create!AnswerIsForTicker /\ Create!LastImageWins /\ Create!VerifiedIsAsShown
  /\ part = "feed" =>
       /\ Feed!TypeOK
       /\ Feed!RowsAnswerTheFilters /\ Feed!TradeIsVisible /\ Feed!CacheForgetsOldReads
  /\ part = "dashboard" =>
       /\ Dashboard!TypeOK
       /\ Dashboard!UnaskedAccountIsOwn /\ Dashboard!EveryRowOnce
       /\ Dashboard!VerifiedIsThisPost
  /\ part = "portfolios" => Portfolios!PortfolioIsOwn

(* What the page says of an intent that is over is what became of it, and  *)
(* a confirmation counts once, however polls, resumes, reloads and reviews *)
(* overlap (provider.tsx).                                                 *)
ReviewIsTrue ==
  part = "review" => Review!TypeOK /\ Review!ConfirmedOnce /\ Review!ShownIsTrue

(* An operator's tool that is killed and run again repeats no transaction  *)
(* that may still land and pays no more than was approved; the owner pays  *)
(* for one pool configuration, unless reconcile wrote a landed one off     *)
(* (deployment-console.ts, the lifecycle script, setup.ts).                *)
OperatorsSpendOnce ==
  /\ part = "console" =>
       /\ Console!TypeOK /\ Console!SentIsJournaled /\ Console!WithinBudget
       /\ Console!OneApprovalInFlight /\ Console!DeployedWhole
  /\ part = "lifecycle" =>
       Lifecycle!TypeOK /\ Lifecycle!LandsOnce /\ Lifecycle!PassMeansLanded
  /\ part = "setup" =>
       Setup!TypeOK /\ Setup!OneConfigPays /\ Setup!DeployedIsAccepted

(* A draft comes back to the wallet that wrote it, a deployment that was   *)
(* ever used is no candidate for retirement, and a pair keeps the curve it *)
(* was deployed with (launch-draft.ts, retirement.ts, setup.ts).           *)
StepsKeepPromises ==
  /\ [][part = "create" => Create!DraftIsItsOwners]_createVars
  /\ [][part = "retirement" => Retirement!CandidateIsUnused]_retirementVars
  /\ [][part = "setup" => Setup!CurveIsKept]_setupVars
=============================================================================
