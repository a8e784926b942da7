# Verification of One Only

One Only is a launchpad for Solana tokens: a web application that prepares transactions, lets a wallet sign
them, follows them on the chain and keeps a registry of unique tickers, and an on-chain program that holds
the creator fees of a token in escrow and splits them between X accounts. This directory holds TLA+ models of
the parts whose correctness depends on the order of things, the TLC runs that check them and the theorems
TLAPS proves about them.

## The system

| component | state it keeps | operations | what is hard |
|---|---|---|---|
| fee escrow program `packages/fee-escrow/program` | config, control (pause, verifier epoch), per pool an allocation, per mint a ledger and a vault, per X id the amount claimed and the bound wallet, a receipt per nonce | initialize_config, initialize_control, set_paused, rotate_verifier, initialize_allocation, collect_fees, claim | rounding of shares, overlapping and replayed authorizations, rotation, donations, graduation |
| transaction intents and ticker registry `lib/launchpad/transactions.ts` | launch_tokens, ticker_claims, transaction_intents | launch, prepareIntent, reviewChangedFee, submit, reconcile, continueLaunch | requests and cron job interleave at every await, unknown outcomes, expiry of blockhashes, crashes |
| signed messages `packages/protocol/src/wire.ts` | the stored message | prepareTransactionWire, validateWalletFeeChange, reviewChangedFee | a wallet edits what it signs, and appends instructions of its own |
| trades and conversions `protocol/src/index.ts`, `jupiter.ts`, `route-composition.ts`, `routed-trade.ts` | none (the chain's) | quote, build, compose with a conversion, count the events | the pool graduates and prices move between quote and execution |
| claim service `lib/creator-fees` | pools, allocations, bindings, challenges | recordFeeAllocation, bindFeeWallet, createFeeChallenge, verifyFeeChallenge, prepareCreatorFeeClaim, reconcileCreatorFeeClaim | retries with one nonce, rotation between signing and paying, pause, overlapping limits |
| history indexer and ticker release `lib/launchpad/*indexer.ts`, `packages/core/src/launchpad.ts` | trades, snapshots with cursor and coverage, leases | runIndexer, indexPool, scanHistory, indexGraduatedPool, refreshRecentTrades, releaseInactiveTickers | cursor without gaps, leases shorter than a run, stale release decisions, fair rotation |
| wallet and X sessions `auth.ts`, `x-*.ts`, `profile.ts` | challenges, sessions, cookies, profiles | challenge, verifyChallenge, session, logout, beginXLink, X callback, portfolio | one-use nonces, two tabs of one browser, binding a proof to a session |
| API routes and limits `app/api`, `public-policy.ts`, `redis.ts` | shared counters, denials per instance | rateLimit, publicPolicy, the two routes | instances share one count, Redis outages, public and private answers of one path |
| public cache `lib/cache/public-cache.ts` | per-instance entries, Redis entries and locks | publicCache | single load over instances, expired lock owners, stale entries |
| comments, purchase proofs, shared sales `comments.ts`, `sale-share.ts` | buyers, comments | verifyBuyer, postComment, removeComment, readComments, readSale | proofs from finalized transactions, pages of a list that changes, costs from a partial index |
| pool setup `setup.ts` | intents of kind config, the deployed addresses | preparePoolConfig, its submission and deployment | reviews that expire while they are signed, prices that move |
| pages `components/launchpad`, `components/creator-fees` | React state, sessionStorage | review, launch form, market lists, dashboard, polling panels | replies that are late, lost or for another selection; wallet switches; reloads |
| operator tools `packages/fee-escrow/scripts`, `retirement.ts` | lock file, journal, state file | deployment console, lifecycle script, retirement inspection | crashes between signing and sending, two consoles, a chain read in several calls |
| builders, validators, prices, read models, rendering | none of their own | parsers, queries, drawing | no concurrency of their own |

How they interact. The web handlers share PostgreSQL (conditional updates and unique keys are the only
synchronisation) and reach the chain through one RPC endpoint at commitment "confirmed". A wallet signs what
`prepareIntent` stored; `submit` records the signature and broadcasts; `reconcile` is called by the browser's
polling, by other handlers and by the cron job and moves an intent to a terminal status. Confirmed launches
call the allocation check of the claim service; confirmed fee claims call its receipt check. The claim service
signs authorizations that the escrow program verifies; the program reads the Meteora pool. The cron job
(`runIndexer`) reconciles pending intents, indexes pools and releases inactive tickers; charts without history
start the same indexing. Every request passes the routes' limits; public reads go through the cache; the pages
poll and hand every intent to one review.

What makes each part correct. Escrow: nobody is paid more than the share of what was collected, everybody can
always be paid, an X account has one wallet, revoked authorizations never pay, the creator rights stay with the
escrow. Registry: a ticker has one owner, a token with a pool keeps its ticker until it is retired, a
reservation is only given up when its transaction can no longer succeed, a status is what the chain says, only
the recorded wire runs, every intent is settled. Messages and trades: what runs is what was reviewed. Claim
service: a challenge pays once and is consumed when paid. Indexer: certified coverage has no gap, a ticker is
released only after covered quiet days, every pool is reached. Sessions: a challenge opens one session, the
latest link wins. Limits and cache: a limit holds over all instances, a late loader never overwrites a newer
value, whoever waits is answered. Pages: a reply is shown for what it answers. Tools: nothing is paid twice.

## Modules

| module | models | run |
|---|---|---|
| `FeeShares`, `FeeEscrow` | the program, one action per instruction, with its environment | escrow |
| `FeePayout` | what the escrow promises, without accounts, signatures or vaults (abstract) | escrow |
| `RetirementScan` | what the retirement inspection computes from the accounts, over every state of `FeeEscrow` | escrow |
| `FeeEscrowProofs` | theorems | |
| `TickerRegistry` | what the ticker registry promises (abstract) | server |
| `LaunchRegistry` | launch's reservation, intents, submit, reconcile, second review, release, and the chain | server, progress, three violations |
| `LaunchRegistryProofs`, `ServerProofs` | theorems, of one registry and of the server that runs it beside the claim service, trades and the review of messages | |
| `SharedLaunch`, `SharedLaunchProofs` | continueLaunch, the split of a launch, its verification and its record; theorems | progress |
| `FeeRequests` | what the claim service promises a recipient (abstract) | claims_pay |
| `FeeClaims`, `FeeClaimsProofs` | X links, bindings, challenges, claims and their receipts; theorems | claims_pay, server, progress |
| `WireReview` | the message a wallet edits and what the server makes of it | server |
| `TokenTrade` | a trade from quote to chain, direct or through a conversion | server |
| `HistoryIndexer` | indexing of one token on two venues and the release of its ticker | services, progress, three violations |
| `IndexerRotation` | the order in which runs, sweeps and charts reach the pools | services, progress |
| `WalletSession` | sign-in, X links and portfolios in the tabs of one browser | services, clients |
| `ApiGate` | stages of every route, rate limits, public policy | services |
| `TraderComments`, `SaleShare` | comments with their pages; the cost of a shared sale | services |
| `PublicCache` | one key on several instances | clients, progress |
| `WalletReview` | the review of intents on a page | clients, progress |
| `LivePanels` | every panel that follows a selection or polls | progress |
| `CreateLaunch`, `MarketFeed`, `FeeDashboard` | launch form, market lists and search, fee dashboard | clients |
| `DeploymentConsole`, `LifecycleScript`, `RetirementReview`, `PoolSetup` | the operators' tools | clients |
| `MCFeeEscrow`, `MCFeeClaims`, `MCLaunchRegistry`, `MCHistoryIndexer` | constants and bounds for TLC | |
| `MCServer`, `MCServices`, `MCClients`, `MCProgress` | several instances in one run | |
| `ServiceProofs` | theorems about the sessions, limits, catch-ups, comments and sales of `MCServices` and the history and releases of `HistoryIndexer` | |
| `ClientProofs` | theorems about the cache, the review, the pages and the tools of `MCClients` | |
| `FiniteSums` | lemmas about sums over finite sets of any size | |

Parts that share no variable are checked in one run: a variable `part` names the instance that moves in a
behaviour, the others stay at `None` or as they began, and a property is the conjunction of what each part
promises of the same kind. This adds no behaviour to any part and removes none.

### FeeEscrow

An instruction is atomic on the chain, so each is one action whose guard is the conjunction of the program's
checks (account constraints included) and whose effect is its account writes. Accounts are functions: `shares`,
`received` and `vault` by pool and side, `claimed` by pool, side and X id, `bound` by X id (the Beneficiary
account is one per X id, over all pools), `receipts` by nonce. A signature is membership in `signed`, the set of
messages that anybody has signed; `Sign` adds a message for any pool, side, X id, wallet, limit and nonce, dated at any
time of the model, for any epoch, the ones to come included, and under any key, so nothing the program promises rests
on the service or on one key being kept. Collected amounts are chosen from
`Amounts`: the fees Meteora pays out are external. `Donate` puts tokens in a vault past the ledger.
`FeePayout` knows only agreed shares, amounts received and paid, and wallets; `ImplementsPayout` says every
instruction is one of its actions or a stutter. `RetirementScan` adds no state: its operators are what
`inspectRetirementAccounts` computes.

### LaunchRegistry and SharedLaunch

A worker is a request (or the cron job) inside `submit` or `reconcile`; `worker[w]` holds the step it is about to
take and what it has read: the intent, the stored signature (or the wire it is submitting) and whether it may
rebroadcast. Every read or write of the database or the chain is a step of its own, so that any two requests
interleave at every await; a database transaction is one step. The launch call is the pair `Reserve` and
`PrepareIntent`/`UndoReservation`, with `launching` in between. `releasing` holds decisions of
`releaseInactiveTickers` that were taken and not yet written. A request that throws or times out is `Die`: all
error exits of the handlers leave the rows as they are and end the request.

The chain: `sent` is what the network has been given, `landed` what blocks include. A block is first processed
and then confirmed, when `height` reaches it; with `Forks` a processed block may be dropped. Signature statuses
report processed blocks, as `getSignatureStatuses` does; pool accounts and the height are read at "confirmed".
With `HistoryLags` a status lookup may miss what landed. A wire is one of two: as reviewed, or with another
priority fee. Intents that are not launches are `Trades` (kinds trade and claim, whose fee the wallet may
change) or `Conversions` (the other kinds). The thirty quiet days of a release are `ThirtyDays`: they outlast every
request (Vercel ends one after 60 seconds, route.ts:103). `ImplementsRegistry` says that every handler step is a
claim, an abandonment of a launch that is not live, a retirement, or a stutter of `TickerRegistry`.

`SharedLaunch` follows one conversion that pays for a launch with shared fees: the calls that continue it, the
reservation each makes, the allocation on the chain, the three writes of the activation (`ActiveIsRecorded`),
between which a request may die, and the release of an active launch's ticker after quiet days (`ReleaseInactive`).
Submission and expiry of the launch are one step each here. What stops a second launch of the conversion is the stored
continuation or the ticker (`SpentOnce`): a call that dies before it stores the one leaves only the other.

A changed fee is reviewed again for `Conversions` only. The code lets launches and pool setups ask for it too
(transactions.ts:781), but the second review drops the signature of a key the server no longer has (transactions.ts:234,
setup.ts:104), so nothing that carries the new message verifies: it is an intent that nobody submits, which the model has.

### FeeClaims

`profile`, `binding`, `challenge` and `intent` are the rows of wallet_profiles, creator_fee_bindings,
creator_fee_challenges and of the transaction_intents of kind creator-fee-claim, the latter numbered in the order of
their creation, because `prepareCreatorFeeClaim` looks at the latest. A worker is a request inside one of the
handlers and holds what it has read. Reads whose answer cannot change any more (a binding, the fixed columns of a
challenge) are merged with the step that uses them. `Leave` ends a request at any await, by an answer, an exception
or a timeout. A challenge's nonce is the challenge: its receipt account is `receipt[c]`. The escrow is reduced to one
token and one asset: `entitled` is an account's floor share of what was collected, and `Pay` has the checks of the
claim instruction whose outcome can differ; `FeeEscrow` has all of them. Submit is one action here and blocks are
final: the steps inside it, lost broadcasts and forks are in `LaunchRegistry`. `ImplementsRequests` says that every
step is one of `FeeRequests` or a stutter, so no interleaving pays an unproven request or one request twice.

### HistoryIndexer and IndexerRotation

A venue's history is a sequence of transactions, newest last; `index[v]` is the row with its cursor, the head,
position and start of a scan under way and the certificate (`through`). A worker goes through `indexPool`: lease,
snapshot, cursor, page, batches with a checkpoint each, and the write that certifies. The receipts of a batch are
read concurrently: any subset may be visited and any subset of those may succeed, and `Passed` is what the cursor may
pass. With `Overrun` a lease expires under a running worker. `releaseInactiveTickers` reads the trades, then the two
certificates, then writes; with `ChartRuns` chart requests index beside it. Time is divided into days of
`DayLength`; a volume without a price is unknown and blocks a release.

`IndexerRotation` forgets what is read of a pool and keeps who is tried when: batch, budget, lease order, broken pools,
the pending intents that end a run by throwing, and the catch-up of an empty chart.

### Server services

`WalletSession` has the rows of challenges, sessions and profiles, one cookie jar and several tabs; a challenge may be
answered twice, wallets switched, and the Strict cookie may be missing after the redirect from X. `ApiGate` translates the
stages each handler goes through before its work as data (`ReadStages`, `WriteStages`), with the shared count in Redis, the map of denials per
instance and `publicPolicy`. `PublicCache` has the memory, lock, poll, fallback and circuit breaker of one key; a
Redis command may fail with or without having taken effect. `TraderComments` and `SaleShare` model `verifyBuyer`
and its receipts, the pages of a list that grows and shrinks, and the replay of a wallet's trades in the order of the index.

### Transactions as the user sees them

`WireReview`: a message is a sequence of instructions, its accounts and its blockhash; a wallet may set the compute
budget, insert, append, widen an account or change an instruction. `validateWalletFeeChange` is translated condition by
condition, and so is the second review. `TokenTrade`: the pool and the conversion market move between quote, build and
execution; a transaction is the sequence of its operations and runs atomically against balances, WSOL included.
`WalletReview`: `page` is the state of the provider; a call and its answer are two steps, answers come in any order, and
a reload keeps only sessionStorage. The page resumes the intent it remembers after a reload and whenever its address
changes (`Connect`); the setup under review is asked for again before the wallet opens, and may be another (`Rebuild`); a
confirmed conversion stays on screen until its launch replaces it (`Continues`).

### Pages and tools

In `CreateLaunch`, `MarketFeed`, `FeeDashboard` and `LivePanels` a request is a record of what its closure captured; it is
answered, fails or is aborted as the code's controllers and guards say. `DeploymentConsole` and `LifecycleScript` have the
file on disk, the process and the chain apart, and a crash loses the process. `RetirementReview` reads the chain in the
order of `inspectUnusedDeployment`: its last scan wants the escrow empty and paused, the token accounts are read after it
(`TokenScans`), and what may happen meanwhile is that the escrow resumes (`resumed`), which is when `CandidateIsUnused`
promises nothing; `PoolSetup` has the intent rows, the environment that names the deployed
configuration, the height that ends a review, and `reconcile` in two steps (`Look`, `Conclude`), called by a preparation
(`SettlePrevious`) and by polls and the job meanwhile (`Poll`). The race of finding 1 is in it: a review that lands
between the two is marked expired (`missed`), and the next call builds and pays for another configuration. `OneConfigPays`
is what holds beside that: of all other reviews one lands.

## Runs

| run | parts | shows | states |
|---|---|---|---|
| `escrow` | one pool, two recipients (3333/6667), two wallets, two nonces, two signed messages, ledgers up to 4; or three epochs of two keys | books, solvency, authorization limits, receipts, what an inspection reports, one wallet per X id, revocation, refinement of `FeePayout` | 591 thousand |
| `claims_pay` | two challenges of one account, or one and a rotation; two requests, two posts, pauses, collections | a challenge pays once and within its amount, its status agrees with its claim, refinement of `FeeRequests` | 2.2 million |
| `server` | two launches of one ticker with lagging history and a crash; a trade, or a conversion, that two tabs submit while blocks are dropped; two accounts and wallets that bind; a trade while pool and market move; a wallet that edits what it signs | who may hold a ticker, final statuses, the recorded wire, one wallet per account in database and escrow, what runs was reviewed, refinement of `TickerRegistry` | 2.0 million |
| `services` | eight: coverage, graduation, inactivity, links, gate, catch-ups, comments, sales | what certified coverage may miss and what not, releases after quiet days, sessions and links, limits over instances and outages, comments of buyers, costs of sales | 3.4 million |
| `clients` | ten: cache, create, feed, dashboard, portfolios, review, console, lifecycle, retirement, setup | cached answers are as current as their policy says and a late load never overwrites a newer one, replies match what they are shown for (on the dashboard those the page asked for by itself), the review tells the truth, tools pay once and keep what they promised | 5.7 million |
| `progress` | eight: registry, history, shared, rotation, claims, cache, review, panels, with fairness | intents and claims settle, histories are certified, every pool is reached, a shared launch becomes active as reviewed, whoever waits is answered | 182 thousand |
| `registry_landed` (violation) | one trade, two requests | finding 1 | |
| `registry_fork` (violation) | one launch, forks | finding 2 | |
| `registry_abandoned` (violation) | one launch, one crash, with fairness | finding 3 | |
| `history_resume` (violation) | a first scan of three transactions, one crash, with fairness | finding 4 | |
| `release_race` (violation) | a quiet token on two venues and chart requests | finding 5 | |
| `history_gap` (violation) | a graduated pool whose history outgrows a page | finding 6 | |

Why the bounds are enough. Escrow: amounts up to 4 with shares 3333/6667 round in every way two recipients can
(a floor lost on one side, on both, on neither); the invalid share lists include a wrong sum, a zero share, a
repeated recipient and the zero hash. Three epochs are needed to come back to the first key; orders of payments and
of rotations are explored apart, because an authorization is judged by its own epoch. The messages of the payments are of the
first key, epoch and second; those of the rotations are of any, two at a time. Registry: two launches
are enough for one to take the ticker another gave up or was released from; two workers are enough for every
read-then-write race in the handlers, since no step depends on more than one other request; a blockhash that lives
one block and a height of 4 allow a first launch to expire or be released and a second one to land. Trades: amounts of
2 and 4 fill a curve of 4 in part or to the end, at rates of 1 and 2 a quote is kept or broken by one move, with tolerances
of nothing and of half, and three moves reach every stage. Messages: units of 1 and 3 and prices of 1 and 5 lie on both
sides of the limits, two edits put an instruction in and change the fee, and six transfers hardly fit a packet. Claims: two
challenges make two overlapping caps, two posts and two intents let each be proven, prepared and paid in either order or
one of them be prepared twice; a rotation concerns one challenge at a time. Indexer: three
transactions with pages and batches of two give a boundary inside a page, a batch that fails in the middle and a
scan over two runs; two workers overlap. Sessions and cache: two tabs, two instances, two flows or loads are the
smallest numbers that race; the cache's loader outlives its lock (LockLife 1, MaxTime 3) and the breaker covers the rest.
Comments: one purchase of each wallet, pages of one and three comments are enough for a page to begin at a comment that is gone. Sales: four trades
in two seconds with amounts of 1, 2 and 5 are the least for which two orders of one second give two costs; a pool that graduates has
amounts of 1 and 5, enough for a purchase and a sale that cancel out to be missed. `SalesBound` leaves out only steps that commute
with others or after which nothing is shown.
Pages: two keys, wallets, tickers or selections tell a late reply from a current one; four or five user actions
reach every pair of them. Tools: one crash at every step, and for the script a second one while it recovers.
The review in `clients` has a trade and two setups, two approvals, two calls under way, lost replies and one reload or change of the
address; in `progress`, where it must come to an end, a trade and a conversion, one approval, no lost replies and one reload or change.
`DeploymentConsole`'s budget allows one more attempt and not two. Every bound is a CONSTANT of its module (`Max...`)
and appears in a guard.

CHECK_DEADLOCK is FALSE in every cfg: a bounded model stops when its bounds are used up, a tool ends,
a form is left.

Fairness. `LaunchRegistry`: a handler takes its next step unless its request dies, and requests die at most
`MaxCrashes` times; blocks keep coming; a launch call that reserved goes on unless it dies. That `reconcile` is called for an intent again and again is no fairness of
the specification but the condition of each promise (`ComesBackTo(i)`, strong fairness of `Reconcile` for that intent alone, because a worker is not always
idle): the code does not grant it. `deployment/app.vercel.json` schedules the job every minute (docs/launchpad.md:37 says five), but `runIndexer`
(indexer.ts:436-449) takes thirty pending rows in no stated order, stops twenty seconds before its deadline, and ends at the first `reconcile`
that throws. While an escrow stays paused, a landed launch with shared fees throws in every run, and the rows behind it, claims among
them, wait for their own page to ask. `IntentsSettle` and `ClaimsSettle` say of an intent that is come back to that it settles, whatever
becomes of the others.
`FeeClaims` assumes in addition that every request ends, and that requests do not die for ever at the same step of `reconcile`
(`DeathsEnd`, once the model's clock has stopped); it assumes nothing of the operator, who may leave the escrow paused.
`LandedBecomesActive` of `SharedLaunch` has two conditions for each launch: that a pause ends, because with a paused escrow the
activation is refused by design, and that `reconcile` is called for it.
`HistoryIndexer` assumes that leases expire, that runs come back, and that receipts can be read again and again
(strong fairness of a batch that is visited whole); crashes are bounded. `IndexerRotation`: runs start, work and end.
`PublicCache`: a load under way takes its next step, because every command and poll has a timeout. `WalletReview`: the page polls
while it shows a submitted intent, calls are answered, a submitted intent is settled (which `progress` checks of
`LaunchRegistry`, for one that is come back to); `LivePanels`: timers fire, loads start and end. In `MCProgress` the k-th fairness condition is a
disjunction of the k-th conditions of the modules: `part` never changes, so it is exactly the condition of the one that moves.

## Findings

1. `LandedNeverExpired` (transactions.ts:589). `reconcile` reads the signature status, then the block height, and marks
   the intent expired if the blockhash is over. A trade that lands between the two reads is expired for good: terminal
   statuses are never revisited. A reconcile that read the row before it was submitted does the same over a longer window,
   and even overwrites "confirmed". docs/launchpad.md:11 says that an unknown outcome is polled rather than treated as a
   failed purchase. A fee claim settled this way leaves its challenge "issued" although its receipt exists
   (docs/x-fee-escrow.md:22 says that a confirmed receipt marks the claim paid). Launches are safe, because the pool is
   looked for after the height (`LaunchesSettleAsOnChain`, `LaunchIsFinal`).
2. `PoolHoldsTicker` under `Forks` (transactions.ts:503). `status.err` is honoured in a block that is only processed. When
   the chain drops that block, the launch has already lost its ticker and can still succeed. docs/launchpad.md:35 speaks of a
   verified failed transaction. Without forks the property holds (`server`).
3. `AbandonedReservationReleased` (transactions.ts:284). A launch call that dies after its reservation committed and before its
   intent is stored leaves a draft and a claim that no handler looks at again.
4. `CurveCompletes` (indexer.ts:306). A first scan stores its position at every batch, the last one included, and certifies the history
   after it. A run that ends in between resumes before the launch transaction, finds nothing, and is never complete: the
   token's history is never covered and its ticker never released. docs/launchpad.md:37 says that
   large backfills continue across invocations. The scan of a graduated pool keeps what it saw of its start,
   and once begun it is certified (`GraduatedCompletes`, a leads-to that `HistoryReachesAll` contains).
5. `ReleasedAfterQuietDays` with chart requests (indexer.ts:361). The release job reads the trades before the coverage of the
   graduated pool; a chart's catch-up that stores and certifies trades in between makes a token that traded look quiet
   and covered. docs/launchpad.md:35 promises the opposite. Without chart requests the property holds (`services`,
   and `QuietReleases` for all constants).
6. `CoverageHasNoGap` (graduated-indexer.ts:171). A first scan of a graduated pool ends when it has seen the pool's initialization,
   and remembers that it has. A batch is read concurrently: when the visit of the initialization works and that of a newer
   transaction of the same batch fails before anything was passed, the run stores the former and no position. If the history has
   outgrown a page before the next run, that run reads the newest page, ends at once because the initialization is known,
   and certifies the history up to the head of the
   first run: the failed transaction is not newer than that head and is never read. scan-history.ts:57 says "Never certify
   coverage over a gap". What does hold is `GapOnlyInFirstBatch`: nothing else is ever missed.

More statements of comments or docs are refuted by TLC, but are no runs:

- The comment at lib.rs:473 ("An epoch revokes every old authorization, even when a prior key is reused or a compromised verifier signed a
  future-dated message before rotation") is wider than the check in `require_claim_control`, which compares the message's own epoch
  field. A message that a compromised key signed for epoch 2 during epoch 1 pays after the rotation to epoch 2 if that key is
  then the verifier's; with `revoked' = signed` in `RotateVerifier`, `RevokedNeverPays` is violated. What docs/x-fee-escrow.md:30 says, "rotation
  invalidates every previous epoch, even if an old key is selected again", holds, and is `RevokedNeverPays`.
- One launch per conversion, for ever (`SharedLaunch`; continueLaunch returns the stored continuation, transactions.ts:333): a call that dies after its
  launch is prepared and before line 348 stores no continuation; when the launch lands, becomes active and is released after thirty quiet days
  (indexer.ts:403), a later call reserves the ticker again and the conversion pays for a second launch. `SpentOnce` says that this needs both.
- A submitted intent stays on screen until it is settled (`SettlesOnScreen` without `Resuming`; provider.tsx:251-260): the answer of a resume that was asked
  for before the intent was submitted sets it back to "prepared", or puts the one remembered then in its place, and the page stops polling for it.
- `SweepReachesAll` (`IndexerRotation`; recent-indexer.ts:32 speaks of a "stable fair rotation"): graduated pools come first in
  every batch, so curve pools starve when the budget ends before the batch. It needs measured times to know whether it does.
- `BalancesAreOwn` (`FeeDashboard`; dashboard.tsx:58): an account loaded by the button is set whoever is connected when it arrives.
  `RepliesMatch` therefore speaks of the accounts the page loads by itself, of rows shown once and of the post that is verified.
- `FailedApprovalWasNotSent` (`WalletReview`; the comment in `sign`): after an ambiguous submit, a second approval that is declined drops the
  recovery of the first.
- `EndHasEverything` (`TraderComments`; docs/mainnet.md:149 calls the cursor stable): removing the comment that is the cursor ends the list early.
- `ShownCostIsTrue` (`SaleShare`) without its condition `CurveCovered`. Of a graduated pool sale-share.ts:157 asks that the curve has some coverage
  and that the DAMM index covers the sale, not that the curve's history reaches the graduation; docs/claim-and-sale-results-2026-09-19.md:9 says
  "Missing history, transferred balances or ambiguous order produce unavailable P&L". A buy and a sale of the same amount on the curve after its last scan
  leave the replayed position as it was, and a cost is shown without them. The run and the theorem let the pool graduate and ask, of a
  graduated pool alone, that the curve's index covered its trades when the result came.

## Proofs

TLAPS checks the theorems for every value of the constants: any number of pools, recipients, requests, intents and
blocks, not only the instances of the runs.

A component's theorems are in a proof module of its own, or, for a component that one of the composed runs checks, in a
proof module of that composition: then its constants are constants of the composition, and what is proved of them holds
of the run's specification (`MCClientsSpec => []ReviewIsTrue`), whatever instances stand beside it.

`FeeEscrowProofs` begins with what the program's arithmetic rests on: the floors of shares that add up to 10000 never add
up to more than the whole (`FloorsFitWhole`), an entitlement never shrinks (`EntitlementMonotone`), and changing one slot
changes a sum by exactly that much (`SlotSumUpdate`).
Those sums range over the eight slots the program has room for. Sums over receipts, pools or journal entries range over
sets of any size; `FiniteSums` has the facts about them (`SumUnion`, `SumAtMost`, `SumSame`, ...), each shown for a smallest
counterexample, because a set of subsets of a finite set that is not empty has a smallest member. From
`EscrowAssumption` alone follow:

- `TypeCorrect`: in particular ledgers and vaults stay within u64.
- `BooksBalance` (`Conservation`) and `NobodyOverpaid` (`NoOverpayment`) are parts of the inductive invariant `Books`, on
  top of `TypeInv`, which keeps every stored share list valid. `Books` adds `Untouched` (nothing is recorded for a pool
  without an allocation), because the other two are not inductive without it: they say what a new allocation starts from.
- `Solvency` (`EveryoneCanBePaid`) follows from `Books` and the lemma on floors.
- `AuthorizedPayments` (`WithinAuthorized`), `Binding` (`OneWalletPerXId`) and `Custody` (`CreatorLocked`) are inductive
  with the type invariant; `Custody` needs that a pool graduates to its creator.
- `Revocation` (`RevokedNeverPays`) rests on `EpochsCorrect`: what a rotation revokes, the messages for the epoch it ends and
  for those before, stays behind the epoch of the control account, so the epoch check refuses it whichever key verifies
  and however the message is dated. Messages for later epochs may have been signed by then; they are not revoked.
- `AccountsAreKnown`: whoever is bound or was paid is a recipient of an allocation, so an inspection finds no orphan.
- `ReceiptsAddUp` (`ReceiptsAccountForPayments`): a payment adds one receipt of its amount to one sum and to no other.
- `RetirementReports` (`RetirementIsBacked`): what an inspection adds up over the identities of an allocation is what `Books`
  adds up over its slots; the vault holds it, and what it does not report is less than one unit for each recipient.
- `Refinement`: the program implements `FeePayout`.

`LaunchRegistryProofs`. `TypeCorrect` holds with or without forks. The other theorems assume `~Forks`: finding 2 shows
that they are false when a processed block may be dropped. The inductive invariant `IInv` says, for every launch,

- `Rows`: which statuses of token, call and intent occur together;
- `Fresh`, `OneWire`, `InTime`: an intent has no trace before it is stored, a launch has one wire and lands at most once,
  and only within the life of its blockhash;
- `Holding`: the claims table and the tokens table agree;
- `Ended`, `Settled`: a failed or expired launch is `Spent` (its transaction did not succeed and no longer can), an
  active or confirmed one has its pool, a released one is `Quiet` (nobody is about to write its rows);

and for every request that what it knows when it is about to write still holds: `Justified` (a request about to give
up, fail or expire a launch knows that it is spent, one about to activate or confirm it that its pool exists, one about to
look for the pool that the blockhash is over), `Decided` (a release was decided for the one active token that held the
ticker, and that token is quiet). None of this follows from the statuses alone: rows are written by id, long after the
reads, and what saves the registry is that everything the requests act on stays true once it is read: a pool stays, a
spent launch stays spent, and no step takes a token or an intent back to a state from which it could be signed again
(`NoWayBack`). From `IInv` follow `PoolsHoldTickers`, `LaunchesSettle`, `ClaimsOutliveTokens`, `LaunchesAreFinal` and
`Refinement` (`ImplementsRegistry`: the owner of a ticker is its claim, a launch is live from the block that executes it
to its release). The assumption on the constants is `RegistryAssumption`.
TLC checked `IInv` on the registry's instance in `server` before it was proved. `OnlyRecordedWires` needs none of it and
holds with forks too: `WireInv` says that an intent's message is stored before it can be signed, and that what is being
submitted, was sent or has landed is on record as it is. `ServerProofs` takes these modules as instances, with the
constants of `MCServer`, and concludes `RecordedWires` and `OneWallet` of the whole server.

`ServerProofs` on what is reviewed, from `TradeAssumption` and `WireAssumption`: `ReviewedRuns` (`RunAsReviewed`, types included).
A message is described, and a transaction is run, by a fold over a sequence. `FoldsExist` (in `FiniteSums`) shows that
the function behind a fold exists and has a value after each prefix; what holds of the result is then shown from one
element to the next, with the least counterexample in place of induction.

- What is signed. An instruction that `describe` sets aside is no effect, so messages of which the rest agrees have the
  same effects in the same order, with no assertion ahead of one (`AsReviewed`). The invariant `WireInv` says that what
  is stored is as reviewed, of a trade or a claim the prepared message itself (of a claim perhaps with an assertion behind
  it), and that what was accepted passed `submit`. A wallet that
  only bounds the fee and appends assertions leaves the prepared message with the fee instructions changed in place and
  assertions behind it (`PoliteInv`), and every condition of `validateWalletFeeChange` holds of such a message.
- What is traded. `BuildSwap` and `Compose` give transactions of a few shapes; for each of them, what it leaves of the
  balances, and when it does not fail, follows from one operation to the next, for any amounts, rates and tolerances.
  `TradeInv` says that the transaction of a flow was built from its request, its quote and its route, and that
  while nothing moved since the request, the pool and the market answer as they did then.

`WireAssumption` is about the messages of the application, which the server builds: compute units and a price
are named at most once and within the limits, it puts in no assertion of its own, and what it prepares of a trade or a claim is
within the fee limit. `TradeAssumption`: amounts, rates and the curve's threshold are positive whole numbers, a
tolerance is at most the whole. `QuietTradeRuns` asks for a wallet that still has the input, and for an honest answer of the
conversion provider: the checks of the code do not give it more.

`FeeClaimsProofs`, from `ClaimsAssumption`. A handler acts on what it read awaits ago, so the argument rests on what no
other request can take back (`Grows`): bindings, the fixed fields of a challenge, its proof, its consumption, receipts and
what the escrow has paid. `JobInv` is what each request in progress knows, and `BindingInv`, `ChallengeInv`, `IntentInv`
and `ReceiptInv` what the rows say; all of them are stable under `Grows`, so every action only has to establish what it
writes. The part that makes a challenge pay once is in `ChallengeInv`: its cap is at most what was claimed when it was
issued plus its amount, so once that much more is claimed the escrow refuses the next claim. From this follow
`PaymentsMatch`, `BindingsAgree`, `ConfirmedAreConsumed`, `ChallengesAdvance` and `RequestsImplemented`
(`ImplementsRequests`, the refinement of `FeeRequests`).

`ServiceProofs` on the indexer, from `HistoryAssumption`. A run keeps a copy of the cursor row and may write from it long after
others wrote that row. `RowInv` says what a row promises of `token_trades`, of the row and of every copy; since
history is only appended and trades only added, a promise stays true, so a late write is safe whatever it overwrites.
`SaveInv` and `ScanInv` are what a scan has found out since it read its row. `RowsKeepTheirPromise` is this invariant,
`CertifiedIsStored` follows (`GapOnlyInFirstBatch`), and `NoGapInOnePage` is the stronger `CoverageHasNoGap` while a
graduated pool's history fits a page (`OnePage`), which finding 6 shows to be needed. `QuietReleases`
(`ReleasedAfterQuietDays`) assumes `OnePage` for the same reason and `~ChartRuns` because of finding 5, as the run does;
`ReleaseInv` keeps what the release job has seen of the trades, of each venue and of the last swap it knows of.

`SharedLaunchProofs`, from `LaunchAssumption`: a launch that may land, or has landed and was not released, holds the ticker (`LaunchInv`), so
nobody reserves again while it does, and every call hands on the split that is stored with the conversion (`CallInv`). The holder of the ticker
is the last launch (`Numbered`); once one was released, a call that began without a continuation can reserve again, and what it
stores is a later launch (`ReleasedInv`). `LaunchesAreAsReviewed` follows.

`ServiceProofs` on the sessions, from `SessionAssumption`: a request that answers a challenge deletes its row before it opens a session,
so a challenge is in one place (`ChallengeInv`); the cookies belong to the link flow that was begun last (`JarInv`); a
profile and the proof of X ownership are written together (`ProfileInv`). `OwnSessions` (`SessionsAreOwn`) and
`LatestLink` (`LatestLinkWins`) follow.

`ServiceProofs` on requests, from `GateAssumption` and `RotationAssumption`: `LimitsAreKept` (`LimitsHold`). A grant is counted in the
window of its key that is open, and a new window begins only when the last one is over, so any stretch of a window's length
touches at most two (`WindowInv`); that count survives because Redis loses an answer and never a count. A denial is remembered with the
end of the shared window (`DenialsInv`), what is counted by wallet is counted after the session was asked for (`SessionFirst`), and a
public answer is about nobody (`AnswersInv`). A pool that was caught up with rests until a minute has passed.

`ServiceProofs` on records, from `RecordsAssumption` and `SessionAssumption`: `RecordsAreKept` (`RecordsAreTrue`). A comment's proof is a receipt of a finalized
purchase (`CommentsInv`). For the cost of a sale, a scan covers every trade up to the second it ended in, because none lands
in that second later (`SaleState`); so once the history covers the sale, and of a graduated pool
the curve's own, the rows are all the trades (`CoveredIsWhole`). The index orders the trades
of one second by signature and not as they landed. A second with a buy and a sale has no cost (`Ordered`); of several sales, some may
come behind the shared one in the index, and then the replay, which ends with the sum of what was bought and not sold (`ReplayPosition`, by
induction over a set of lengths), ends with more than the wallet held (`EveryTradeCounts`). What is shown is therefore the cost over all the trades
before the sale, of a graduated pool under the condition that the curve was covered, which the code does not ask. Of unequal sales of one second the order may still differ from the chain's, and with it the rounding of each: `ShownCostIsTrue`
asks for an order that keeps the seconds, and TLC refutes the one with the chain's own order (buy 5 for 2; sell 1, 2 and 1 in one second).

`ClientProofs` has one invariant for each of its parts:

- the cache (`CacheAssumption`): while a loader owns the lock nobody else writes the shared entry, so what it read
  of the origin is at least as new (`OwnerInv`), and only a load and the pause between polls take time, so a value is as
  young when it is answered as it was when it was loaded (`WorkInv`). `AnswersStayCurrent` and `SharedEntryOnlyAdvances`.
- the review (`ReviewAssumption`): whatever the page, a call or an answer under way says of an intent was true when it
  was said, and final if the intent is over (`Told`). `TrueReviews`. A row that is over stays as it is here; finding 1 shows the one
  way in which "expired" is wrong, and then the page repeats what the server says.
- the deployment console (`ConsoleAssumption`): the lock lets one console run, whose journal is the one on disk
  (`RunningInv`); an entry that is settled is so on the chain (`ChainInv`); a new approval is prepared only when every
  entry is settled (`PlanInv`); nothing changes the buffer between its inspection and its deployment (`DeployInv`).
  `EverySentIsJournaled`, `OneApprovalAtATime` and `DeploysTheArtifact` follow. The budget is a sum over the journal:
  a plan is approved only if its reservations fit beside those of the journal, an entry never costs more than it
  reserved, and settling one returns money only when it failed or expired (`BudgetInv`), so `WithinBudget` holds.
- pool setup (`SetupAssumption`): reviews are numbered, all but the last are over, and one that is over was not executed
  and cannot be, or was marked expired after it had landed (`SetupInv`, `Over`); what a reconcile has read stays true
  until it writes (`LookOk`); a replacement is built with the curve of what it replaces.
- the lifecycle script (`LifecycleAssumption`): a label's transaction is in the file before it is
  sent and stays there until it has landed or failed, or until its blockhash is over and a second read does not find it;
  so what the file no longer names cannot land (`ScriptInv`).
- the launch form and the retirement review need little: `Create!Saved` is stored with its owner; an allocation cannot
  be undone before the program is replaced, nor made while the escrow is paused (`UnusedInv`).

- the replies of the pages (`PagesAssumption`): the lists drop what was read or asked for before a confirmed trade (`FeedInv`), a live
  request of the claim panel is about the challenge that is shown (`PanelInv`), the merged pages of an account show
  no token twice (`DashboardInv`), a lookup that is not aborted is about the ticker in the field (`AwaitedInv`), a launch was sent for the ticker
  that was looked up (`LaunchesInv`), and a tab shows its own wallet's portfolio (`PortfolioInv`). `RepliesAreTheirs` (`RepliesMatch`) follows; of the dashboard it
  says nothing of an account that a button loaded.

`OperatorsAreSafe` (`OperatorsSpendOnce`) collects the console, the script and setup, and `PromisesAreKept`
(`StepsKeepPromises`) the steps of the form, of retirement and of setup, for the specification of the run.

Only model-checked:

- liveness (`ClaimsSettle`, `RequestsEnd`, `IntentsSettle`, `HistoryReachesAll`), which is out of the prover's reach;
- `NoGapInOnePage` and `QuietReleases` need `OnePage`, and the registry's theorems `~Forks`: findings 6 and 2 are why.

## Not modelled

Formatting, wording, prices, charts and rendering; the bytes of Solana instructions (`WireReview` and `TokenTrade` have
what they do); parsing of request bodies; the X provider (any post may prove any challenge once it is fetched); image
processing; the validation of single form fields; the verification of the artifact's bytes and the offline commands of the
deployment console; `planDfsRetirement`; rehearsal, build and smoke scripts; rankings, leaderboards, discovery and
chart queries, which are reads over the indexed rows. The RPC endpoint is consistent with itself at "confirmed": a
lagging replica that misses an existing pool account is not modelled. `isReservedLaunchTicker` exempts some tickers from
release; the model lets every ticker be released. `ApiGate` counts in Redis: the table in PostgreSQL that takes over where Redis is not
configured, and the limits of single actions inside the handlers, are not modelled. A partial fill in `TokenTrade` asks the wallet for the whole
amount. In `WalletReview` what a row said when it was over stays what it says, and a poll's terminal answer removes what sessionStorage remembers,
whatever id that is, as the code does. Amounts in `TokenTrade` are whole units: the 64-bit limits of
`jupiter.ts` are guards on one call. `PoolSetup` has one call at a time: two that both prepare a review are both signed by
hand. The builders of launches and fee transactions in `protocol/src/index.ts` assemble accounts and have no order to check.

## Plan

1. `FeeShares`, `FeePayout`, `FeeEscrow` and their proofs (done).
2. `TickerRegistry`, `LaunchRegistry` and their proofs, `SharedLaunch` and its proof (done).
3. `FeeRequests`, `FeeClaims` and their proofs, with the refinement (done).
4. `HistoryIndexer`, `IndexerRotation`; proofs: coverage without gaps and releases after quiet days (done).
5. Sessions, limits, cache, comments, sales, review, messages, trades, pages and tools (done); proofs of sessions, cache, review, tools,
   limits, replies, comments, sales, and of what runs being what was reviewed (done).
6. The recorded wire as a theorem, with forks and for the whole server (done).
