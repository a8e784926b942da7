------------------------------ MODULE MCServer ------------------------------
(* The server's transactions for TLC: LaunchRegistry itself, with two      *)
(* launches of one ticker, and beside it instances that submit wires and   *)
(* bind wallets, that quote, build and run a trade, and that show a        *)
(* message to a wallet. They share no variable, so one of them moves in a  *)
(* behaviour (part) and the others stay as they began.                     *)
EXTENDS MCLaunchRegistry, Sequences

CONSTANTS x1, x2, a1, a2

(* The constants of TokenTrade.                                            *)
CONSTANTS Amounts, Tolerances, Rates, Threshold, Funds, MaxMoves

(* The constants of WireReview.                                            *)
CONSTANTS Apps, MaxUnits, FeeScale, FeeLimit, Packet, Units, UnitPrices,
          MaxTouches, MaxRounds

VARIABLES
  part,
  \* TradeWires and ConversionWires: the variables of LaunchRegistry once more
  tokensW, claimsW, launchingW, intentsW, messageW, signatureW, validThroughW,
  workerW, releasingW, heightW, sentW, landedW, crashesW,
  \* Bindings: those of FeeClaims
  profile, binding, challenge, intent, workerB, sentB, landedB, entitled,
  claimed, bound, receipt, control, now,
  \* Trade: those of TokenTrade
  pool, market, walletT, flowT, receiptT, moves,
  \* Signing: those of WireReview
  kind, app, stored, wire, editsX, polite, answer, rounds

(* Two tabs submit different wires of a trade.                             *)
TradeWires ==
  INSTANCE LaunchRegistry WITH
    Launches <- {}, Trades <- {t1}, Conversions <- {}, tickerOf <- << >>,
    HistoryLags <- TRUE, Forks <- TRUE, MaxHeight <- 2,
    tokens <- tokensW, claims <- claimsW, launching <- launchingW,
    intents <- intentsW, message <- messageW, signature <- signatureW,
    validThrough <- validThroughW, worker <- workerW, releasing <- releasingW,
    height <- heightW, sent <- sentW, landed <- landedW, crashes <- crashesW

(* The same of a conversion that was reviewed twice.                       *)
ConversionWires ==
  INSTANCE LaunchRegistry WITH
    Launches <- {}, Trades <- {}, Conversions <- {c1}, tickerOf <- << >>,
    HistoryLags <- TRUE, Forks <- TRUE, MaxHeight <- 2,
    tokens <- tokensW, claims <- claimsW, launching <- launchingW,
    intents <- intentsW, message <- messageW, signature <- signatureW,
    validThrough <- validThroughW, worker <- workerW, releasing <- releasingW,
    height <- heightW, sent <- sentW, landed <- landedW, crashes <- crashesW

(* Two accounts and two wallets link and bind in two requests.             *)
Bindings ==
  INSTANCE FeeClaims WITH
    Challenges <- {c1}, XIds <- {x1, x2}, Wallets <- {a1, a2}, Posts <- {t1},
    MaxIntents <- 1, Amounts <- {1}, MaxEntitled <- 1, MaxEpoch <- 1,
    ChallengeLife <- 1, BlockhashLife <- 1, MaxTime <- 1,
    worker <- workerB, sent <- sentB, landed <- landedB

ASSUME ServerAssumption ==
  /\ None \notin {t1, c1, x1, x2, a1, a2}
  /\ None \notin Bindings!Challenge \cup Bindings!Intent \cup Bindings!Receipt
                 \cup Bindings!Job \cup [xid : {x1, x2}, amount : {1}]

(* For TLC: a wallet with and without wrapped SOL.                         *)
TradeFunds ==
  {[has |-> [SOL |-> 8, WSOL |-> w, USDC |-> 8, token |-> 8], open |-> w > 0] : w \in {0, 1}}

(* Purchases and sales against SOL, or converted from and to USDC.         *)
Trade ==
  INSTANCE TokenTrade WITH
    Quote <- "SOL", Settlement <- "USDC", wallet <- walletT, flow <- flowT,
    receipt <- receiptT

(* Amounts and rates are positive whole numbers, a tolerance is at most    *)
(* the whole, a curve is complete at a positive reserve, and a wallet      *)
(* holds whole units of every asset of a trade.                            *)
ASSUME TradeAssumption ==
  /\ Amounts \subseteq Nat \ {0} /\ Tolerances \subseteq 0..100 /\ Rates \subseteq Nat \ {0}
  /\ Threshold \in Nat \ {0} /\ MaxMoves \in Nat
  /\ Funds \subseteq [has : [{"SOL", "WSOL", "USDC", "token"} -> Nat], open : BOOLEAN]

(* For TLC: transactions with and without compute budget instructions, and *)
(* one that hardly fits a packet.                                          *)
Asked(op, arg) == [op |-> op, arg |-> arg]
WireApps ==
  {<<Asked("units", 1), Asked("transfer", "a"), Asked("transfer", "b")>>,
   <<Asked("price", 2), Asked("transfer", "a")>>,
   [i \in 1..6 |-> Asked("transfer", IF i % 2 = 1 THEN "a" ELSE "b")]}

Signing ==
  INSTANCE WireReview WITH
    Prices <- UnitPrices, MaxEdits <- MaxTouches, edits <- editsX

(* The application names compute units and a price once at most, asserts   *)
(* nothing itself, and prepares a trade and a claim within the fee limit.  *)
(* Fees are whole numbers, and None is no message.                         *)
ASSUME WireAssumption ==
  /\ MaxUnits \in Nat /\ FeeScale \in Nat \ {0} /\ FeeLimit \in Nat /\ Packet \in Nat
  /\ Units \subseteq Nat /\ UnitPrices \subseteq Nat
  /\ MaxTouches \in Nat /\ MaxRounds \in Nat
  /\ Apps \subseteq Seq(Signing!Instructions) /\ None \notin Signing!Messages
  /\ \A a \in Apps : \A i \in DOMAIN a :
       /\ a[i].op \in {"units", "price", "heap", "loaded", "transfer"}
       /\ a[i].op = "units" => a[i].arg \in 1..MaxUnits
       /\ a[i].op = "price" => a[i].arg \in Nat
       /\ \A j \in DOMAIN a : a[i].op \in {"units", "price"} /\ a[j].op = a[i].op => j = i
  /\ \A a \in Apps :
       LET m == Signing!PrepareTransactionWire(a, FALSE) IN
       m # None => Signing!FeeBounded(Signing!Describe(m, FALSE))

registryVars == vars
wiresVars ==
  <<tokensW, claimsW, launchingW, intentsW, messageW, signatureW, validThroughW,
    workerW, releasingW, heightW, sentW, landedW, crashesW>>
bindingsVars ==
  <<profile, binding, challenge, intent, workerB, sentB, landedB, entitled,
    claimed, bound, receipt, control, now>>
tradeVars == <<pool, market, walletT, flowT, receiptT, moves>>
signingVars == <<kind, app, stored, wire, editsX, polite, answer, rounds>>

MCServerInit ==
  /\ part \in {"registry", "trade", "conversion", "bindings", "swap", "signing"}
  /\ Init /\ Bindings!Init
  /\ IF part = "conversion" THEN ConversionWires!Init ELSE TradeWires!Init
  /\ IF part = "swap" THEN Trade!Init
     ELSE /\ pool = None /\ market = None /\ walletT = None /\ flowT = None
          /\ receiptT = None /\ moves = None
  /\ IF part = "signing" THEN Signing!Init
     ELSE /\ kind = None /\ app = None /\ stored = None /\ wire = None
          /\ editsX = None /\ polite = None /\ answer = None /\ rounds = None

MCServerNext ==
  /\ part' = part
  /\ IF part = "registry" THEN Next ELSE UNCHANGED registryVars
  /\ CASE part = "trade" -> TradeWires!Next
       [] part = "conversion" -> ConversionWires!Next
       [] OTHER -> UNCHANGED wiresVars
  /\ IF part = "bindings" THEN Bindings!Next ELSE UNCHANGED bindingsVars
  /\ IF part = "swap" THEN Trade!Next ELSE UNCHANGED tradeVars
  /\ IF part = "signing" THEN Signing!Next ELSE UNCHANGED signingVars

serverVars ==
  <<part, registryVars, wiresVars, bindingsVars, tradeVars, signingVars>>
MCServerSpec == MCServerInit /\ [][MCServerNext]_serverVars

(* Whatever two tabs submit for one intent, only one wire is ever executed, *)
(* and its message and signature are the ones on record ("Transaction      *)
(* signatures are persisted before broadcast", docs/launchpad.md).         *)
RecordedWireRuns ==
  IF part = "conversion" THEN ConversionWires!OnlyRecordedWireRuns
  ELSE TradeWires!OnlyRecordedWireRuns

(* However requests to bind, and re-linked profiles, interleave, database  *)
(* and escrow agree on one wallet per account and one account per wallet   *)
(* (bindFeeWallet).                                                        *)
OneWalletPerAccount == Bindings!OneWalletPerAccount

(* What runs is what the user reviewed: the amounts, the venue and the     *)
(* effects, whatever the pool, the wallet and others do between the quote  *)
(* and the signature (protocol/src/index.ts, jupiter.ts, wire.ts).         *)
RunAsReviewed ==
  /\ part = "swap" =>
       /\ Trade!TypeOK /\ Trade!WithinReview /\ Trade!RunsWhereShown
       /\ Trade!QuietTradeRuns /\ Trade!EachSwapCountedOnce
  /\ part = "signing" =>
       /\ Signing!TypeOK /\ Signing!RunsAsReviewed
       /\ Signing!OthersRunAsShown /\ Signing!PoliteIsAccepted
=============================================================================
