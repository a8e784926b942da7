----------------------------- MODULE TokenTrade -----------------------------
(* A trade, from the quote to the chain: on the token's own pool, or      *)
(* through a conversion of another asset that runs in the same            *)
(* transaction.  The pool, the conversion market and the graduation of    *)
(* the curve move between the quote, the build and the execution.         *)
(* Amounts are whole units, rates whole numbers, slippage per cent.       *)
EXTENDS Integers, Sequences, SequencesExt

CONSTANTS None,
          Quote,        \* the asset the pool trades against
          Settlement,   \* the asset a converted trade pays or receives
          Amounts, Tolerances, Rates,
          Threshold,    \* the quote reserve at which the curve is complete
          Funds,        \* the wallets a trade may start from
          MaxMoves      \* bound on what others do

VARIABLES pool,     \* what the chain knows of the pool
          market,   \* quote units for one unit of the settlement asset
          wallet,   \* the trader's balances, and whether a WSOL account is open
          flow,     \* the trade
          receipt,  \* the last transaction that traded on the pool
          moves

vars == <<pool, market, wallet, flow, receipt, moves>>

Assets == {"SOL", "USDC", "token"}
Account(a) == IF a = "SOL" THEN "WSOL" ELSE a     \* where a swap holds it
Least(a, b) == IF a <= b THEN a ELSE b
MinimumOf(out, slip) == (out * (100 - slip)) \div 100

(* The elements of s that are in S, in their order.                        *)
Kept(s, S) == FoldLeft(LAMBDA kept, e : IF e \in S THEN Append(kept, e) ELSE kept, <<>>, s)

NoRequest == [sell |-> FALSE, routed |-> FALSE, amount |-> 0, slip |-> 0]
NoTrade == [stage |-> "idle", request |-> NoRequest, route |-> None,
            quote |-> None, tx |-> <<>>, seen |-> 0, start |-> None, ranOn |-> None]

Init ==
  /\ pool = [rate |-> 1, reserve |-> 1, migrated |-> FALSE]
  /\ market \in Rates
  /\ wallet \in Funds
  /\ flow = NoTrade
  /\ receipt = [inner |-> <<>>, logs |-> <<>>, swaps |-> 0]
  /\ moves = 0

(* --------------------------- quotes of the pool ------------------------ *)

Venue == IF pool.migrated THEN "damm-v2" ELSE "dbc"
Complete == ~pool.migrated /\ pool.reserve >= Threshold
Consumed(amount, sell) ==        \* a last buy may fill the curve in part
  IF sell \/ pool.migrated THEN amount ELSE Least(amount, Threshold - pool.reserve)
Output(amount, sell) ==
  IF sell THEN amount \div pool.rate ELSE Consumed(amount, sell) * pool.rate
Fillable(amount, sell) ==
  ~Complete /\ (sell /\ ~pool.migrated => Output(amount, sell) <= pool.reserve)

QuoteSwap(amount, sell, slip) ==
  LET out == Output(amount, sell) IN
  IF Fillable(amount, sell) /\ MinimumOf(out, slip) > 0
    THEN [venue |-> Venue, amount |-> amount, out |-> out, min |-> MinimumOf(out, slip)]
    ELSE None

(* The instructions of a swap.  "wrap" moves lamports into the wrapped SOL *)
(* account and synchronises it; "close" returns what is left.              *)
Op(op, amount) == [op |-> op, amount |-> amount]
SameVenue(quote) == quote.venue = Venue

BuildSwap(quote, sell) ==
  LET swap == [op |-> "pool", venue |-> Venue, sell |-> sell,
               amount |-> quote.amount, min |-> quote.min]
  IN IF Quote # "SOL" THEN <<Op("open", 0), swap>>
     ELSE IF sell THEN <<Op("open", 0), swap, Op("close", 0)>>
     ELSE <<Op("open", 0), Op("wrap", quote.amount), swap, Op("close", 0)>>

(* ------------------------------ conversions ---------------------------- *)

(* What a request asks of the provider, and the answer it should give.     *)
Asked(r, amount) ==
  [in |-> IF r.sell THEN Quote ELSE Settlement, out |-> IF r.sell THEN Settlement ELSE Quote,
   amount |-> amount, slip |-> r.slip \div 2]
RouteOut(q) == IF q.in = Settlement THEN q.amount * market ELSE q.amount \div market

Answer(q) ==
  LET out == RouteOut(q) IN
  [in |-> q.in, out |-> q.out, amount |-> q.amount, slip |-> q.slip,
   expected |-> out, min |-> MinimumOf(out, q.slip),
   swap |-> [op |-> "route", in |-> q.in, out |-> q.out, amount |-> q.amount,
             quoted |-> out, slip |-> q.slip, fee |-> 0, to |-> "owner"],
   setup |-> (IF "SOL" \in {q.in, q.out} THEN <<Op("open", 0)>> ELSE <<>>)
             \o (IF q.in = "SOL" THEN <<Op("wrap", q.amount)>> ELSE <<>>),
   cleanup |-> IF "SOL" \in {q.in, q.out} THEN <<Op("close", 0)>> ELSE <<>>,
   others |-> <<>>]

(* Answers that differ from it in one respect.                             *)
Answers(q) ==
  LET a == Answer(q) IN
  {a, [a EXCEPT !.in = q.out, !.out = q.in],
      [a EXCEPT !.amount = @ + 1, !.swap.amount = @ + 1],
      [a EXCEPT !.swap.amount = @ + 1],
      [a EXCEPT !.min = @ - 1],
      [a EXCEPT !.swap.slip = 100],
      [a EXCEPT !.swap.fee = 1],
      [a EXCEPT !.swap.to = "another"],
      [a EXCEPT !.setup = Append(@, Op("wrap", 1))],
      [a EXCEPT !.setup = <<>>],
      [a EXCEPT !.others = <<Op("tip", 1)>>]}

Wrapped(setup) ==
  FoldLeft(LAMBDA n, op : n + (IF op.op = "wrap" THEN op.amount ELSE 0), 0, setup)

ValidateJupiterRoute(a, q) ==
  /\ a.in = q.in /\ a.out = q.out /\ a.amount = q.amount /\ a.slip = q.slip
  /\ a.expected > 0 /\ a.min > 0 /\ a.min <= a.expected
  /\ a.min >= MinimumOf(a.expected, q.slip)
  /\ a.swap = [op |-> "route", in |-> q.in, out |-> q.out, amount |-> q.amount,
               quoted |-> a.expected, slip |-> q.slip, fee |-> 0, to |-> "owner"]
  /\ \A i \in DOMAIN a.setup : a.setup[i].op = "wrap" => q.in = "SOL"
  /\ Wrapped(a.setup) <= q.amount
  /\ a.others = <<>>

(* ---------------------------- the transaction -------------------------- *)

(* An intermediate WSOL account is filled by the first leg and closed      *)
(* after both.                                                             *)
IntermediateSol(ops) == Kept(ops, {op \in Range(ops) : op.op \notin {"wrap", "close"}})

Legs(r, swap, poolOps) == IF r.sell THEN poolOps \o <<swap>> ELSE <<swap>> \o poolOps

Compose(r, route, poolOps) ==
  LET native == Quote = "SOL"
      trade == IF native THEN IntermediateSol(poolOps) ELSE poolOps
      setup == IF native /\ r.sell THEN IntermediateSol(route.setup) ELSE route.setup
  IN setup \o Legs(r, route.swap, trade) \o route.cleanup

(* What the chain makes of it: every instruction, or nothing.              *)
Move(w, from, paid, to, got) ==
  [w EXCEPT !.has = [a \in DOMAIN @ |-> @[a] - (IF a = from THEN paid ELSE 0)
                                             + (IF a = to THEN got ELSE 0)]]
Usable(w, a) == Account(a) = "WSOL" => w.open
Stopped(s) == [s EXCEPT !.ok = FALSE]

RunPool(s, op) ==
  LET in == IF op.sell THEN "token" ELSE Quote
      out == IF op.sell THEN Quote ELSE "token"
      used == Consumed(op.amount, op.sell)
      got == Output(op.amount, op.sell)
  IN IF /\ op.venue = Venue /\ Fillable(op.amount, op.sell)
        /\ s.wallet.has[Account(in)] >= op.amount /\ got >= op.min
        /\ Usable(s.wallet, in) /\ Usable(s.wallet, out)
       THEN [s EXCEPT
               !.wallet = Move(@, Account(in), used, Account(out), got),
               !.pool.reserve = IF pool.migrated THEN @ ELSE IF op.sell THEN @ - got ELSE @ + used]
       ELSE Stopped(s)

RunRoute(s, op) ==
  LET got == RouteOut([in |-> op.in, amount |-> op.amount]) IN
  IF /\ s.wallet.has[Account(op.in)] >= op.amount
     /\ got >= MinimumOf(op.quoted, op.slip)
     /\ Usable(s.wallet, op.in) /\ Usable(s.wallet, op.out)
    THEN [s EXCEPT !.wallet = Move(@, Account(op.in), op.amount, Account(op.out),
                                   IF op.to = "owner" THEN got - op.fee ELSE 0)]
    ELSE Stopped(s)

RunOp(s, op) ==
  CASE op.op = "open"  -> [s EXCEPT !.wallet.open = TRUE]
    [] op.op = "wrap"  -> IF s.wallet.open /\ s.wallet.has["SOL"] >= op.amount
                            THEN [s EXCEPT !.wallet = Move(@, "SOL", op.amount, "WSOL", op.amount)]
                            ELSE Stopped(s)
    [] op.op = "close" -> IF s.wallet.open
                            THEN [s EXCEPT !.wallet =
                                    [Move(@, "WSOL", @.has["WSOL"], "SOL", @.has["WSOL"])
                                       EXCEPT !.open = FALSE]]
                            ELSE Stopped(s)
    [] op.op = "tip"   -> [s EXCEPT !.wallet = Move(@, "SOL", op.amount, "SOL", 0)]
    [] op.op = "pool"  -> RunPool(s, op)
    [] op.op = "route" -> RunRoute(s, op)

Result(tx) ==
  FoldLeft(LAMBDA s, op : IF s.ok THEN RunOp(s, op) ELSE s,
           [ok |-> TRUE, wallet |-> wallet, pool |-> pool], tx)

(* ------------------------------- the events ---------------------------- *)

(* A curve swap emits its old event and its new one, a graduated swap only *)
(* the new one: as self calls, or in the logs of an older program.         *)
Emitted(venue, n) ==
  LET one == IF venue = "dbc" THEN <<"evtSwap", "evtSwap2">> ELSE <<"evtSwap2">>
  IN [i \in 1..(n * Len(one)) |->
        [program |-> venue, name |-> one[((i - 1) % Len(one)) + 1], swap |-> 1]]
Receipt(venue, n, self) ==
  [inner |-> IF self THEN Emitted(venue, n) ELSE <<>>,
   logs |-> IF self THEN <<>> ELSE Emitted(venue, n), swaps |-> n]

DecodeTransactionEvents(r, venue) ==
  LET of(events) == Kept(events, {e \in Range(events) : e.program = venue}) IN
  IF of(r.inner) # <<>> THEN of(r.inner) ELSE of(r.logs)

(* The old event is dropped where the new one of the same swap follows.    *)
CanonicalSwapEvents(events) ==
  LET paired(i) == /\ events[i].name = "evtSwap" /\ i < Len(events)
                   /\ events[i + 1].name = "evtSwap2"
                   /\ events[i + 1].swap = events[i].swap
      kept == Kept([i \in 1..Len(events) |-> i], {i \in 1..Len(events) : ~paired(i)})
  IN [i \in 1..Len(kept) |-> events[kept[i]]]

(* -------------------------------- the trade ---------------------------- *)

Start ==
  /\ flow.stage = "idle"
  /\ \E sell, routed \in BOOLEAN, amount \in Amounts, tol \in Tolerances :
       flow' = [NoTrade EXCEPT !.stage = IF routed /\ ~sell THEN "route" ELSE "pool",
                  !.request = [sell |-> sell, routed |-> routed, amount |-> amount, slip |-> tol],
                  !.seen = moves, !.start = wallet]
  /\ UNCHANGED <<pool, market, wallet, receipt, moves>>

Refused == [flow EXCEPT !.stage = "refused"]

QuotePool ==
  LET r == flow.request
      amount == IF r.routed /\ ~r.sell THEN flow.route.min ELSE r.amount
      quote == QuoteSwap(amount, r.sell, IF r.routed THEN r.slip \div 2 ELSE r.slip)
  IN /\ flow.stage = "pool"
     /\ flow' = IF quote = None THEN Refused
                ELSE [flow EXCEPT !.quote = quote,
                        !.stage = IF r.routed /\ r.sell THEN "route" ELSE "quoted"]
     /\ UNCHANGED <<pool, market, wallet, receipt, moves>>

JupiterRoute ==
  LET r == flow.request
      q == Asked(r, IF r.sell THEN flow.quote.min ELSE r.amount)
  IN /\ flow.stage = "route"
     /\ \E a \in Answers(q) :
          flow' = IF ~ValidateJupiterRoute(a, q) THEN Refused
                  ELSE [flow EXCEPT !.route = a, !.stage = IF r.sell THEN "quoted" ELSE "pool"]
     /\ UNCHANGED <<pool, market, wallet, receipt, moves>>

Build ==
  LET r == flow.request
      poolOps == BuildSwap(flow.quote, r.sell)
  IN /\ flow.stage = "quoted"
     /\ flow' = IF ~SameVenue(flow.quote) THEN Refused
                ELSE IF r.routed
                  THEN [flow EXCEPT !.tx = Compose(r, flow.route, poolOps), !.stage = "simulate"]
                ELSE [flow EXCEPT !.tx = poolOps, !.stage = "prepared"]
     /\ UNCHANGED <<pool, market, wallet, receipt, moves>>

Simulate ==
  /\ flow.stage = "simulate"
  /\ flow' = IF Result(flow.tx).ok THEN [flow EXCEPT !.stage = "prepared"] ELSE Refused
  /\ UNCHANGED <<pool, market, wallet, receipt, moves>>

Run ==
  LET after == Result(flow.tx) IN
  /\ flow.stage = "prepared"
  /\ IF after.ok
       THEN /\ wallet' = after.wallet /\ pool' = after.pool
            /\ flow' = [flow EXCEPT !.stage = "ran", !.ranOn = Venue]
            /\ receipt' = Receipt(Venue, 1, TRUE)
       ELSE /\ flow' = [flow EXCEPT !.stage = "failed"]
            /\ UNCHANGED <<wallet, pool, receipt>>
  /\ UNCHANGED <<market, moves>>

(* ------------------------------ everyone else -------------------------- *)

Moved == moves < MaxMoves /\ moves' = moves + 1

OthersTrade ==
  /\ Moved /\ ~Complete
  /\ \E rate \in Rates, n \in 1..2, self \in BOOLEAN :
       /\ pool' = [pool EXCEPT !.rate = rate,
                     !.reserve = IF pool.migrated THEN @ ELSE Least(@ + n, Threshold)]
       /\ receipt' = Receipt(Venue, n, self)
  /\ UNCHANGED <<market, wallet, flow>>

MarketMoves ==
  /\ Moved
  /\ market' \in Rates \ {market}
  /\ UNCHANGED <<pool, wallet, flow, receipt>>

(* Anyone may have a complete curve migrated.                              *)
Migrate ==
  /\ Moved /\ Complete
  /\ pool' = [pool EXCEPT !.migrated = TRUE]
  /\ UNCHANGED <<market, wallet, flow, receipt>>

Next == Start \/ QuotePool \/ JupiterRoute \/ Build \/ Simulate \/ Run
        \/ OthersTrade \/ MarketMoves \/ Migrate
Spec == Init /\ [][Next]_vars

(* ------------------------------ properties ----------------------------- *)

Stages == {"idle", "pool", "route", "quoted", "simulate", "prepared", "ran", "refused", "failed"}

TypeOK ==
  /\ pool.rate \in Rates \cup {1} /\ pool.reserve \in 0..Threshold /\ pool.migrated \in BOOLEAN
  /\ market \in Rates /\ flow.stage \in Stages
  /\ \A a \in DOMAIN wallet.has : wallet.has[a] \in Nat
  /\ moves \in 0..MaxMoves /\ receipt.swaps \in 0..2

Held(w, a) == w.has[a] + (IF a = "SOL" THEN w.has["WSOL"] ELSE 0)
InputOf(r) == IF r.sell THEN "token" ELSE IF r.routed THEN Settlement ELSE Quote
OutputOf(r) == IF ~r.sell THEN "token" ELSE IF r.routed THEN Settlement ELSE Quote
ShownMinimum(f) == IF f.request.routed /\ f.request.sell THEN f.route.min ELSE f.quote.min

(* A trade that ran took at most the reviewed input and gave at least the  *)
(* reviewed minimum, and no other asset of the wallet became less: not the *)
(* SOL it holds besides, not the intermediate asset.                       *)
WithinReview ==
  flow.stage = "ran" =>
    LET r == flow.request IN
    /\ \A a \in Assets : Held(wallet, a) + (IF a = InputOf(r) THEN r.amount ELSE 0)
                           >= Held(flow.start, a)
    /\ Held(wallet, OutputOf(r)) >= Held(flow.start, OutputOf(r)) + ShownMinimum(flow)

(* A trade runs on the venue its review showed, also when the pool         *)
(* graduated between the quote, the build and the signature.               *)
RunsWhereShown == flow.stage = "ran" => flow.ranOn = flow.quote.venue

(* While nothing moved since the request, a prepared trade on an honest    *)
(* conversion runs, of a wallet that has the input: its legs fit together. *)
QuietTradeRuns ==
  /\ flow.stage \in {"simulate", "prepared"}
  /\ moves = flow.seen
  /\ wallet.has[InputOf(flow.request)] >= flow.request.amount
  /\ flow.request.routed => flow.route = Answer(Asked(flow.request, flow.route.amount))
  => Result(flow.tx).ok

(* Every swap on a curve is counted once, whichever way its events came.   *)
EachSwapCountedOnce ==
  LET dbc == CanonicalSwapEvents(DecodeTransactionEvents(receipt, "dbc"))
      all == DecodeTransactionEvents(receipt, "damm-v2")
      damm == Kept(all, {e \in Range(all) : e.name = "evtSwap2"})
  IN Len(dbc) + Len(damm) = receipt.swaps
=============================================================================
