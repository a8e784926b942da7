----------------------------- MODULE SaleShare ------------------------------
(* The result of a confirmed sale that its owner may share: what the sold  *)
(* tokens had cost, replayed from the indexed trades of the wallet.  Trades *)
(* land on the chain, an index catches up out of order, and the page polls *)
(* until the index covers the sale.  Times are seconds: two transactions   *)
(* of one second are indexed in the order of their signatures, not of the  *)
(* chain.                                                                  *)
EXTENDS Integers, Sequences, FiniteSets, Functions

CONSTANTS None, Amounts, Quotes,
          MaxTrades, MaxTime, MaxPolls          \* bounds

VARIABLES chain,      \* the wallet's trades in their true order
          graduated,  \* trades on the curve, once graduated
          indexed,    \* trades in the index
          through,    \* per venue, the time its history is covered through
          sale,       \* the trade that is the shared sale
          shown,      \* the result on the page
          polls

vars == <<chain, graduated, indexed, through, sale, shown, polls>>

Venues == {"dbc", "damm-v2"}
Now == IF chain = <<>> THEN 1 ELSE chain[Len(chain)].time
Venue(i) == IF graduated # None /\ i > graduated THEN "damm-v2" ELSE "dbc"

(* A result, and how far the curve of a graduated pool was covered then.   *)
Answer(status, cost) ==
  [status |-> status, cost |-> cost,
   curve |-> IF graduated = None THEN None ELSE through["dbc"]]
Pending == Answer("pending", None)

Init ==
  /\ chain = <<>> /\ graduated = None /\ indexed = {}
  /\ through = [v \in Venues |-> None] /\ sale = None
  /\ shown = Pending /\ polls = 0

(* --------------------------- the average cost -------------------------- *)

(* saleCostBasis replays trades: a position and its cost, or the end of    *)
(* the replay where a trade does not fit.                                  *)
Bought(s, t) == [s EXCEPT !.position = @ + t.amount, !.cost = @ + t.quote]
Sold(s, t) == [s EXCEPT !.position = @ - t.amount,
                        !.cost = @ - (@ * t.amount) \div s.position]

Replay(trades) ==
  LET after[n \in 0..Len(trades)] ==
        IF n = 0 THEN [position |-> 0, cost |-> 0]
        ELSE LET s == after[n - 1] t == trades[n] IN
             IF s = None THEN None
             ELSE IF t.side = "buy" THEN Bought(s, t)
             ELSE IF t.amount <= s.position /\ s.position > 0 THEN Sold(s, t)
             ELSE None
  IN after[Len(trades)]

CostOf(before, t, balance) ==
  LET s == Replay(before) IN
  IF s = None THEN None
  ELSE IF s.position # balance \/ s.position < t.amount THEN None
  ELSE (s.cost * t.amount) \div s.position

(* A buy and a sale of one second, in two transactions, have no order.     *)
Ordered(trades) ==
  \A i, j \in DOMAIN trades :
    trades[i].time = trades[j].time => trades[i].side = trades[j].side

(* -------------------------------- the chain ---------------------------- *)

Delta(t) == IF t.side = "buy" THEN t.amount ELSE -t.amount
Held == SumFunction([i \in DOMAIN chain |-> Delta(chain[i])])

(* No trade lands in the second a scan ended in.                           *)
Trade(t) ==
  /\ Len(chain) < MaxTrades /\ sale = None /\ t.time >= Now
  /\ \A v \in Venues : through[v] # None => t.time > through[v]
  /\ \A i \in DOMAIN chain : chain[i].signature # t.signature
  /\ t.side = "sell" => t.amount <= Held
  /\ chain' = Append(chain, t)
  /\ UNCHANGED <<graduated, indexed, through, sale, shown, polls>>

(* The last trade of the wallet is the sale it shares.                     *)
Share ==
  /\ chain # <<>> /\ chain[Len(chain)].side = "sell" /\ sale = None
  /\ sale' = Len(chain)
  /\ UNCHANGED <<chain, graduated, indexed, through, shown, polls>>

Graduate ==
  /\ graduated = None /\ graduated' = Len(chain)
  /\ UNCHANGED <<chain, indexed, through, sale, shown, polls>>

(* -------------------------------- the index ---------------------------- *)

(* The sweep of recent trades leaves gaps; a completed scan of a venue     *)
(* covers its history.                                                     *)
Sweep(i) ==
  /\ i \in DOMAIN chain \ indexed /\ indexed' = indexed \cup {i}
  /\ UNCHANGED <<chain, graduated, through, sale, shown, polls>>

Scan(v) ==
  /\ v = "dbc" \/ graduated # None
  /\ through[v] # Now
  /\ indexed' = indexed \cup {i \in DOMAIN chain : Venue(i) = v}
  /\ through' = [through EXCEPT ![v] = Now]
  /\ UNCHANGED <<chain, graduated, sale, shown, polls>>

(* ------------------------------- the result ---------------------------- *)

Before(i, j) == chain[i].time < chain[j].time
                  \/ (chain[i].time = chain[j].time /\ chain[i].signature < chain[j].signature)

(* The indexed trades up to the second of the sale, by time and signature. *)
Rows == {i \in indexed : chain[i].time <= chain[sale].time}
Place(S, i) == Cardinality({j \in S : Before(j, i)}) + 1
InOrder(S) == [n \in 1..Cardinality(S) |-> CHOOSE i \in S : Place(S, i) = n]
TradesOf(s) == [i \in DOMAIN s |-> chain[s[i]]]

CurveOnly == through["dbc"] # None         \* mutant of Complete

(* Of the curve of a graduated pool any coverage is enough.                *)
Complete ==
  /\ through["dbc"] # None
  /\ IF graduated # None
     THEN through["damm-v2"] # None /\ through["damm-v2"] >= chain[sale].time
     ELSE through["dbc"] >= chain[sale].time

(* The replay ends at the sale itself.                                     *)
Cost ==
  LET order == InOrder(Rows)
      earlier == SubSeq(order, 1, Place(Rows, sale) - 1)
  IN IF sale \notin indexed \/ ~Ordered(TradesOf(order)) THEN None
     ELSE CostOf(TradesOf(earlier), chain[sale], Held + chain[sale].amount)

Result ==
  IF ~Complete THEN Pending
  ELSE IF Cost = None THEN Answer("unavailable", None)
  ELSE Answer("ready", Cost)

(* The dialog asks again while the result is pending.                      *)
Poll ==
  /\ sale # None /\ polls < MaxPolls
  /\ shown.status = "pending"
  /\ shown' = Result /\ polls' = polls + 1
  /\ UNCHANGED <<chain, graduated, indexed, through, sale>>

SomeTrades == [time : 1..MaxTime, signature : 1..MaxTrades, side : {"buy", "sell"},
             amount : Amounts, quote : Quotes]

Next ==
  \/ \E t \in SomeTrades : Trade(t)
  \/ Share \/ Graduate \/ Poll
  \/ \E i \in 1..MaxTrades : Sweep(i)
  \/ \E v \in Venues : Scan(v)

Spec == Init /\ [][Next]_vars

(* ------------------------------ properties ----------------------------- *)

TypeOK ==
  /\ sale \in {None} \cup DOMAIN chain /\ indexed \subseteq DOMAIN chain
  /\ polls \in 0..MaxPolls
  /\ shown.status \in {"pending", "unavailable", "ready"}

(* The orders of all the trades before the sale that the chain and its     *)
(* index cannot tell apart: trades of one second may change places.        *)
Histories ==
  {h \in Injection(1..(sale - 1), 1..(sale - 1)) :
     \A i, j \in 1..(sale - 1) : i < j => chain[h[i]].time <= chain[h[j]].time}

(* Once the pool has graduated, the code does not ask how far the curve is *)
(* covered: this is what it takes for granted of the coverage c.           *)
CurveCovered(c) ==
  c # None => \A i \in DOMAIN chain : Venue(i) = "dbc" => chain[i].time <= c

(* A cost that is shown is the average cost over all the trades of the     *)
(* wallet before the sale, tokens moved without a trade aside: never over  *)
(* a part of the history, nor in an order invented for a buy and a sale of *)
(* one second. Of several sales in one second the order may differ, and    *)
(* with it how the cost of each is rounded. Of a graduated pool this holds *)
(* where the curve's index covered its trades when the result came; it is  *)
(* false without that, because saleShare asks the curve for any coverage   *)
(* (sale-share.ts:157), so a purchase the index missed may be left out.    *)
ShownCostIsTrue ==
  shown.status = "ready" /\ CurveCovered(shown.curve) =>
    /\ Ordered(chain)
    /\ \E h \in Histories :
         shown.cost = CostOf(TradesOf(h), chain[sale], Held + chain[sale].amount)
=============================================================================
