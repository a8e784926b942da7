--------------------------- MODULE TickerRegistry ---------------------------
(***************************************************************************)
(* What the launch registry promises its users, with no database, chain    *)
(* client or request in sight: a ticker has one owner at a time, only the  *)
(* owner of a ticker can bring its token to life, and a living token keeps *)
(* its ticker until it is retired.                                         *)
(***************************************************************************)
CONSTANTS Launches, Tickers, tickerOf, None

VARIABLES
  owner,   \* launch that owns each ticker
  live     \* launches whose pool exists and that were not retired

vars == <<owner, live>>

Init ==
  /\ owner = [t \in Tickers |-> None]
  /\ live = {}

Claim(l) ==
  /\ owner[tickerOf[l]] = None
  /\ owner' = [owner EXCEPT ![tickerOf[l]] = l]
  /\ UNCHANGED live

GoLive(l) ==
  /\ owner[tickerOf[l]] = l
  /\ l \notin live
  /\ live' = live \cup {l}
  /\ UNCHANGED owner

(* The reservation of a launch that never came to life.                    *)
Abandon(l) ==
  /\ owner[tickerOf[l]] = l
  /\ l \notin live
  /\ owner' = [owner EXCEPT ![tickerOf[l]] = None]
  /\ UNCHANGED live

Retire(l) ==
  /\ owner[tickerOf[l]] = l
  /\ l \in live
  /\ owner' = [owner EXCEPT ![tickerOf[l]] = None]
  /\ live' = live \ {l}

Next == \E l \in Launches : Claim(l) \/ GoLive(l) \/ Abandon(l) \/ Retire(l)

Spec == Init /\ [][Next]_vars
=============================================================================
