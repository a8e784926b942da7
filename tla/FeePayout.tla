------------------------------ MODULE FeePayout ------------------------------
(***************************************************************************)
(* What the escrow promises the people a launch shares its fees with, and  *)
(* nothing about how: a pool's split is agreed once, fees only accumulate, *)
(* and each recipient is paid, to one wallet, up to its share of all that  *)
(* was received. Verifiers, epochs, nonces, pauses, vaults and expiry do   *)
(* not appear.                                                             *)
(***************************************************************************)
EXTENDS FeeShares

CONSTANTS Pools, Wallets

VARIABLES
  terms,   \* the split of each pool; << >> until it is agreed
  total,   \* fees received by each pool, on each side
  paid,    \* fees paid to each X id
  owner    \* the wallet each X id is paid to

vars == <<terms, total, paid, owner>>

Side == {"base", "quote"}

Init ==
  /\ terms = [p \in Pools |-> << >>]
  /\ total = [p \in Pools |-> [s \in Side |-> 0]]
  /\ paid = [p \in Pools |-> [s \in Side |-> [x \in XIds |-> 0]]]
  /\ owner = [x \in XIds |-> None]

Agree(p) ==
  /\ terms[p] = << >>
  /\ ValidShares(terms'[p])
  /\ terms' = [terms EXCEPT ![p] = terms'[p]]
  /\ UNCHANGED <<total, paid, owner>>

Receive(p) ==
  /\ terms[p] # << >>
  /\ \A s \in Side : total'[p][s] >= total[p][s]
  /\ total' = [total EXCEPT ![p] = [s \in Side |-> total'[p][s]]]
  /\ UNCHANGED <<terms, paid, owner>>

Pay(p, s, x, w) ==
  /\ x \in Recipients(terms[p])
  /\ owner[x] \in {None, w}
  /\ owner' = [owner EXCEPT ![x] = w]
  /\ paid'[p][s][x] > paid[p][s][x]
  /\ paid'[p][s][x] <= Entitlement(total[p][s], Bps(terms[p], x))
  /\ paid' = [paid EXCEPT ![p][s][x] = paid'[p][s][x]]
  /\ UNCHANGED <<terms, total>>

Next ==
  \/ \E p \in Pools : Agree(p) \/ Receive(p)
  \/ \E p \in Pools, s \in Side, x \in XIds, w \in Wallets : Pay(p, s, x, w)

Spec == Init /\ [][Next]_vars
=============================================================================
