----------------------------- MODULE MCFeeEscrow -----------------------------
(* FeeEscrow for TLC. One instance cannot hold both every order of         *)
(* payments and every order of rotations, so a behaviour bounds one of     *)
(* them: "pay" keeps the first verifier and the first second, and so do    *)
(* its authorizations; "rotation" has one recipient, whose authorizations  *)
(* are for one limit on one side, and for any key, epoch and time.         *)
EXTENDS RetirementScan, TLC

CONSTANTS p1, w1, w2, alice, bob, k1, k2, kBad, n1, n2

VARIABLE part

SharesOf(x, y) == <<[id |-> alice, bps |-> x], [id |-> bob, bps |-> y]>>
OneRecipient == <<[id |-> alice, bps |-> 10000]>>

(* A split that rounds, and lists the program must refuse: a wrong sum, a  *)
(* zero share, a repeated recipient, the zero hash and no recipient.       *)
MCShareLists ==
  {SharesOf(3333, 6667), SharesOf(10000, 5000), SharesOf(10000, 0),
   <<[id |-> bob, bps |-> 4000], [id |-> bob, bps |-> 6000]>>,
   <<[id |-> None, bps |-> 10000]>>, << >>, OneRecipient}

PayBound ==
  /\ control'.epoch <= 1 /\ verifier' # k2 /\ now' = 0
  /\ \A p \in Pools : shares'[p] # OneRecipient
  /\ \A p \in Pools, s \in Side : vault'[p][s] - vault[p][s] # 1
  /\ \A m \in signed' : m.key = k1 /\ m.issued = 0 /\ m.epoch = 1

RotationBound ==
  /\ \A p \in Pools : shares'[p] \in {<< >>, OneRecipient}
  /\ \A p \in Pools, s \in Side : received'[p][s] <= 1 /\ vault'[p][s] <= 1
  /\ \A p \in Pools : received'[p]["base"] = received'[p]["quote"]
  /\ \A m \in signed' : m.xid = alice /\ m.limit = 4 /\ m.side = "quote"

MCInit == part \in {"pay", "rotation"} /\ Init
MCNext ==
  /\ part' = part /\ Next
  /\ \/ part = "pay" /\ PayBound
     \/ part = "rotation" /\ RotationBound
MCSpec == MCInit /\ [][MCNext]_<<part, vars>>

MCSymmetry == Permutations({w1, w2}) \cup Permutations({n1, n2})
=============================================================================
