--------------------------- MODULE RetirementScan ---------------------------
(* What the read-only retirement inspection computes from the accounts of  *)
(* the escrow program (inspectRetirementAccounts), in any state of it.     *)
EXTENDS FeeEscrow

Allocations == {p \in Pools : shares[p] # << >>}
Identities(p) == Recipients(shares[p])

(* Identities without a beneficiary account stay beneficiaries.            *)
Unbound == {x \in UNION {Identities(p) : p \in Allocations} : bound[x] = None}

RoundedUp(p, s, x) ==
  (received[p][s] * Bps(shares[p], x) + Scale - 1) \div Scale - claimed[p][s][x]
Remaining(p, s, x) ==
  Entitlement(received[p][s], Bps(shares[p], x)) - claimed[p][s][x]
Unpaid(p, s) == SumFunction([x \in Identities(p) |-> Remaining(p, s, x)])

(* Beneficiary and claim accounts that belong to no allocation.            *)
Orphans ==
  {x \in XIds : bound[x] # None /\ \A p \in Allocations : x \notin Identities(p)}
  \cup {x \in XIds : \E p \in Pools, s \in Side :
                       claimed[p][s][x] > 0 /\ x \notin Identities(p)}

Blockers ==
  (IF Allocations # {} THEN {"ALLOCATION_FEE_RIGHTS_REMAIN"} ELSE {})
  \cup (IF Unbound # {} THEN {"UNBOUND_RECIPIENTS"} ELSE {})
  \cup (IF \E p \in Allocations, s \in Side : Unpaid(p, s) > 0
        THEN {"UNPAID_ENTITLEMENTS"} ELSE {})

(* "Unknown/malformed data makes the scan unusable" (retirement.ts): no    *)
(* order of legal program calls leaves accounts the inspection rejects.    *)
InspectionUsable ==
  /\ Orphans = {}
  /\ \A p \in Allocations, s \in Side : \A x \in Identities(p) :
       Remaining(p, s, x) >= 0

(* What the inspection reports as owed is in the vaults, and tokens that   *)
(* leave nothing reported behind were never owed to a recipient.           *)
UnpaidIsBacked ==
  /\ \A p \in Allocations, s \in Side : Unpaid(p, s) <= vault[p][s]
  /\ \A p \in Allocations, s \in Side : vault[p][s] > 0 /\ donated[p][s] = 0 =>
       \/ "UNPAID_ENTITLEMENTS" \in Blockers
       \/ vault[p][s] < Cardinality(Identities(p))

(* No order of legal program calls leaves accounts that the retirement     *)
(* inspection rejects, and what it reports as owed is in the vaults        *)
(* (inspectRetirementAccounts).                                            *)
RetirementIsBacked == InspectionUsable /\ UnpaidIsBacked
=============================================================================
