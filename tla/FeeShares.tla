------------------------------ MODULE FeeShares ------------------------------
(***************************************************************************)
(* The share arithmetic of the fee escrow program: what a list of fee      *)
(* recipients must satisfy, and what a recipient is entitled to.           *)
(*                                                                         *)
(* A share list is a sequence of at most MaxRecipients records. Sums over  *)
(* a list are written out over the eight slots the program allows, so that *)
(* no recursion is needed to define them or to reason about them.          *)
(***************************************************************************)
EXTENDS Integers, Sequences

CONSTANTS
  XIds,       \* hashes of X account ids
  None        \* absent value: the zero hash, the default key, no account

ASSUME XIdsAssumption == None \notin XIds

Scale == 10000            \* basis points in a whole
MaxRecipients == 8
Slots == 1 .. MaxRecipients

Share == [id : XIds \cup {None}, bps : Nat]

(* The sum of a function over the slots of a share list. *)
SlotSum(f) == f[1] + f[2] + f[3] + f[4] + f[5] + f[6] + f[7] + f[8]

(* What Val gives the recipients of a list, slot by slot. *)
PerSlot(list, val) ==
  [i \in Slots |-> IF i \in DOMAIN list THEN val[list[i].id] ELSE 0]

SlotBps(list) == [i \in Slots |-> IF i \in DOMAIN list THEN list[i].bps ELSE 0]

Recipients(list) == {list[i].id : i \in DOMAIN list}

(* Mutants of ValidShares: one recipient listed twice; shares that do not  *)
(* add up to the whole.                                                    *)
RepeatedShares(list) ==
  /\ Len(list) \in Slots
  /\ \A i \in DOMAIN list : list[i].bps > 0 /\ list[i].id # None
  /\ SlotSum(SlotBps(list)) = Scale

UnsummedShares(list) ==
  /\ Len(list) \in Slots
  /\ \A i \in DOMAIN list : list[i].bps > 0 /\ list[i].id # None
  /\ \A i, j \in DOMAIN list : list[i].id = list[j].id => i = j

(* validate_shares *)
ValidShares(list) ==
  /\ Len(list) \in Slots
  /\ \A i \in DOMAIN list : list[i].bps > 0 /\ list[i].id # None
  /\ \A i, j \in DOMAIN list : list[i].id = list[j].id => i = j
  /\ SlotSum(SlotBps(list)) = Scale

(* The share a claim looks up: its first entry for x. *)
Bps(list, x) ==
  LET Entry(i) == list[i].id = x /\ \A j \in 1 .. i - 1 : list[j].id # x
  IN  list[CHOOSE i \in DOMAIN list : Entry(i)].bps

(* entitlement: the floor of the recipient's part of everything received. *)
Entitlement(total, bps) == (total * bps) \div Scale

Lesser(a, b) == IF a <= b THEN a ELSE b
=============================================================================
