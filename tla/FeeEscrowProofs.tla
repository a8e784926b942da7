--------------------------- MODULE FeeEscrowProofs ---------------------------
(***************************************************************************)
(* Theorems about FeeEscrow, for any pools, wallets, X ids, share lists,   *)
(* amounts, limits and epochs. They start with lemmas about the arithmetic *)
(* of shares. The argument then goes in three steps: the type invariant    *)
(* together with the validity of every stored share list; then the         *)
(* bookkeeping of each account, of which Conservation is the heart; then   *)
(* what follows from it, and the promise of FeePayout. The receipts and    *)
(* what a retirement inspection adds up are sums over sets of any size,    *)
(* for which FiniteSums has the lemmas.                                    *)
(***************************************************************************)
EXTENDS RetirementScan, FiniteSums, TLAPS

-----------------------------------------------------------------------------
(* Share arithmetic, for lists of any shape and totals of any size *)

(* A floor is a natural number, no larger than the exact share.            *)
LEMMA EntitlementType ==
  ASSUME NEW total \in Nat, NEW bps \in Nat
  PROVE  /\ Entitlement(total, bps) \in Nat
         /\ Scale * Entitlement(total, bps) <= total * bps
<1>1. total * bps \in Nat
  OBVIOUS
<1>2. ASSUME NEW n \in Nat
      PROVE  n \div Scale \in Nat /\ Scale * (n \div Scale) <= n
  BY SMT DEF Scale
<1>. QED  BY <1>1, <1>2 DEF Entitlement

(* More fees never lower anyone's entitlement.                             *)
LEMMA EntitlementMonotone ==
  ASSUME NEW t \in Nat, NEW u \in Nat, t <= u, NEW bps \in Nat
  PROVE  Entitlement(t, bps) <= Entitlement(u, bps)
<1>1. t * bps \in Nat /\ u * bps \in Nat /\ t * bps <= u * bps
  BY SMT
<1>2. ASSUME NEW m \in Nat, NEW n \in Nat, m <= n
      PROVE  m \div Scale <= n \div Scale
  BY <1>2, SMT DEF Scale
<1>. QED  BY <1>1, <1>2 DEF Entitlement

(* Nothing is owed before anything was received.                           *)
LEMMA EntitlementOfNothing ==
  ASSUME NEW bps \in Nat
  PROVE  Entitlement(0, bps) = 0
<1>1. 0 * bps = 0
  OBVIOUS
<1>2. 0 \div Scale = 0
  BY SMT DEF Scale
<1>. QED  BY <1>1, <1>2 DEF Entitlement

(* A sum of integers is an integer, and sums are monotone and additive.    *)
LEMMA SlotSumType ==
  ASSUME NEW f \in [Slots -> Int]
  PROVE  SlotSum(f) \in Int
BY SMT DEF SlotSum, Slots, MaxRecipients

LEMMA SlotSumMonotone ==
  ASSUME NEW f \in [Slots -> Int], NEW g \in [Slots -> Int],
         \A i \in Slots : f[i] <= g[i]
  PROVE  SlotSum(f) <= SlotSum(g)
BY SMT DEF SlotSum, Slots, MaxRecipients

LEMMA SlotSumMinus ==
  ASSUME NEW f \in [Slots -> Int], NEW g \in [Slots -> Int],
         NEW h \in [Slots -> Int], \A i \in Slots : h[i] = f[i] - g[i]
  PROVE  SlotSum(h) = SlotSum(f) - SlotSum(g)
BY SMT DEF SlotSum, Slots, MaxRecipients

(* Changing one slot changes the sum by the same amount.                   *)
LEMMA SlotSumUpdate ==
  ASSUME NEW f \in [Slots -> Int], NEW g \in [Slots -> Int],
         NEW k \in Slots, \A i \in Slots : i # k => g[i] = f[i]
  PROVE  SlotSum(g) = SlotSum(f) + (g[k] - f[k])
<1>1. k \in {1, 2, 3, 4, 5, 6, 7, 8} /\ Slots = {1, 2, 3, 4, 5, 6, 7, 8}
  BY DEF Slots, MaxRecipients
<1>2. \A i \in {1, 2, 3, 4, 5, 6, 7, 8} :
        f[i] \in Int /\ g[i] \in Int /\ (i # k => g[i] = f[i])
  BY <1>1
<1>3. CASE k = 1  BY <1>2, <1>3 DEF SlotSum
<1>4. CASE k = 2  BY <1>2, <1>4 DEF SlotSum
<1>5. CASE k = 3  BY <1>2, <1>5 DEF SlotSum
<1>6. CASE k = 4  BY <1>2, <1>6 DEF SlotSum
<1>7. CASE k = 5  BY <1>2, <1>7 DEF SlotSum
<1>8. CASE k = 6  BY <1>2, <1>8 DEF SlotSum
<1>9. CASE k = 7  BY <1>2, <1>9 DEF SlotSum
<1>10. CASE k = 8  BY <1>2, <1>10 DEF SlotSum
<1>. QED  BY <1>1, <1>3, <1>4, <1>5, <1>6, <1>7, <1>8, <1>9, <1>10

(* What an entry of a share list is.                                       *)
LEMMA ShareEntry ==
  ASSUME NEW list \in Seq(Share), NEW i \in DOMAIN list
  PROVE  list[i].bps \in Nat /\ list[i].id \in XIds \cup {None}
<1>1. i \in 1 .. Len(list)
  OBVIOUS
<1>2. list[i] \in Share
  BY <1>1
<1>. QED  BY <1>2 DEF Share

(* In a valid list a recipient has one entry, and Bps finds it.            *)
LEMMA BpsOfEntry ==
  ASSUME NEW list \in Seq(Share), ValidShares(list), NEW i \in DOMAIN list
  PROVE  Bps(list, list[i].id) = list[i].bps
<1> DEFINE x == list[i].id
           Entry(j) == list[j].id = x /\ \A l \in 1 .. j - 1 : list[l].id # x
<1>1. \A j \in DOMAIN list : list[j].id = x => j = i
  BY DEF ValidShares
<1>2. DOMAIN list = 1 .. Len(list) /\ Len(list) \in Nat
  OBVIOUS
<1>3. Entry(i)
  <2>. SUFFICES ASSUME NEW l \in 1 .. i - 1, list[l].id = x
                PROVE  FALSE
    OBVIOUS
  <2>1. l \in DOMAIN list /\ l # i
    BY <1>2
  <2>. QED  BY <2>1, <1>1
<1>4. (CHOOSE j \in DOMAIN list : Entry(j)) = i
  BY <1>1, <1>3
<1>. QED  BY <1>4 DEF Bps

LEMMA BpsType ==
  ASSUME NEW list \in Seq(Share), ValidShares(list),
         NEW x \in Recipients(list)
  PROVE  Bps(list, x) \in Nat
<1>1. PICK i \in DOMAIN list : list[i].id = x
  BY DEF Recipients
<1>2. list[i].bps \in Nat
  BY ShareEntry
<1>. QED  BY <1>1, <1>2, BpsOfEntry

(* Eight multiples of eight parts of a whole add up to the whole's multiple. *)
LEMMA Distribute ==
  ASSUME NEW t \in Nat, NEW f \in [Slots -> Nat]
  PROVE  SlotSum([i \in Slots |-> t * f[i]]) = t * SlotSum(f)
<1>. /\ f[1] \in Nat /\ f[2] \in Nat /\ f[3] \in Nat /\ f[4] \in Nat
     /\ f[5] \in Nat /\ f[6] \in Nat /\ f[7] \in Nat /\ f[8] \in Nat
     /\ {1, 2, 3, 4, 5, 6, 7, 8} \subseteq Slots
  BY DEF Slots, MaxRecipients
<1>. DEFINE g == [i \in Slots |-> t * f[i]]
<1>1. /\ g[1] = t * f[1] /\ g[2] = t * f[2] /\ g[3] = t * f[3]
      /\ g[4] = t * f[4] /\ g[5] = t * f[5] /\ g[6] = t * f[6]
      /\ g[7] = t * f[7] /\ g[8] = t * f[8]
  OBVIOUS
<1>2. ASSUME NEW a \in Nat, NEW b \in Nat, NEW c \in Nat, NEW d \in Nat,
             NEW e \in Nat, NEW h \in Nat, NEW k \in Nat, NEW l \in Nat
      PROVE  t*a + t*b + t*c + t*d + t*e + t*h + t*k + t*l
               = t * (a + b + c + d + e + h + k + l)
  BY SMT
<1>. QED  BY <1>1, <1>2 DEF SlotSum

(* The floors of the shares of a valid list never exceed the whole.        *)
LEMMA FloorsFitWhole ==
  ASSUME NEW list \in Seq(Share), ValidShares(list), NEW total \in Nat
  PROVE  SlotSum([i \in Slots |-> IF i \in DOMAIN list
                                    THEN Entitlement(total, list[i].bps)
                                    ELSE 0]) <= total
<1>. DEFINE b == SlotBps(list)
            e == [i \in Slots |-> IF i \in DOMAIN list
                                    THEN Entitlement(total, list[i].bps)
                                    ELSE 0]
            exact == [i \in Slots |-> total * b[i]]
            scaled == [i \in Slots |-> Scale * e[i]]
<1>1. b \in [Slots -> Nat]
  BY ShareEntry DEF SlotBps
<1>2. \A i \in Slots : e[i] \in Nat /\ Scale * e[i] <= total * b[i]
  <2>. TAKE i \in Slots
  <2>1. CASE i \in DOMAIN list
    <3>1. list[i].bps \in Nat
      BY <2>1, ShareEntry
    <3>. QED  BY <2>1, <3>1, EntitlementType DEF SlotBps
  <2>2. CASE i \notin DOMAIN list
    BY <2>2 DEF SlotBps, Scale
  <2>. QED  BY <2>1, <2>2
<1>3. e \in [Slots -> Nat]
  BY <1>2
<1>4. Scale \in Nat
  BY DEF Scale
<1>5. exact \in [Slots -> Int] /\ scaled \in [Slots -> Int]
  <2>1. \A i \in Slots : total * b[i] \in Int /\ Scale * e[i] \in Int
    BY <1>1, <1>3, <1>4
  <2>. QED  BY <2>1
<1>6. SlotSum(scaled) <= SlotSum(exact)
  <2>. HIDE DEF e, b
  <2>1. \A i \in Slots : scaled[i] <= exact[i]
    BY <1>2
  <2>. HIDE DEF scaled, exact
  <2>. QED  BY <2>1, <1>5, SlotSumMonotone
<1>7. SlotSum(scaled) = Scale * SlotSum(e)
  <2>. HIDE DEF e
  <2>. QED  BY <1>3, <1>4, Distribute
<1>8. SlotSum(exact) = total * SlotSum(b)
  <2>. HIDE DEF b
  <2>. QED  BY <1>1, Distribute
<1>9. SlotSum(b) = Scale
  BY DEF ValidShares
<1>10. SlotSum(e) \in Int
  <2>. HIDE DEF e
  <2>. QED  BY <1>3, SlotSumType
<1>11. Scale * SlotSum(e) <= total * Scale
  BY <1>6, <1>7, <1>8, <1>9
<1>12. ASSUME NEW n \in Int, Scale * n <= total * Scale
       PROVE  n <= total
  BY <1>12, SMT DEF Scale
<1>. QED  BY <1>10, <1>11, <1>12

(* What the recipients of a valid list hold, slot by slot.                 *)
LEMMA RecipientIds ==
  ASSUME NEW list \in Seq(Share), ValidShares(list)
  PROVE  /\ \A i \in DOMAIN list : list[i].id \in XIds
         /\ Recipients(list) \subseteq XIds
         /\ DOMAIN list \subseteq Slots
<1>1. \A i \in DOMAIN list : list[i].id \in XIds
  BY ShareEntry DEF ValidShares
<1>2. DOMAIN list = 1 .. Len(list) /\ Len(list) \in Slots
  BY DEF ValidShares
<1>3. DOMAIN list \subseteq Slots
  BY <1>2 DEF Slots, MaxRecipients
<1>. QED  BY <1>1, <1>3 DEF Recipients

LEMMA PerSlotType ==
  ASSUME NEW list \in Seq(Share), ValidShares(list), NEW val \in [XIds -> Nat]
  PROVE  PerSlot(list, val) \in [Slots -> Nat]
BY RecipientIds DEF PerSlot

(* Paying one recipient changes the total by what it was paid: no list     *)
(* counts a recipient twice.                                               *)
LEMMA PerSlotUpdate ==
  ASSUME NEW list \in Seq(Share), ValidShares(list),
         NEW val \in [XIds -> Nat], NEW x \in Recipients(list), NEW n \in Nat
  PROVE  SlotSum(PerSlot(list, [val EXCEPT ![x] = n]))
           = SlotSum(PerSlot(list, val)) + (n - val[x])
<1>. DEFINE new == [val EXCEPT ![x] = n]
            f == PerSlot(list, val)
            g == PerSlot(list, new)
<1>1. PICK k \in DOMAIN list : list[k].id = x
  BY DEF Recipients
<1>2. k \in Slots /\ x \in XIds
  BY <1>1, RecipientIds
<1>3. new \in [XIds -> Nat]
  BY <1>2
<1>4. f \in [Slots -> Nat] /\ g \in [Slots -> Nat]
  <2>. HIDE DEF new
  <2>. QED  BY <1>3, PerSlotType
<1>5. \A i \in Slots : i # k => g[i] = f[i]
  <2>. SUFFICES ASSUME NEW i \in Slots, i # k
                PROVE  g[i] = f[i]
    OBVIOUS
  <2>1. CASE i \in DOMAIN list
    <3>1. list[i].id # x /\ list[i].id \in XIds
      BY <1>1, <2>1, RecipientIds DEF ValidShares
    <3>. QED  BY <2>1, <3>1 DEF PerSlot
  <2>2. CASE i \notin DOMAIN list
    BY <2>2 DEF PerSlot
  <2>. QED  BY <2>1, <2>2
<1>6. f[k] = val[x] /\ g[k] = n
  <2>1. f[k] = val[list[k].id] /\ g[k] = new[list[k].id]
    BY <1>2 DEF PerSlot
  <2>. QED  BY <1>1, <1>2, <2>1
<1>. HIDE DEF f, g
<1>7. SlotSum(g) = SlotSum(f) + (g[k] - f[k])
  <2>1. f \in [Slots -> Int] /\ g \in [Slots -> Int]
    BY <1>4
  <2>. QED  BY <1>2, <1>5, <2>1, SlotSumUpdate
<1>. QED  BY <1>6, <1>7 DEF f, g

(* Where nothing was paid, or nobody is listed, the total is zero.         *)
LEMMA NothingPaid ==
  ASSUME NEW list, NEW val,
         \A i \in Slots : i \in DOMAIN list => val[list[i].id] = 0
  PROVE  SlotSum(PerSlot(list, val)) = 0
<1>1. \A i \in Slots : PerSlot(list, val)[i] = 0
  BY DEF PerSlot
<1>2. {1, 2, 3, 4, 5, 6, 7, 8} \subseteq Slots
  BY DEF Slots, MaxRecipients
<1>. QED  BY <1>1, <1>2 DEF SlotSum

-----------------------------------------------------------------------------
(* Sums over the recipients of a list, and what rounding leaves behind *)

(* A valid list counts every recipient once: a sum over its recipients is  *)
(* one over its slots.                                                     *)
LEMMA RecipientsSum ==
  ASSUME NEW list \in Seq(Share), ValidShares(list),
         NEW val, \A x \in Recipients(list) : val[x] \in Int
  PROVE  /\ IsFiniteSet(Recipients(list))
         /\ SumFunctionOnSet(val, Recipients(list)) = SlotSum(PerSlot(list, val))
<1>. DEFINE R(k) == {list[i].id : i \in {j \in DOMAIN list : j <= k}}
            Sum(S) == SumFunctionOnSet(val, S)
            f == PerSlot(list, val)
<1>1. DOMAIN list = 1 .. Len(list) /\ Len(list) \in 1 .. 8
  BY DEF ValidShares, Slots, MaxRecipients
<1>2. R(0) = {} /\ R(8) = Recipients(list)
  BY <1>1 DEF Recipients
<1>3. \A k \in 0 .. 8 : R(k) \subseteq Recipients(list)
  BY DEF Recipients
<1>4. ASSUME NEW k \in 0 .. 7, IsFiniteSet(R(k))
      PROVE  /\ IsFiniteSet(R(k + 1))
             /\ Sum(R(k + 1)) = f[k + 1] + Sum(R(k))
             /\ f[k + 1] \in Int /\ Sum(R(k)) \in Int
  <2>1. k + 1 \in Slots /\ k + 1 \in 0 .. 8
    BY DEF Slots, MaxRecipients
  <2>2. Sum(R(k)) \in Int
    <3>1. \A x \in R(k) : val[x] \in Int
      BY <1>3
    <3>. HIDE DEF R
    <3>. QED  BY <1>4, <3>1, SumInteger
  <2>3. CASE k + 1 \in DOMAIN list
    <3>. DEFINE x == list[k + 1].id
    <3>1. R(k + 1) = R(k) \cup {x}
      BY <1>1, <2>3
    <3>2. x \notin R(k)
      <4>. SUFFICES ASSUME NEW i \in DOMAIN list, i <= k, list[i].id = x PROVE FALSE
        OBVIOUS
      <4>1. i = k + 1
        BY <2>3 DEF ValidShares
      <4>. QED  BY <4>1
    <3>3. \A y \in R(k) \cup {x} : val[y] \in Int
      BY <1>3, <2>1, <3>1
    <3>4. f[k + 1] = val[x] /\ val[x] \in Int
      BY <2>1, <2>3, <3>3 DEF PerSlot
    <3>. HIDE DEF R, x, f
    <3>5. IsFiniteSet(R(k) \cup {x})
      BY <1>4, FS_AddElement
    <3>6. Sum(R(k) \cup {x}) = val[x] + Sum(R(k))
      BY <1>4, <3>2, <3>3, SumInsert
    <3>. QED  BY <2>2, <3>1, <3>4, <3>5, <3>6
  <2>4. CASE k + 1 \notin DOMAIN list
    <3>1. R(k + 1) = R(k)
      BY <1>1, <2>4
    <3>2. f[k + 1] = 0
      BY <2>1, <2>4 DEF PerSlot
    <3>. HIDE DEF R, f, Sum
    <3>. QED  BY <1>4, <2>2, <3>1, <3>2
  <2>. QED  BY <2>3, <2>4
<1>5. IsFiniteSet(R(0)) /\ Sum(R(0)) = 0
  BY <1>2, FS_EmptySet, SumEmpty
<1>. HIDE DEF R, f, Sum
<1>6. IsFiniteSet(R(1)) /\ Sum(R(1)) = f[1] /\ f[1] \in Int
  <2>1. 0 \in 0 .. 7 /\ 0 + 1 = 1
    OBVIOUS
  <2>2. IsFiniteSet(R(0 + 1)) /\ Sum(R(0 + 1)) = f[0 + 1] + Sum(R(0)) /\ f[0 + 1] \in Int
    BY <1>4, <1>5, <2>1
  <2>3. IsFiniteSet(R(1)) /\ Sum(R(1)) = f[1] + Sum(R(0)) /\ f[1] \in Int
    BY <2>1, <2>2
  <2>. QED  BY <1>5, <2>3
<1>7. IsFiniteSet(R(2)) /\ Sum(R(2)) = f[2] + Sum(R(1)) /\ f[2] \in Int
  BY <1>4, <1>6
<1>8. IsFiniteSet(R(3)) /\ Sum(R(3)) = f[3] + Sum(R(2)) /\ f[3] \in Int
  BY <1>4, <1>7
<1>9. IsFiniteSet(R(4)) /\ Sum(R(4)) = f[4] + Sum(R(3)) /\ f[4] \in Int
  BY <1>4, <1>8
<1>10. IsFiniteSet(R(5)) /\ Sum(R(5)) = f[5] + Sum(R(4)) /\ f[5] \in Int
  BY <1>4, <1>9
<1>11. IsFiniteSet(R(6)) /\ Sum(R(6)) = f[6] + Sum(R(5)) /\ f[6] \in Int
  BY <1>4, <1>10
<1>12. IsFiniteSet(R(7)) /\ Sum(R(7)) = f[7] + Sum(R(6)) /\ f[7] \in Int
  BY <1>4, <1>11
<1>13. IsFiniteSet(R(8)) /\ Sum(R(8)) = f[8] + Sum(R(7)) /\ f[8] \in Int
  BY <1>4, <1>12
<1>14. Sum(R(8)) = SlotSum(f)
  <2>1. Sum(R(4)) = f[1] + f[2] + f[3] + f[4]
    BY <1>6, <1>7, <1>8, <1>9
  <2>2. Sum(R(8)) = Sum(R(4)) + f[5] + f[6] + f[7] + f[8]
    <3>1. Sum(R(4)) \in Int
      BY <1>6, <1>7, <1>8, <1>9, <2>1
    <3>. QED  BY <1>10, <1>11, <1>12, <1>13, <3>1
  <2>. QED  BY <1>6, <1>7, <1>8, <1>9, <1>10, <1>11, <1>12, <1>13, <2>1, <2>2 DEF SlotSum
<1>15. Recipients(list) = R(8)
  BY <1>2
<1>16. IsFiniteSet(Recipients(list)) /\ Sum(Recipients(list)) = SlotSum(f)
  BY <1>13, <1>14, <1>15
<1>. QED  BY <1>16 DEF f, Sum

LEMMA RecipientsCount ==
  ASSUME NEW list \in Seq(Share), ValidShares(list)
  PROVE  Cardinality(Recipients(list)) = Len(list)
<1>. DEFINE M == [i \in 1 .. Len(list) |-> list[i].id]
<1>1. DOMAIN list = 1 .. Len(list) /\ Len(list) \in Nat
  OBVIOUS
<1>2. M \in Bijection(1 .. Len(list), Recipients(list))
  <2>1. M \in [1 .. Len(list) -> Recipients(list)]
    BY <1>1 DEF Recipients
  <2>2. \A i, j \in DOMAIN M : M[i] = M[j] => i = j
    BY <1>1 DEF ValidShares
  <2>3. \A x \in Recipients(list) : \E i \in 1 .. Len(list) : M[i] = x
    BY <1>1 DEF Recipients
  <2>. HIDE DEF M
  <2>4. M \in Injection(1 .. Len(list), Recipients(list))
    BY <2>1, <2>2 DEF Injection, IsInjective
  <2>5. M \in Surjection(1 .. Len(list), Recipients(list))
    BY <2>1, <2>3 DEF Surjection
  <2>. QED  BY <2>4, <2>5 DEF Bijection
<1>3. ExistsBijection(1 .. Len(list), Recipients(list))
  BY <1>2 DEF ExistsBijection
<1>4. IsFiniteSet(1 .. Len(list)) /\ Cardinality(1 .. Len(list)) = Len(list)
  BY <1>1, FS_Interval
<1>. QED  BY <1>3, <1>4, FS_Bijection

(* The floors of the shares miss less than one unit for each recipient.    *)
LEMMA EntitlementMissesLessThanOne ==
  ASSUME NEW total \in Nat, NEW bps \in Nat
  PROVE  total * bps - (Scale - 1) <= Scale * Entitlement(total, bps)
<1>1. total * bps \in Nat
  OBVIOUS
<1>2. ASSUME NEW n \in Nat
      PROVE  n - (Scale - 1) <= Scale * (n \div Scale)
  BY SMT DEF Scale
<1>. QED  BY <1>1, <1>2 DEF Entitlement

LEMMA FloorsMissLess ==
  ASSUME NEW list \in Seq(Share), ValidShares(list), NEW total \in Nat
  PROVE  total - Len(list) < SlotSum([i \in Slots |-> IF i \in DOMAIN list
                                        THEN Entitlement(total, list[i].bps)
                                        ELSE 0])
<1>. DEFINE n == Len(list)
            b == SlotBps(list)
            e == [i \in Slots |-> IF i \in DOMAIN list
                                    THEN Entitlement(total, list[i].bps)
                                    ELSE 0]
            one == [i \in Slots |-> IF i \in 1 .. n THEN 1 ELSE 0]
            exact == [i \in Slots |-> total * b[i]]
            scaled == [i \in Slots |-> Scale * e[i]]
            slack == [i \in Slots |-> (Scale - 1) * one[i]]
            least == [i \in Slots |-> exact[i] - slack[i]]
<1>0. n \in 1 .. 8 /\ DOMAIN list = 1 .. n
  BY DEF ValidShares, Slots, MaxRecipients
<1>1. b \in [Slots -> Nat]
  BY ShareEntry DEF SlotBps
<1>2. \A i \in Slots : e[i] \in Nat /\ total * b[i] - (Scale - 1) * one[i] <= Scale * e[i]
  <2>. TAKE i \in Slots
  <2>1. CASE i \in DOMAIN list
    <3>1. list[i].bps \in Nat
      BY <2>1, ShareEntry
    <3>2. e[i] = Entitlement(total, list[i].bps) /\ b[i] = list[i].bps /\ one[i] = 1
      BY <1>0, <2>1 DEF SlotBps
    <3>3. (Scale - 1) * 1 = Scale - 1
      BY DEF Scale
    <3>. QED  BY <3>1, <3>2, <3>3, EntitlementType, EntitlementMissesLessThanOne
  <2>2. CASE i \notin DOMAIN list
    <3>1. e[i] = 0 /\ b[i] = 0 /\ one[i] = 0
      BY <1>0, <2>2 DEF SlotBps
    <3>. QED  BY <3>1 DEF Scale
  <2>. QED  BY <2>1, <2>2
<1>3. e \in [Slots -> Nat] /\ one \in [Slots -> Nat]
  BY <1>2
<1>4. Scale \in Nat /\ Scale - 1 \in Nat
  BY DEF Scale
<1>5. /\ exact \in [Slots -> Int] /\ scaled \in [Slots -> Int]
      /\ slack \in [Slots -> Int] /\ least \in [Slots -> Int]
  <2>1. \A i \in Slots : total * b[i] \in Int /\ Scale * e[i] \in Int
                         /\ (Scale - 1) * one[i] \in Int
    BY <1>1, <1>3, <1>4
  <2>. QED  BY <2>1
<1>6. SlotSum(least) <= SlotSum(scaled)
  <2>1. \A i \in Slots : least[i] <= scaled[i]
    <3>. HIDE DEF e, b, one
    <3>. QED  BY <1>2
  <2>. HIDE DEF scaled, least
  <2>. QED  BY <2>1, <1>5, SlotSumMonotone
<1>7. SlotSum(least) = SlotSum(exact) - SlotSum(slack)
  <2>1. \A i \in Slots : least[i] = exact[i] - slack[i]
    OBVIOUS
  <2>. HIDE DEF exact, slack, least
  <2>. QED  BY <1>5, <2>1, SlotSumMinus
<1>8. SlotSum(scaled) = Scale * SlotSum(e)
  <2>. HIDE DEF e
  <2>. QED  BY <1>3, <1>4, Distribute
<1>9. SlotSum(exact) = total * SlotSum(b)
  <2>. HIDE DEF b
  <2>. QED  BY <1>1, Distribute
<1>10. SlotSum(slack) = (Scale - 1) * SlotSum(one)
  <2>. HIDE DEF one
  <2>. QED  BY <1>3, <1>4, Distribute
<1>11. SlotSum(b) = Scale
  BY DEF ValidShares
<1>12. SlotSum(one) = n
  <2>. HIDE DEF n
  <2>1. /\ one[1] = 1 /\ one[2] = (IF n >= 2 THEN 1 ELSE 0)
        /\ one[3] = (IF n >= 3 THEN 1 ELSE 0) /\ one[4] = (IF n >= 4 THEN 1 ELSE 0)
        /\ one[5] = (IF n >= 5 THEN 1 ELSE 0) /\ one[6] = (IF n >= 6 THEN 1 ELSE 0)
        /\ one[7] = (IF n >= 7 THEN 1 ELSE 0) /\ one[8] = (IF n >= 8 THEN 1 ELSE 0)
    BY <1>0 DEF Slots, MaxRecipients
  <2>. HIDE DEF one
  <2>. QED  BY <1>0, <2>1 DEF SlotSum
<1>13. SlotSum(e) \in Int
  <2>. HIDE DEF e
  <2>. QED  BY <1>3, SlotSumType
<1>14. total * Scale - (Scale - 1) * n <= Scale * SlotSum(e)
  BY <1>6, <1>7, <1>8, <1>9, <1>10, <1>11, <1>12
<1>15. ASSUME NEW k \in Int, total * Scale - (Scale - 1) * n <= Scale * k
       PROVE  total - n < k
  <2>. HIDE DEF n
  <2>. QED  BY <1>0, <1>15, SMT DEF Scale
<1>. QED  BY <1>13, <1>14, <1>15

-----------------------------------------------------------------------------
(* Types *)

(* Every allocation holds a share list the program validated.              *)
AllocationsValid == \A p \in Pools : Allocated(p) => ValidShares(shares[p])

TypeInv == TypeOK /\ AllocationsValid

(* The steps that touch the accounts, and what the others leave alone.     *)
LEMMA StepKinds ==
  ASSUME [Next]_vars
  PROVE  \/ \E p \in Pools, w \in Wallets, list \in ShareLists :
              InitializeAllocation(p, w, list)
         \/ \E p \in Pools, venue \in {"dbc", "damm"},
              amount \in [Side -> Amounts] : CollectFees(p, venue, amount)
         \/ \E m \in signed : Claim(m)
         \/ \E p \in Pools, s \in Side, a \in Amounts : Donate(p, s, a)
         \/ UNCHANGED <<shares, received, vault, claimed, bound, receipts,
                        donated>>
BY DEF Next, vars, InitializeConfig, InitializeControl, SetPaused,
       RotateVerifier, Sign, TransferCreator, Graduate, Tick, adminVars,
       poolVars, payVars, envVars, history

LEMMA StoredList ==
  ASSUME TypeInv, NEW p \in Pools, Allocated(p)
  PROVE  shares[p] \in Seq(Share) /\ ValidShares(shares[p])
BY EscrowAssumption DEF TypeInv, TypeOK, AllocationsValid, Allocated

LEMMA AuthorizationFields ==
  ASSUME TypeOK, NEW m \in signed
  PROVE  /\ m.pool \in Pools /\ m.side \in Side /\ m.xid \in XIds
         /\ m.wallet \in Wallets /\ m.limit \in Nat /\ m.nonce \in Nonces
         /\ m.epoch \in Nat /\ m \in Authorization
BY EscrowAssumption DEF TypeOK, Authorization

(* What a claim pays: more than before, at most the share and the limit.   *)
LEMMA ClaimPays ==
  ASSUME TypeInv, NEW m \in signed, Claim(m)
  PROVE  /\ Due(m) \in Nat
         /\ claimed[m.pool][m.side][m.xid] \in Nat
         /\ Owed(m) \in Nat \ {0}
         /\ Due(m) <= EntitlementOf(m.pool, m.side, m.xid)
         /\ Due(m) <= m.limit
         /\ Owed(m) <= vault[m.pool][m.side]
<1>. DEFINE e == EntitlementOf(m.pool, m.side, m.xid)
            c == claimed[m.pool][m.side][m.xid]
<1>1. Bps(shares[m.pool], m.xid) \in Nat
  BY StoredList, AuthorizationFields, BpsType DEF TypeInv, Claim
<1>2. received[m.pool][m.side] \in Nat /\ c \in Nat
  BY AuthorizationFields, EscrowAssumption DEF TypeInv, TypeOK
<1>3. e \in Nat
  BY <1>1, <1>2, EntitlementType DEF EntitlementOf
<1>4. Due(m) = Lesser(e, m.limit) /\ m.limit \in Nat
  BY AuthorizationFields DEF Due, EntitlementOf, TypeInv
<1>5. Due(m) \in Nat /\ Due(m) <= e /\ Due(m) <= m.limit
  <2>. HIDE DEF e
  <2>. QED  BY <1>3, <1>4 DEF Lesser
<1>6. Owed(m) = Due(m) - c /\ Owed(m) > 0 /\ Owed(m) <= vault[m.pool][m.side]
  BY AuthorizationFields, EscrowAssumption DEF Claim, Owed, TypeInv, TypeOK
<1>. HIDE DEF c, e
<1>7. Owed(m) \in Nat \ {0}
  BY <1>2, <1>5, <1>6
<1>. QED  BY <1>2, <1>5, <1>6, <1>7 DEF c, e

(* The state always has its type, and every stored list was validated.     *)
THEOREM TypeCorrect == Spec => []TypeInv
<1>1. Init => TypeInv
  BY EscrowAssumption DEF Init, TypeInv, TypeOK, AllocationsValid, Allocated,
     Side
<1>2. TypeInv /\ [Next]_vars => TypeInv'
  <2>. SUFFICES ASSUME TypeInv, [Next]_vars
                PROVE  TypeOK' /\ AllocationsValid'
    BY DEF TypeInv
  <2>. USE EscrowAssumption DEF TypeInv, TypeOK, AllocationsValid, Allocated,
         adminVars, poolVars, payVars, envVars, history
  <2>1. ASSUME NEW k \in Keys, InitializeConfig(k)
        PROVE  TypeOK' /\ AllocationsValid'
    BY <2>1 DEF InitializeConfig
  <2>2. ASSUME NEW k \in Keys, RotateVerifier(k)
        PROVE  TypeOK' /\ AllocationsValid'
    <3>1. control.epoch \in 0 .. MaxEpoch /\ control.paused \in BOOLEAN
      OBVIOUS
    <3>2. control.epoch + 1 \in 0 .. MaxEpoch
      BY <2>2, <3>1 DEF RotateVerifier, NextEpoch
    <3>3. control' \in [paused : BOOLEAN, epoch : 0 .. MaxEpoch]
      BY <2>2, <3>1, <3>2 DEF RotateVerifier, NextEpoch
    <3>. QED  BY <2>2, <3>3 DEF RotateVerifier
  <2>3. CASE InitializeControl
    BY <2>3 DEF InitializeControl
  <2>4. ASSUME NEW flag \in BOOLEAN, SetPaused(flag)
        PROVE  TypeOK' /\ AllocationsValid'
    BY <2>4 DEF SetPaused
  <2>5. ASSUME NEW p \in Pools, NEW w \in Wallets, NEW list \in ShareLists,
               InitializeAllocation(p, w, list)
        PROVE  TypeOK' /\ AllocationsValid'
    BY <2>5 DEF InitializeAllocation
  <2>6. ASSUME NEW p \in Pools, NEW venue \in {"dbc", "damm"},
               NEW amount \in [Side -> Amounts], CollectFees(p, venue, amount)
        PROVE  TypeOK' /\ AllocationsValid'
    <3>1. \A s \in Side : /\ received[p][s] + amount[s] \in 0 .. MaxAmount
                          /\ vault[p][s] + amount[s] \in 0 .. MaxAmount
      <4>. TAKE s \in Side
      <4>1. amount[s] \in Amounts
        OBVIOUS
      <4>2. received[p] \in [Side -> 0 .. MaxAmount] /\ vault[p] \in [Side -> 0 .. MaxAmount]
        OBVIOUS
      <4>3. amount[s] \in Nat
        BY <4>1, Amounts \subseteq Nat
      <4>4. received[p][s] \in 0 .. MaxAmount /\ vault[p][s] \in 0 .. MaxAmount
        BY <4>2
      <4>5. /\ received[p][s] + amount[s] <= MaxAmount
            /\ vault[p][s] + amount[s] <= MaxAmount
        BY <2>6 DEF CollectFees, Fits
      <4>. QED  BY <4>3, <4>4, <4>5
    <3>. QED  BY <2>6, <3>1 DEF CollectFees
  <2>7. ASSUME NEW m \in signed, Claim(m)
        PROVE  TypeOK' /\ AllocationsValid'
    <3>. DEFINE receipt == [pool |-> m.pool, side |-> m.side,
                            wallet |-> m.wallet, amount |-> Owed(m),
                            auth |-> m]
    <3>1. Due(m) \in Nat /\ Owed(m) \in Nat /\ Owed(m) <= vault[m.pool][m.side]
      BY <2>7, ClaimPays
    <3>2. /\ m.pool \in Pools /\ m.side \in Side /\ m.xid \in XIds
          /\ m.wallet \in Wallets /\ m.nonce \in Nonces /\ m \in Authorization
      BY AuthorizationFields
    <3>3. receipt \in Receipt
      BY <3>1, <3>2 DEF Receipt
    <3>4. vault[m.pool][m.side] - Owed(m) \in 0 .. MaxAmount
      BY <3>1, <3>2
    <3>. HIDE DEF receipt
    <3>5. receipts' = [receipts EXCEPT ![m.nonce] = receipt]
      BY <2>7 DEF Claim, receipt
    <3>6. bound' \in [XIds -> Wallets \cup {None}]
      BY <2>7, <3>2 DEF Claim
    <3>7. vault' \in [Pools -> [Side -> 0 .. MaxAmount]]
      BY <2>7, <3>2, <3>4 DEF Claim
    <3>8. claimed' \in [Pools -> [Side -> [XIds -> Nat]]]
      BY <2>7, <3>1, <3>2 DEF Claim
    <3>9. receipts' \in [Nonces -> Receipt \cup {None}]
      BY <3>2, <3>3, <3>5
    <3>. QED  BY <2>7, <3>6, <3>7, <3>8, <3>9 DEF Claim
  <2>8. ASSUME NEW p \in Pools, NEW s \in Side, NEW x \in XIds,
               NEW w \in Wallets, NEW limit \in Limits, NEW n \in Nonces,
               NEW at \in 0 .. MaxTime, NEW life \in Lifetimes,
               NEW e \in 1 .. MaxEpoch, NEW k \in ValidKeys,
               Sign(p, s, x, w, limit, n, at, life, e, k)
        PROVE  TypeOK' /\ AllocationsValid'
    <3>. DEFINE m == [pool |-> p, side |-> s, xid |-> x, wallet |-> w,
                      limit |-> limit, nonce |-> n, issued |-> at,
                      expires |-> at + life, epoch |-> e, key |-> k]
    <3>1. m \in Authorization
      <4>1. at \in Nat /\ at + life \in Int /\ e \in Nat /\ k \in Keys
        BY EscrowAssumption
      <4>. QED  BY <4>1 DEF Authorization
    <3>2. signed' = signed \cup {m}
      BY <2>8 DEF Sign
    <3>. HIDE DEF m
    <3>3. signed' \subseteq Authorization /\ revoked \subseteq signed'
      BY <3>1, <3>2
    <3>. QED  BY <2>8, <3>3 DEF Sign
  <2>9. ASSUME NEW p \in Pools, NEW w \in Wallets, TransferCreator(p, w)
        PROVE  TypeOK' /\ AllocationsValid'
    BY <2>9 DEF TransferCreator
  <2>10. ASSUME NEW p \in Pools, Graduate(p)
         PROVE  TypeOK' /\ AllocationsValid'
    BY <2>10 DEF Graduate
  <2>11. ASSUME NEW p \in Pools, NEW s \in Side, NEW a \in Amounts,
                Donate(p, s, a)
         PROVE  TypeOK' /\ AllocationsValid'
    <3>1. /\ vault[p][s] + a \in 0 .. MaxAmount
          /\ donated[p][s] + a \in Nat
      BY <2>11 DEF Donate
    <3>. QED  BY <2>11, <3>1 DEF Donate
  <2>12. CASE Tick
    BY <2>12 DEF Tick
  <2>13. CASE UNCHANGED vars
    BY <2>13 DEF vars
  <2>. QED  BY <2>1, <2>2, <2>3, <2>4, <2>5, <2>6, <2>7, <2>8, <2>9, <2>10,
               <2>11, <2>12, <2>13 DEF Next
<1>. QED  BY <1>1, <1>2, PTL DEF Spec

-----------------------------------------------------------------------------
(* The books of the escrow: an account nobody allocated is empty, no one   *)
(* is overpaid, and every vault holds what its ledgers say. The first part *)
(* makes the other two inductive: it is what a new allocation starts from. *)
Untouched ==
  \A p \in Pools : ~Allocated(p) =>
    \A s \in Side : received[p][s] = 0 /\ \A x \in XIds : claimed[p][s][x] = 0

Books == Untouched /\ NoOverpayment /\ Conservation

LEMMA Amounts0 ==
  ASSUME TypeInv, NEW p \in Pools, NEW s \in Side
  PROVE  /\ received[p][s] \in Nat /\ vault[p][s] \in Nat
         /\ donated[p][s] \in Nat /\ claimed[p][s] \in [XIds -> Nat]
BY EscrowAssumption DEF TypeInv, TypeOK

LEMMA EntitlementOfType ==
  ASSUME TypeInv, NEW p \in Pools, Allocated(p), NEW s \in Side,
         NEW x \in Recipients(shares[p])
  PROVE  EntitlementOf(p, s, x) \in Nat /\ Bps(shares[p], x) \in Nat
<1>1. Bps(shares[p], x) \in Nat
  BY StoredList, BpsType
<1>2. received[p][s] \in Nat
  BY Amounts0
<1>. QED  BY <1>1, <1>2, EntitlementType DEF EntitlementOf

LEMMA TotalClaimedType ==
  ASSUME TypeInv, NEW p \in Pools, NEW s \in Side
  PROVE  TotalClaimed(p, s) \in Int
<1>1. CASE Allocated(p)
  <2>1. PerSlot(shares[p], claimed[p][s]) \in [Slots -> Nat]
    BY <1>1, StoredList, Amounts0, PerSlotType
  <2>2. PerSlot(shares[p], claimed[p][s]) \in [Slots -> Int]
    BY <2>1
  <2>. QED  BY <2>2, SlotSumType DEF TotalClaimed
<1>2. CASE ~Allocated(p)
  BY <1>2, NothingPaid DEF TotalClaimed, Allocated
<1>. QED  BY <1>1, <1>2

LEMMA InitializeAllocationKeepsBooks ==
  ASSUME TypeInv, TypeInv', Books, NEW p \in Pools, NEW w \in Wallets,
         NEW list \in ShareLists, InitializeAllocation(p, w, list)
  PROVE  Books'
<1>1. /\ ~Allocated(p) /\ shares' = [shares EXCEPT ![p] = list]
      /\ UNCHANGED <<received, vault, claimed, donated>>
  BY DEF InitializeAllocation, payVars, history
<1>2. shares'[p] = list /\ \A q \in Pools : q # p => shares'[q] = shares[q]
  BY <1>1 DEF TypeInv, TypeOK
<1>3. ValidShares(list) /\ list \in Seq(Share) /\ Allocated(p)'
  BY <1>1, <1>2, EscrowAssumption DEF InitializeAllocation, Allocated,
     ValidShares, Slots, TypeInv, AllocationsValid
<1>4. \A s \in Side : /\ received[p][s] = 0
                      /\ \A x \in XIds : claimed[p][s][x] = 0
  BY <1>1 DEF Books, Untouched
<1>5. Untouched'
  BY <1>1, <1>2, <1>3 DEF Books, Untouched, Allocated
<1>6. NoOverpayment'
  <2>. SUFFICES ASSUME NEW q \in Pools, Allocated(q)', NEW s \in Side,
                       NEW x \in Recipients(shares'[q])
                PROVE  claimed'[q][s][x] <= EntitlementOf(q, s, x)'
    BY DEF NoOverpayment
  <2>1. CASE q = p
    <3>1. x \in XIds
      BY <1>2, <1>3, <2>1, RecipientIds
    <3>2. Bps(list, x) \in Nat /\ received[q][s] \in Nat
      BY <1>2, <1>3, <2>1, BpsType, Amounts0
    <3>3. EntitlementOf(q, s, x)' = Entitlement(received[q][s], Bps(list, x))
      BY <1>1, <1>2, <2>1 DEF EntitlementOf
    <3>4. EntitlementOf(q, s, x)' \in Nat
      BY <3>2, <3>3, EntitlementType
    <3>. QED  BY <1>1, <1>4, <2>1, <3>1, <3>4
  <2>2. CASE q # p
    BY <1>1, <1>2, <2>2 DEF Books, NoOverpayment, EntitlementOf, Allocated
  <2>. QED  BY <2>1, <2>2
<1>7. Conservation'
  <2>. SUFFICES ASSUME NEW q \in Pools, NEW s \in Side
                PROVE  vault'[q][s] = received'[q][s] + donated'[q][s]
                                        - TotalClaimed(q, s)'
    BY DEF Conservation
  <2>1. vault[q][s] = received[q][s] + donated[q][s] - TotalClaimed(q, s)
    BY DEF Books, Conservation
  <2>2. TotalClaimed(q, s)' = TotalClaimed(q, s)
    <3>1. CASE q = p
      <4>1. \A i \in DOMAIN list : list[i].id \in XIds
        BY <1>3, RecipientIds
      <4>2. SlotSum(PerSlot(list, claimed[p][s])) = 0
        BY <1>4, <4>1, NothingPaid
      <4>3. SlotSum(PerSlot(shares[p], claimed[p][s])) = 0
        BY <1>1, NothingPaid DEF Allocated
      <4>. QED  BY <1>1, <1>2, <3>1, <4>2, <4>3 DEF TotalClaimed
    <3>2. CASE q # p
      BY <1>1, <1>2, <3>2 DEF TotalClaimed
    <3>. QED  BY <3>1, <3>2
  <2>. QED  BY <1>1, <2>1, <2>2
<1>. QED  BY <1>5, <1>6, <1>7 DEF Books

LEMMA CollectFeesKeepsBooks ==
  ASSUME TypeInv, TypeInv', Books, NEW p \in Pools,
         NEW venue \in {"dbc", "damm"}, NEW amount \in [Side -> Amounts],
         CollectFees(p, venue, amount)
  PROVE  Books'
<1>1. /\ Allocated(p) /\ UNCHANGED <<shares, claimed, donated>>
      /\ \A q \in Pools, s \in Side :
           /\ received'[q][s] = received[q][s] + IF q = p THEN amount[s] ELSE 0
           /\ vault'[q][s] = vault[q][s] + IF q = p THEN amount[s] ELSE 0
  <2>1. \A q \in Pools, s \in Side : received[q][s] \in Nat /\ vault[q][s] \in Nat
    BY Amounts0
  <2>2. /\ received' = [received EXCEPT ![p] = [s \in Side |-> received[p][s] + amount[s]]]
        /\ vault' = [vault EXCEPT ![p] = [s \in Side |-> vault[p][s] + amount[s]]]
    BY DEF CollectFees
  <2>3. received \in [Pools -> [Side -> 0 .. MaxAmount]]
        /\ vault \in [Pools -> [Side -> 0 .. MaxAmount]]
    BY DEF TypeInv, TypeOK
  <2>4. \A q \in Pools, s \in Side :
           /\ received'[q][s] = received[q][s] + IF q = p THEN amount[s] ELSE 0
           /\ vault'[q][s] = vault[q][s] + IF q = p THEN amount[s] ELSE 0
    BY <2>1, <2>2, <2>3
  <2>. QED  BY <2>4 DEF CollectFees, payVars, history
<1>2. \A s \in Side : amount[s] \in Nat
  BY EscrowAssumption
<1>3. Untouched'
  BY <1>1 DEF Books, Untouched, Allocated
<1>4. NoOverpayment'
  <2>. SUFFICES ASSUME NEW q \in Pools, Allocated(q), NEW s \in Side,
                       NEW x \in Recipients(shares[q])
                PROVE  claimed[q][s][x] <= EntitlementOf(q, s, x)'
    BY <1>1 DEF NoOverpayment, Allocated
  <2>1. claimed[q][s][x] <= EntitlementOf(q, s, x)
    BY DEF Books, NoOverpayment
  <2>2. received[q][s] \in Nat /\ received'[q][s] \in Nat
        /\ received[q][s] <= received'[q][s]
    BY <1>1, <1>2, Amounts0
  <2>3. Bps(shares[q], x) \in Nat /\ EntitlementOf(q, s, x) \in Nat
    BY EntitlementOfType
  <2>4. EntitlementOf(q, s, x)' = Entitlement(received'[q][s], Bps(shares[q], x))
    BY <1>1 DEF EntitlementOf
  <2>5. EntitlementOf(q, s, x) <= EntitlementOf(q, s, x)'
    BY <2>2, <2>3, <2>4, EntitlementMonotone DEF EntitlementOf
  <2>6. EntitlementOf(q, s, x)' \in Nat
    BY <2>2, <2>3, <2>4, EntitlementType
  <2>7. claimed[q][s][x] \in Nat
    BY StoredList, RecipientIds, Amounts0
  <2>. QED  BY <2>1, <2>3, <2>5, <2>6, <2>7
<1>5. Conservation'
  <2>. SUFFICES ASSUME NEW q \in Pools, NEW s \in Side
                PROVE  vault'[q][s] = received'[q][s] + donated'[q][s]
                                        - TotalClaimed(q, s)'
    BY DEF Conservation
  <2>1. vault[q][s] = received[q][s] + donated[q][s] - TotalClaimed(q, s)
    BY DEF Books, Conservation
  <2>2. TotalClaimed(q, s)' = TotalClaimed(q, s)
    BY <1>1 DEF TotalClaimed
  <2>3. /\ TotalClaimed(q, s) \in Int /\ received[q][s] \in Nat
        /\ vault[q][s] \in Nat /\ donated[q][s] \in Nat
    BY Amounts0, TotalClaimedType
  <2>. QED  BY <1>1, <1>2, <2>1, <2>2, <2>3
<1>. QED  BY <1>3, <1>4, <1>5 DEF Books

LEMMA ClaimKeepsBooks ==
  ASSUME TypeInv, TypeInv', Books, NEW m \in signed, Claim(m)
  PROVE  Books'
<1>. DEFINE P == m.pool
            S == m.side
            X == m.xid
<1>1. P \in Pools /\ S \in Side /\ X \in XIds
  BY AuthorizationFields DEF TypeInv
<1>2. /\ Allocated(P) /\ X \in Recipients(shares[P])
      /\ UNCHANGED <<shares, received, donated>>
      /\ vault' = [vault EXCEPT ![P][S] = @ - Owed(m)]
      /\ claimed' = [claimed EXCEPT ![P][S][X] = Due(m)]
  BY DEF Claim, history
<1>3. /\ Due(m) \in Nat /\ Owed(m) \in Nat
      /\ Owed(m) = Due(m) - claimed[P][S][X]
      /\ Due(m) <= EntitlementOf(P, S, X)
  BY ClaimPays DEF Owed
<1>. HIDE DEF P, S, X
<1>4. /\ vault'[P][S] = vault[P][S] - Owed(m)
      /\ claimed'[P][S] = [claimed[P][S] EXCEPT ![X] = Due(m)]
      /\ \A q \in Pools, s \in Side : q # P \/ s # S =>
           vault'[q][s] = vault[q][s] /\ claimed'[q][s] = claimed[q][s]
  BY <1>1, <1>2 DEF TypeInv, TypeOK
<1>5. \A x \in XIds : claimed'[P][S][x] =
        IF x = X THEN Due(m) ELSE claimed[P][S][x]
  BY <1>1, <1>4, Amounts0
<1>6. Untouched'
  BY <1>1, <1>2, <1>4 DEF Books, Untouched, Allocated
<1>7. NoOverpayment'
  <2>. SUFFICES ASSUME NEW q \in Pools, Allocated(q), NEW s \in Side,
                       NEW x \in Recipients(shares[q])
                PROVE  claimed'[q][s][x] <= EntitlementOf(q, s, x)
    BY <1>2 DEF NoOverpayment, Allocated, EntitlementOf
  <2>1. claimed[q][s][x] <= EntitlementOf(q, s, x)
    BY DEF Books, NoOverpayment
  <2>2. CASE q = P /\ s = S
    <3>1. x \in XIds
      BY StoredList, RecipientIds
    <3>. QED  BY <1>3, <1>5, <2>1, <2>2, <3>1
  <2>3. CASE ~(q = P /\ s = S)
    BY <1>4, <2>1, <2>3
  <2>. QED  BY <2>2, <2>3
<1>8. Conservation'
  <2>. SUFFICES ASSUME NEW q \in Pools, NEW s \in Side
                PROVE  vault'[q][s] = received[q][s] + donated[q][s]
                                        - TotalClaimed(q, s)'
    BY <1>2 DEF Conservation
  <2>1. vault[q][s] = received[q][s] + donated[q][s] - TotalClaimed(q, s)
    BY DEF Books, Conservation
  <2>2. CASE q = P /\ s = S
    <3>1. TotalClaimed(P, S)' =
            SlotSum(PerSlot(shares[P], [claimed[P][S] EXCEPT ![X] = Due(m)]))
      BY <1>2, <1>4 DEF TotalClaimed
    <3>2. shares[P] \in Seq(Share) /\ ValidShares(shares[P])
          /\ claimed[P][S] \in [XIds -> Nat]
      BY <1>1, <1>2, StoredList, Amounts0
    <3>3. SlotSum(PerSlot(shares[P], [claimed[P][S] EXCEPT ![X] = Due(m)]))
            = SlotSum(PerSlot(shares[P], claimed[P][S]))
                + (Due(m) - claimed[P][S][X])
      BY <1>2, <1>3, <3>2, PerSlotUpdate
    <3>4. TotalClaimed(P, S)' = TotalClaimed(P, S) + (Due(m) - claimed[P][S][X])
      BY <3>1, <3>3 DEF TotalClaimed
    <3>5. /\ TotalClaimed(P, S) \in Int /\ received[P][S] \in Nat
          /\ vault[P][S] \in Nat /\ donated[P][S] \in Nat
          /\ claimed[P][S][X] \in Nat
      BY <1>1, Amounts0, TotalClaimedType
    <3>. QED  BY <1>3, <1>4, <2>1, <2>2, <3>4, <3>5
  <2>3. CASE ~(q = P /\ s = S)
    BY <1>2, <1>4, <2>1, <2>3 DEF TotalClaimed
  <2>. QED  BY <2>2, <2>3
<1>. QED  BY <1>6, <1>7, <1>8 DEF Books

LEMMA DonateKeepsBooks ==
  ASSUME TypeInv, Books, NEW p \in Pools, NEW side \in Side,
         NEW a \in Amounts, Donate(p, side, a)
  PROVE  Books'
<1>1. /\ UNCHANGED <<shares, received, claimed>>
      /\ \A q \in Pools, s \in Side :
           LET d == IF q = p /\ s = side THEN a ELSE 0
           IN  /\ vault'[q][s] = vault[q][s] + d
               /\ donated'[q][s] = donated[q][s] + d
  <2>1. \A q \in Pools, s \in Side : vault[q][s] \in Nat /\ donated[q][s] \in Nat
    BY Amounts0
  <2>. QED  BY <2>1 DEF Donate, TypeInv, TypeOK, payVars
<1>2. a \in Nat
  BY EscrowAssumption
<1>3. Untouched' /\ NoOverpayment'
  BY <1>1 DEF Books, Untouched, NoOverpayment, Allocated, EntitlementOf
<1>4. Conservation'
  <2>. SUFFICES ASSUME NEW q \in Pools, NEW s \in Side
                PROVE  vault'[q][s] = received[q][s] + donated'[q][s]
                                        - TotalClaimed(q, s)
    BY <1>1 DEF Conservation, TotalClaimed
  <2>1. vault[q][s] = received[q][s] + donated[q][s] - TotalClaimed(q, s)
    BY DEF Books, Conservation
  <2>2. /\ TotalClaimed(q, s) \in Int /\ received[q][s] \in Nat
        /\ vault[q][s] \in Nat /\ donated[q][s] \in Nat
    BY Amounts0, TotalClaimedType
  <2>. QED  BY <1>1, <1>2, <2>1, <2>2
<1>. QED  BY <1>3, <1>4 DEF Books

(* Conservation and NoOverpayment hold in every reachable state.           *)
THEOREM BooksCorrect == Spec => []Books
<1>1. Init => Books
  <2>. SUFFICES ASSUME Init PROVE Untouched /\ NoOverpayment /\ Conservation
    BY DEF Books
  <2>1. Untouched /\ NoOverpayment
    BY DEF Init, Untouched, NoOverpayment, Allocated
  <2>2. \A p \in Pools, s \in Side : TotalClaimed(p, s) = 0
    BY NothingPaid DEF Init, TotalClaimed
  <2>3. Conservation
    BY <2>2 DEF Init, Conservation
  <2>. QED  BY <2>1, <2>3
<1>2. TypeInv /\ TypeInv' /\ Books /\ [Next]_vars => Books'
  <2>. SUFFICES ASSUME TypeInv, TypeInv', Books, [Next]_vars
                PROVE  Books'
    OBVIOUS
  <2>1. CASE UNCHANGED <<shares, received, vault, claimed, bound, receipts,
                         donated>>
    BY <2>1 DEF Books, Untouched, NoOverpayment, Conservation, Allocated,
       EntitlementOf, TotalClaimed
  <2>. QED  BY <2>1, StepKinds, InitializeAllocationKeepsBooks,
               CollectFeesKeepsBooks, ClaimKeepsBooks, DonateKeepsBooks
<1>. QED  BY <1>1, <1>2, TypeCorrect, PTL DEF Spec

(* What a vault holds is what was collected and deposited, less what was   *)
(* paid (Conservation of the runs).                                        *)
THEOREM BooksBalance == Spec => []Conservation
<1>1. Books => Conservation
  BY DEF Books
<1>. QED  BY <1>1, BooksCorrect, PTL

(* No recipient is paid past its share of what was collected               *)
(* (NoOverpayment of the runs).                                            *)
THEOREM NobodyOverpaid == Spec => []NoOverpayment
<1>1. Books => NoOverpayment
  BY DEF Books
<1>. QED  BY <1>1, BooksCorrect, PTL

-----------------------------------------------------------------------------
(* What is still owed is the sum of the floors less what was paid.         *)
LEMMA OwedIsDueLessPaid ==
  ASSUME TypeInv, NEW p \in Pools, Allocated(p), NEW s \in Side
  PROVE  LET due == [i \in Slots |-> IF i \in DOMAIN shares[p]
                       THEN Entitlement(received[p][s], shares[p][i].bps) ELSE 0]
         IN  /\ SlotSum(due) \in Int /\ TotalClaimed(p, s) \in Int
             /\ StillOwed(p, s) = SlotSum(due) - TotalClaimed(p, s)
<1>. DEFINE list == shares[p]
            held == PerSlot(list, claimed[p][s])
            due == [i \in Slots |-> IF i \in DOMAIN list
                      THEN Entitlement(received[p][s], list[i].bps) ELSE 0]
            owed == [i \in Slots |-> IF i \in DOMAIN list
                       THEN EntitlementOf(p, s, list[i].id)
                              - claimed[p][s][list[i].id]
                       ELSE 0]
<1>1. list \in Seq(Share) /\ ValidShares(list)
  BY StoredList
<1>2. \A i \in DOMAIN list :
        /\ list[i].id \in Recipients(list) /\ list[i].id \in XIds
        /\ Bps(list, list[i].id) = list[i].bps
        /\ EntitlementOf(p, s, list[i].id) \in Nat
        /\ claimed[p][s][list[i].id] \in Nat
  <2>. TAKE i \in DOMAIN list
  <2>1. list[i].id \in Recipients(list) /\ list[i].id \in XIds
    BY <1>1, RecipientIds DEF Recipients
  <2>2. Bps(list, list[i].id) = list[i].bps
    BY <1>1, BpsOfEntry
  <2>3. EntitlementOf(p, s, list[i].id) \in Nat
    BY <2>1, EntitlementOfType
  <2>. QED  BY <2>1, <2>2, <2>3, Amounts0
<1>3. held \in [Slots -> Int]
  BY <1>2 DEF PerSlot
<1>4. due \in [Slots -> Int]
  BY <1>2 DEF EntitlementOf
<1>5. owed \in [Slots -> Int]
  BY <1>2
<1>6. \A i \in Slots : owed[i] = due[i] - held[i]
  BY <1>2 DEF EntitlementOf, PerSlot
<1>7. SlotSum(held) = TotalClaimed(p, s)
  BY DEF TotalClaimed
<1>8. SlotSum(owed) = StillOwed(p, s)
  BY DEF StillOwed
<1>9. SlotSum(due) \in Int /\ TotalClaimed(p, s) \in Int
  <2>. HIDE DEF due
  <2>. QED  BY <1>4, SlotSumType, TotalClaimedType
<1>10. SlotSum(owed) = SlotSum(due) - SlotSum(held)
  <2>. HIDE DEF held, due, owed
  <2>. QED  BY <1>3, <1>4, <1>5, <1>6, SlotSumMinus
<1>. QED  BY <1>7, <1>8, <1>9, <1>10

(* The vault of an allocation always covers every unpaid entitlement from  *)
(* collected fees alone: Conservation says what it holds, and the floors   *)
(* of a validated list never add up to more than was received.             *)
LEMMA BooksCoverEntitlements == TypeInv /\ Books => EveryoneCanBePaid
<1>. SUFFICES ASSUME TypeInv, Books, NEW p \in Pools, NEW s \in Side
              PROVE  StillOwed(p, s) <= vault[p][s] - donated[p][s]
  BY DEF EveryoneCanBePaid
<1>1. /\ vault[p][s] = received[p][s] + donated[p][s] - TotalClaimed(p, s)
      /\ received[p][s] \in Nat /\ vault[p][s] \in Nat
      /\ donated[p][s] \in Nat /\ TotalClaimed(p, s) \in Int
  BY Amounts0, TotalClaimedType DEF Books, Conservation
<1>2. CASE Allocated(p)
  <2>1. PICK due \in Int : due <= received[p][s] /\ StillOwed(p, s) = due - TotalClaimed(p, s)
    <3>. DEFINE floors == [i \in Slots |-> IF i \in DOMAIN shares[p]
                             THEN Entitlement(received[p][s], shares[p][i].bps) ELSE 0]
    <3>1. SlotSum(floors) \in Int /\ StillOwed(p, s) = SlotSum(floors) - TotalClaimed(p, s)
      BY <1>2, OwedIsDueLessPaid
    <3>2. SlotSum(floors) <= received[p][s]
      BY <1>1, <1>2, StoredList, FloorsFitWhole
    <3>. HIDE DEF floors
    <3>. QED  BY <3>1, <3>2
  <2>. QED  BY <1>1, <2>1
<1>3. CASE ~Allocated(p)
  <2>. DEFINE list == shares[p]
              held == PerSlot(list, claimed[p][s])
              owed == [i \in Slots |-> IF i \in DOMAIN list
                         THEN EntitlementOf(p, s, list[i].id)
                                - claimed[p][s][list[i].id]
                         ELSE 0]
  <2>1. DOMAIN list = {}
    BY <1>3 DEF Allocated
  <2>2. \A i \in Slots : owed[i] = 0 /\ held[i] = 0
    BY <2>1 DEF PerSlot
  <2>3. {1, 2, 3, 4, 5, 6, 7, 8} \subseteq Slots
    BY DEF Slots, MaxRecipients
  <2>4. SlotSum(owed) = 0 /\ SlotSum(held) = 0
    <3>. HIDE DEF owed, held
    <3>. QED  BY <2>2, <2>3 DEF SlotSum
  <2>5. StillOwed(p, s) = 0 /\ TotalClaimed(p, s) = 0
    BY <2>4 DEF StillOwed, TotalClaimed
  <2>. QED  BY <1>1, <2>5
<1>. QED  BY <1>2, <1>3

THEOREM Solvency == Spec => []EveryoneCanBePaid
BY TypeCorrect, BooksCorrect, BooksCoverEntitlements, PTL

-----------------------------------------------------------------------------
(* Authority: a rotation ends the current epoch and every one before, so   *)
(* no payment uses an authorization for one of them; signed may hold       *)
(* authorizations for any epoch.                                           *)
EpochsOrdered == \A m \in revoked : m.epoch < control.epoch

THEOREM EpochsCorrect == Spec => []EpochsOrdered
<1>1. Init => EpochsOrdered
  BY DEF Init, EpochsOrdered
<1>2. TypeInv /\ EpochsOrdered /\ [Next]_vars => EpochsOrdered'
  <2>. SUFFICES ASSUME TypeInv, EpochsOrdered, [Next]_vars
                PROVE  EpochsOrdered'
    OBVIOUS
  <2>1. /\ control.epoch \in Nat /\ control \in [paused : BOOLEAN, epoch : Nat]
        /\ \A m \in signed : m.epoch \in Nat
        /\ revoked \subseteq signed
    BY AuthorizationFields, EscrowAssumption DEF TypeInv, TypeOK
  <2>2. ASSUME NEW k \in Keys, RotateVerifier(k)
        PROVE  EpochsOrdered'
    <3>1. control'.epoch = control.epoch + 1
      BY <2>1, <2>2 DEF RotateVerifier, NextEpoch
    <3>2. revoked' = {m \in signed : m.epoch <= control.epoch}
      BY <2>2 DEF RotateVerifier
    <3>. QED  BY <2>1, <3>1, <3>2 DEF EpochsOrdered
  <2>3. CASE InitializeControl
    <3>1. control.epoch = 0 /\ control'.epoch = 1 /\ UNCHANGED revoked
      BY <2>3 DEF InitializeControl, history
    <3>. QED  BY <2>1, <3>1 DEF EpochsOrdered
  <2>4. ASSUME NEW flag \in BOOLEAN, SetPaused(flag)
        PROVE  EpochsOrdered'
    <3>1. control'.epoch = control.epoch /\ UNCHANGED revoked
      BY <2>1, <2>4 DEF SetPaused, history
    <3>. QED  BY <3>1 DEF EpochsOrdered
  <2>5. CASE UNCHANGED <<control, revoked>>
    BY <2>5 DEF EpochsOrdered
  <2>6. \/ \E k \in Keys : RotateVerifier(k)
        \/ InitializeControl
        \/ \E flag \in BOOLEAN : SetPaused(flag)
        \/ UNCHANGED <<control, revoked>>
    BY ZenonT(60) DEF Next, vars, InitializeConfig, InitializeAllocation, CollectFees,
           Claim, Sign, TransferCreator, Graduate, Donate, Tick, adminVars,
           history
  <2>. QED  BY <2>2, <2>3, <2>4, <2>5, <2>6
<1>. QED  BY <1>1, <1>2, TypeCorrect, PTL DEF Spec

(* No payment uses an authorization for an epoch that a rotation ended,    *)
(* whoever signed it and whatever key the verifier has now.                *)
THEOREM Revocation == Spec => RevokedNeverPays
<1>1. TypeInv /\ EpochsOrdered /\ [Next]_vars =>
        \A n \in Nonces : receipts'[n] # receipts[n] =>
          receipts'[n].auth \notin revoked
  <2>. SUFFICES ASSUME TypeInv, EpochsOrdered, [Next]_vars, NEW n \in Nonces,
                       receipts'[n] # receipts[n]
                PROVE  receipts'[n].auth \notin revoked
    OBVIOUS
  <2>1. PICK m \in signed : Claim(m)
    BY StepKinds DEF InitializeAllocation, CollectFees, Donate, payVars
  <2>2. n = m.nonce /\ receipts'[n].auth = m
    <3>1. receipts \in [Nonces -> Receipt \cup {None}]
      BY DEF TypeInv, TypeOK
    <3>. QED  BY <2>1, <3>1 DEF Claim
  <2>3. m.epoch = control.epoch
    BY <2>1 DEF Claim, ClaimsOpen
  <2>4. control.epoch \in Nat
    BY EscrowAssumption DEF TypeInv, TypeOK
  <2>. QED  BY <2>2, <2>3, <2>4 DEF EpochsOrdered
<1>. QED  BY <1>1, TypeCorrect, EpochsCorrect, PTL DEF Spec, RevokedNeverPays

-----------------------------------------------------------------------------
(* Overlapping authorizations never pay more than the largest of them:     *)
(* authorizations are never taken back, and a claim that moves an account  *)
(* moves it to at most the limit of its own authorization.                 *)
THEOREM AuthorizedPayments == Spec => []WithinAuthorized
<1>1. Init => WithinAuthorized
  BY DEF Init, WithinAuthorized
<1>2. TypeInv /\ WithinAuthorized /\ [Next]_vars => WithinAuthorized'
  <2>. SUFFICES ASSUME TypeInv, WithinAuthorized, [Next]_vars,
                       NEW p \in Pools, NEW s \in Side, NEW x \in XIds,
                       claimed'[p][s][x] > 0
                PROVE  \E m \in signed' : /\ m.pool = p /\ m.side = s /\ m.xid = x
                                          /\ claimed'[p][s][x] <= m.limit
    BY DEF WithinAuthorized
  <2>1. signed \subseteq signed'
    BY ZenonT(60) DEF Next, vars, InitializeConfig, InitializeControl, SetPaused,
       RotateVerifier, InitializeAllocation, CollectFees, Claim, Sign,
       TransferCreator, Graduate, Donate, Tick, envVars
  <2>2. CASE claimed'[p][s][x] = claimed[p][s][x]
    BY <2>1, <2>2 DEF WithinAuthorized
  <2>3. CASE claimed'[p][s][x] # claimed[p][s][x]
    <3>1. PICK m \in signed : Claim(m)
      BY <2>3, StepKinds DEF InitializeAllocation, CollectFees, Donate, payVars
    <3>2. m.pool \in Pools /\ m.side \in Side /\ m.xid \in XIds
      BY AuthorizationFields DEF TypeInv
    <3>3. claimed' = [claimed EXCEPT ![m.pool][m.side][m.xid] = Due(m)]
          /\ claimed \in [Pools -> [Side -> [XIds -> Nat]]]
      BY <3>1 DEF Claim, TypeInv, TypeOK
    <3>4. m.pool = p /\ m.side = s /\ m.xid = x /\ claimed'[p][s][x] = Due(m)
      BY <2>3, <3>2, <3>3
    <3>. QED  BY <2>1, <3>1, <3>4, ClaimPays
  <2>. QED  BY <2>2, <2>3
<1>. QED  BY <1>1, <1>2, TypeCorrect, PTL DEF Spec

(* An X id is paid to the wallet its first claim bound, ever after.        *)
THEOREM Binding == Spec => []OneWalletPerXId
<1>1. Init => OneWalletPerXId
  BY DEF Init, OneWalletPerXId
<1>2. TypeInv /\ OneWalletPerXId /\ [Next]_vars => OneWalletPerXId'
  <2>. SUFFICES ASSUME TypeInv, OneWalletPerXId, [Next]_vars
                PROVE  OneWalletPerXId'
    OBVIOUS
  <2>1. ASSUME NEW m \in signed, Claim(m)
        PROVE  OneWalletPerXId'
    <3>. SUFFICES ASSUME NEW n \in Nonces, receipts'[n] # None
                  PROVE  bound'[receipts'[n].auth.xid] = receipts'[n].wallet
      BY DEF OneWalletPerXId
    <3>1. /\ m.xid \in XIds /\ m.nonce \in Nonces /\ m.wallet \in Wallets
          /\ receipts \in [Nonces -> Receipt \cup {None}]
          /\ bound \in [XIds -> Wallets \cup {None}]
      BY AuthorizationFields DEF TypeInv, TypeOK
    <3>2. /\ bound[m.xid] \in {None, m.wallet}
          /\ bound' = [bound EXCEPT ![m.xid] = m.wallet]
      BY <2>1 DEF Claim, BindingAllows
    <3>3. CASE n = m.nonce
      <4>1. receipts'[n].auth = m /\ receipts'[n].wallet = m.wallet
        BY <2>1, <3>1, <3>3 DEF Claim
      <4>. QED  BY <3>1, <3>2, <4>1
    <3>4. CASE n # m.nonce
      <4>1. receipts'[n] = receipts[n] /\ receipts[n] # None
        BY <2>1, <3>1, <3>4 DEF Claim
      <4>2. bound[receipts[n].auth.xid] = receipts[n].wallet
        BY <4>1 DEF OneWalletPerXId
      <4>3. receipts[n] \in Receipt
        BY <3>1, <4>1
      <4>4. receipts[n].auth.xid \in XIds /\ receipts[n].wallet \in Wallets
        BY <4>3 DEF Receipt, Authorization
      <4>5. CASE receipts[n].auth.xid = m.xid
        <5>1. receipts[n].wallet = m.wallet
          BY <3>2, <4>2, <4>4, <4>5, EscrowAssumption
        <5>. QED  BY <3>1, <3>2, <4>1, <4>5, <5>1
      <4>6. CASE receipts[n].auth.xid # m.xid
        BY <3>1, <3>2, <4>1, <4>2, <4>4, <4>6
      <4>. QED  BY <4>5, <4>6
    <3>. QED  BY <3>3, <3>4
  <2>2. CASE UNCHANGED <<bound, receipts>>
    BY <2>2 DEF OneWalletPerXId
  <2>3. (\E m \in signed : Claim(m)) \/ UNCHANGED <<bound, receipts>>
    BY StepKinds DEF InitializeAllocation, CollectFees, Donate, payVars
  <2>. QED  BY <2>1, <2>2, <2>3
<1>. QED  BY <1>1, <1>2, TypeCorrect, PTL DEF Spec

(* The creator rights of an allocated pool stay with the escrow.           *)
THEOREM Custody == Spec => []CreatorLocked
<1>1. Init => CreatorLocked
  BY DEF Init, CreatorLocked, Allocated
<1>2. TypeInv /\ CreatorLocked /\ [Next]_vars => CreatorLocked'
  <2>. SUFFICES ASSUME TypeInv, CreatorLocked, [Next]_vars
                PROVE  CreatorLocked'
    OBVIOUS
  <2>. USE DEF TypeInv, TypeOK, CreatorLocked, Allocated
  <2>1. ASSUME NEW p \in Pools, NEW w \in Wallets, NEW list \in ShareLists,
               InitializeAllocation(p, w, list)
        PROVE  CreatorLocked'
    BY <2>1 DEF InitializeAllocation, PreGraduation, Graduated
  <2>2. ASSUME NEW p \in Pools, NEW w \in Wallets, TransferCreator(p, w)
        PROVE  CreatorLocked'
    BY <2>2, EscrowAssumption DEF TransferCreator
  <2>3. ASSUME NEW p \in Pools, Graduate(p)
        PROVE  CreatorLocked'
    BY <2>3 DEF Graduate
  <2>4. CASE UNCHANGED <<creator, nftOwner, shares>>
    BY <2>4
  <2>5. \/ \E p \in Pools, w \in Wallets, list \in ShareLists :
             InitializeAllocation(p, w, list)
        \/ \E p \in Pools, w \in Wallets : TransferCreator(p, w)
        \/ \E p \in Pools : Graduate(p)
        \/ UNCHANGED <<creator, nftOwner, shares>>
    BY ZenonT(60) DEF Next, vars, InitializeConfig, InitializeControl, SetPaused,
       RotateVerifier, CollectFees, Claim, Sign, Donate, Tick, poolVars
  <2>. QED  BY <2>1, <2>2, <2>3, <2>4, <2>5
<1>. QED  BY <1>1, <1>2, TypeCorrect, PTL DEF Spec

-----------------------------------------------------------------------------
(* The retirement inspection: whoever is bound or was paid is in a stored  *)
(* list, so no account is an orphan.                                       *)
AccountsKnown ==
  /\ \A x \in XIds : bound[x] # None =>
       \E p \in Pools : Allocated(p) /\ x \in Recipients(shares[p])
  /\ \A p \in Pools, s \in Side, x \in XIds :
       claimed[p][s][x] > 0 => x \in Recipients(shares[p])

THEOREM AccountsAreKnown == Spec => []AccountsKnown
<1>1. Init => AccountsKnown
  BY DEF Init, AccountsKnown
<1>2. TypeInv /\ AccountsKnown /\ [Next]_vars => AccountsKnown'
  <2>. SUFFICES ASSUME TypeInv, AccountsKnown, [Next]_vars
                PROVE  AccountsKnown'
    OBVIOUS
  <2>1. ASSUME NEW p \in Pools, NEW w \in Wallets, NEW list \in ShareLists,
               InitializeAllocation(p, w, list)
        PROVE  AccountsKnown'
    <3>1. /\ shares[p] = << >> /\ UNCHANGED <<bound, claimed>>
          /\ \A q \in Pools : q # p => shares'[q] = shares[q]
      BY <2>1 DEF InitializeAllocation, Allocated, payVars, TypeInv, TypeOK
    <3>2. \A x : x \notin Recipients(shares[p])
      BY <3>1 DEF Recipients
    <3>3. \A q \in Pools : shares[q] # << >> => q # p
      BY <3>1
    <3>. QED  BY <3>1, <3>2, <3>3 DEF AccountsKnown, Allocated
  <2>2. ASSUME NEW m \in signed, Claim(m)
        PROVE  AccountsKnown'
    <3>1. /\ m.pool \in Pools /\ m.side \in Side /\ m.xid \in XIds
          /\ Allocated(m.pool) /\ m.xid \in Recipients(shares[m.pool])
          /\ shares' = shares
          /\ bound' = [bound EXCEPT ![m.xid] = m.wallet]
          /\ claimed' = [claimed EXCEPT ![m.pool][m.side][m.xid] = Due(m)]
      BY <2>2, AuthorizationFields DEF Claim, TypeInv
    <3>2. \A x \in XIds : x # m.xid => bound'[x] = bound[x]
      BY <3>1 DEF TypeInv, TypeOK
    <3>3. \A p \in Pools, s \in Side, x \in XIds :
            ~ (p = m.pool /\ x = m.xid) => claimed'[p][s][x] = claimed[p][s][x]
      BY <3>1 DEF TypeInv, TypeOK
    <3>. QED  BY <3>1, <3>2, <3>3 DEF AccountsKnown, Allocated
  <2>3. CASE UNCHANGED <<shares, bound, claimed>>
    BY <2>3 DEF AccountsKnown, Allocated
  <2>. QED  BY <2>1, <2>2, <2>3, StepKinds DEF CollectFees, Donate, payVars
<1>. QED  BY <1>1, <1>2, TypeCorrect, PTL DEF Spec

(* The inspection's sum over the identities of a split is what the program *)
(* still owes its recipients.                                              *)
LEMMA UnpaidIsOwed ==
  ASSUME TypeInv, NEW p \in Pools, Allocated(p), NEW s \in Side
  PROVE  Unpaid(p, s) = StillOwed(p, s)
<1>. DEFINE list == shares[p]
            rest == [x \in Identities(p) |-> Remaining(p, s, x)]
<1>1. list \in Seq(Share) /\ ValidShares(list)
  BY StoredList
<1>2. \A x \in Identities(p) : rest[x] \in Int
  <2>. SUFFICES ASSUME NEW x \in Identities(p) PROVE Remaining(p, s, x) \in Int
    OBVIOUS
  <2>1. x \in XIds /\ x \in Recipients(list)
    BY <1>1, RecipientIds DEF Identities
  <2>2. EntitlementOf(p, s, x) \in Nat /\ claimed[p][s][x] \in Nat
    BY <2>1, EntitlementOfType, Amounts0
  <2>. QED  BY <2>2 DEF Remaining, EntitlementOf
<1>3. SumFunctionOnSet(rest, Identities(p)) = SlotSum(PerSlot(list, rest))
  <2>. HIDE DEF rest
  <2>. QED  BY <1>1, <1>2, RecipientsSum DEF Identities
<1>4. Unpaid(p, s) = SumFunctionOnSet(rest, Identities(p))
  BY DEF Unpaid, SumFunction
<1>5. PerSlot(list, rest) =
        [i \in Slots |-> IF i \in DOMAIN list
                           THEN EntitlementOf(p, s, list[i].id) - claimed[p][s][list[i].id]
                           ELSE 0]
  <2>1. \A i \in DOMAIN list : rest[list[i].id] =
          EntitlementOf(p, s, list[i].id) - claimed[p][s][list[i].id]
    BY DEF Identities, Recipients, Remaining, EntitlementOf
  <2>. HIDE DEF rest
  <2>. QED  BY <2>1 DEF PerSlot
<1>. QED  BY <1>3, <1>4, <1>5 DEF StillOwed

LEMMA RetirementFollows ==
  TypeInv /\ Books /\ AccountsKnown => RetirementIsBacked
<1>. SUFFICES ASSUME TypeInv, Books, AccountsKnown
              PROVE  RetirementIsBacked
  OBVIOUS
<1>1. Orphans = {}
  BY DEF Orphans, AccountsKnown, Allocations, Identities, Allocated
<1>2. ASSUME NEW p \in Allocations, NEW s \in Side, NEW x \in Identities(p)
      PROVE  Remaining(p, s, x) >= 0
  <2>1. p \in Pools /\ Allocated(p) /\ x \in Recipients(shares[p])
    BY DEF Allocations, Allocated, Identities
  <2>2. claimed[p][s][x] <= EntitlementOf(p, s, x) /\ EntitlementOf(p, s, x) \in Nat
    BY <2>1, EntitlementOfType DEF Books, NoOverpayment
  <2>3. x \in XIds
    BY <2>1, StoredList, RecipientIds
  <2>4. claimed[p][s][x] \in Nat
    BY <2>1, <2>3, Amounts0
  <2>. QED  BY <2>2, <2>4 DEF Remaining, EntitlementOf
<1>3. ASSUME NEW p \in Allocations, NEW s \in Side
      PROVE  /\ Unpaid(p, s) <= vault[p][s]
             /\ vault[p][s] > 0 /\ donated[p][s] = 0 =>
                  Unpaid(p, s) > 0 \/ vault[p][s] < Cardinality(Identities(p))
  <2>1. p \in Pools /\ Allocated(p)
    BY DEF Allocations, Allocated
  <2>2. PICK due \in Int :
          /\ StillOwed(p, s) = due - TotalClaimed(p, s)
          /\ received[p][s] - Len(shares[p]) < due
    <3>. DEFINE floors == [i \in Slots |-> IF i \in DOMAIN shares[p]
                       THEN Entitlement(received[p][s], shares[p][i].bps) ELSE 0]
    <3>1. SlotSum(floors) \in Int /\ StillOwed(p, s) = SlotSum(floors) - TotalClaimed(p, s)
      BY <2>1, OwedIsDueLessPaid
    <3>2. received[p][s] - Len(shares[p]) < SlotSum(floors)
      BY <2>1, StoredList, Amounts0, FloorsMissLess
    <3>. HIDE DEF floors
    <3>. QED  BY <3>1, <3>2
  <2>3. /\ vault[p][s] = received[p][s] + donated[p][s] - TotalClaimed(p, s)
        /\ received[p][s] \in Nat /\ vault[p][s] \in Nat
        /\ donated[p][s] \in Nat /\ TotalClaimed(p, s) \in Int
    BY <2>1, Amounts0, TotalClaimedType DEF Books, Conservation
  <2>4. StillOwed(p, s) <= vault[p][s] - donated[p][s]
    BY <2>1, BooksCoverEntitlements DEF EveryoneCanBePaid
  <2>5. Unpaid(p, s) = StillOwed(p, s)
    BY <2>1, UnpaidIsOwed
  <2>6. Cardinality(Identities(p)) = Len(shares[p]) /\ Len(shares[p]) \in Nat
    BY <2>1, StoredList, RecipientsCount DEF Identities
  <2>7. Unpaid(p, s) <= vault[p][s]
    BY <2>2, <2>3, <2>4, <2>5
  <2>8. donated[p][s] = 0 /\ ~ (Unpaid(p, s) > 0) =>
          vault[p][s] < Cardinality(Identities(p))
    BY <2>2, <2>3, <2>5, <2>6
  <2>. QED  BY <2>7, <2>8
<1>4. (\E p \in Allocations, s \in Side : Unpaid(p, s) > 0) =>
        "UNPAID_ENTITLEMENTS" \in Blockers
  BY DEF Blockers
<1>. QED  BY <1>1, <1>2, <1>3, <1>4 DEF RetirementIsBacked, InspectionUsable, UnpaidIsBacked

(* No order of legal program calls leaves accounts that the retirement     *)
(* inspection rejects; what it reports as owed is in the vaults, and what  *)
(* it does not report is less than one unit for each recipient.            *)
THEOREM RetirementReports == Spec => []RetirementIsBacked
BY TypeCorrect, BooksCorrect, AccountsAreKnown, RetirementFollows, PTL

-----------------------------------------------------------------------------
(* Receipts: a claim leaves one, under a nonce that had none, so those of  *)
(* a recipient add up to what it was paid.                                 *)
ReceiptsInv ==
  /\ IsFiniteSet({n \in Nonces : receipts[n] # None})
  /\ ReceiptsAccountForPayments

LEMMA ClaimAddsReceipt ==
  ASSUME TypeInv, ReceiptsInv, NEW m \in signed, Claim(m)
  PROVE  ReceiptsInv'
<1>1. /\ m.pool \in Pools /\ m.side \in Side /\ m.xid \in XIds /\ m.nonce \in Nonces
  BY AuthorizationFields DEF TypeInv
<1>2. /\ receipts[m.nonce] = None
      /\ claimed' = [claimed EXCEPT ![m.pool][m.side][m.xid] = Due(m)]
      /\ receipts' = [receipts EXCEPT ![m.nonce] =
           [pool |-> m.pool, side |-> m.side, wallet |-> m.wallet,
            amount |-> Owed(m), auth |-> m]]
  BY DEF Claim, NonceUnused
<1>3. /\ Due(m) \in Nat /\ Owed(m) \in Nat
      /\ Owed(m) = Due(m) - claimed[m.pool][m.side][m.xid]
      /\ claimed[m.pool][m.side][m.xid] \in Nat
  BY ClaimPays DEF Owed
<1>4. /\ receipts \in [Nonces -> Receipt \cup {None}]
      /\ receipts'[m.nonce] # None
      /\ receipts'[m.nonce].pool = m.pool /\ receipts'[m.nonce].side = m.side
      /\ receipts'[m.nonce].auth.xid = m.xid /\ receipts'[m.nonce].amount = Owed(m)
      /\ \A n \in Nonces : n # m.nonce => receipts'[n] = receipts[n]
  <2>. DEFINE r == [pool |-> m.pool, side |-> m.side, wallet |-> m.wallet,
                    amount |-> Owed(m), auth |-> m]
  <2>1. receipts \in [Nonces -> Receipt \cup {None}]
    BY DEF TypeInv, TypeOK
  <2>2. r \in Receipt
    BY <1>3, AuthorizationFields DEF Receipt, TypeInv
  <2>3. receipts'[m.nonce] = r /\ \A n \in Nonces : n # m.nonce => receipts'[n] = receipts[n]
    BY <1>1, <1>2, <2>1
  <2>4. r # None
    BY <2>2, ReceiptAssumption
  <2>5. r.pool = m.pool /\ r.side = m.side /\ r.auth.xid = m.xid /\ r.amount = Owed(m)
    OBVIOUS
  <2>. HIDE DEF r
  <2>. QED  BY <2>1, <2>3, <2>4, <2>5
<1>5. {n \in Nonces : receipts'[n] # None} = {n \in Nonces : receipts[n] # None} \cup {m.nonce}
  BY <1>1, <1>2, <1>4
<1>6. IsFiniteSet({n \in Nonces : receipts'[n] # None})
  BY <1>5, FS_AddElement DEF ReceiptsInv
<1>7. ASSUME NEW p \in Pools, NEW s \in Side, NEW x \in XIds
      PROVE  claimed'[p][s][x] = SumFunction([n \in ReceiptsOf(p, s, x) |-> receipts[n].amount])'
  <2>. DEFINE old == ReceiptsOf(p, s, x)
              new == ReceiptsOf(p, s, x)'
              f == [n \in old |-> receipts[n].amount]
              g == [n \in new |-> receipts'[n].amount]
  <2>1. /\ IsFiniteSet(old) /\ m.nonce \notin old /\ old \subseteq Nonces
        /\ \A n \in old : f[n] \in Nat
        /\ SumFunctionOnSet(f, old) = claimed[p][s][x]
    <3>1. old \subseteq {n \in Nonces : receipts[n] # None}
      BY DEF ReceiptsOf
    <3>2. IsFiniteSet(old)
      BY <3>1, FS_Subset DEF ReceiptsInv
    <3>3. \A n \in old : receipts[n].amount \in Nat
      BY <1>4, <3>1 DEF Receipt
    <3>4. SumFunction(f) = claimed[p][s][x]
      BY DEF ReceiptsInv, ReceiptsAccountForPayments
    <3>. QED  BY <1>2, <3>1, <3>2, <3>3, <3>4 DEF SumFunction
  <2>2. \A n \in Nonces : n # m.nonce => (n \in new <=> n \in old)
    BY <1>4 DEF ReceiptsOf
  <2>3. new \subseteq Nonces /\ \A n \in old : n \in new => g[n] = f[n]
    <3>1. new \subseteq Nonces /\ \A n \in old : receipts'[n] = receipts[n]
      BY <1>4, <2>1 DEF ReceiptsOf
    <3>. QED  BY <3>1
  <2>4. m.nonce \in new <=> p = m.pool /\ s = m.side /\ x = m.xid
    BY <1>1, <1>4 DEF ReceiptsOf
  <2>5. SumFunction(g) = SumFunctionOnSet(g, new)
    BY DEF SumFunction
  <2>6. CASE p = m.pool /\ s = m.side /\ x = m.xid
    <3>1. new = old \cup {m.nonce}
      BY <1>1, <2>1, <2>2, <2>3, <2>4, <2>6
    <3>2. g[m.nonce] = Owed(m)
      BY <1>4, <3>1
    <3>3. \A n \in old : g[n] = f[n]
      BY <2>3, <3>1
    <3>4. claimed'[p][s][x] = Due(m)
      BY <1>1, <1>2, <2>6 DEF TypeInv, TypeOK
    <3>. HIDE DEF old, new, f, g
    <3>5. \A n \in old \cup {m.nonce} : g[n] \in Int
      BY <1>3, <2>1, <3>2, <3>3
    <3>6. SumFunctionOnSet(g, old \cup {m.nonce}) = g[m.nonce] + SumFunctionOnSet(g, old)
      BY <2>1, <3>5, SumInsert
    <3>7. SumFunctionOnSet(g, old) = SumFunctionOnSet(f, old)
      BY <2>1, <3>3, SumSame
    <3>8. SumFunctionOnSet(g, new) = Owed(m) + claimed[p][s][x]
      BY <2>1, <3>1, <3>2, <3>6, <3>7
    <3>9. SumFunctionOnSet(g, new) = claimed'[p][s][x]
      BY <1>3, <2>6, <3>4, <3>8
    <3>. QED  BY <2>5, <3>9 DEF g, new
  <2>7. CASE ~ (p = m.pool /\ s = m.side /\ x = m.xid)
    <3>1. new = old
      BY <2>1, <2>2, <2>3, <2>4, <2>7
    <3>2. \A n \in old : g[n] = f[n]
      BY <2>3, <3>1
    <3>3. claimed'[p][s][x] = claimed[p][s][x]
      BY <1>1, <1>2, <2>7 DEF TypeInv, TypeOK
    <3>. HIDE DEF old, new, f, g
    <3>4. SumFunctionOnSet(g, old) = SumFunctionOnSet(f, old)
      BY <2>1, <3>2, SumSame
    <3>5. SumFunctionOnSet(g, new) = claimed'[p][s][x]
      BY <2>1, <3>1, <3>3, <3>4
    <3>. QED  BY <2>5, <3>5 DEF g, new
  <2>. QED  BY <2>6, <2>7
<1>. QED  BY <1>6, <1>7 DEF ReceiptsInv, ReceiptsAccountForPayments

(* "A paid nonce cannot pay twice": the receipts of a recipient add up to  *)
(* what it was paid, for any number of claims (claim, the receipt          *)
(* account).                                                               *)
THEOREM ReceiptsAddUp == Spec => []ReceiptsAccountForPayments
<1>1. Init => ReceiptsInv
  <2>. SUFFICES ASSUME Init PROVE ReceiptsInv
    OBVIOUS
  <2>1. {n \in Nonces : receipts[n] # None} = {}
    BY DEF Init
  <2>2. ASSUME NEW p \in Pools, NEW s \in Side, NEW x \in XIds
        PROVE  claimed[p][s][x] = SumFunction([n \in ReceiptsOf(p, s, x) |-> receipts[n].amount])
    <3>1. ReceiptsOf(p, s, x) = {} /\ claimed[p][s][x] = 0
      BY DEF Init, ReceiptsOf
    <3>2. SumFunction([n \in {} |-> receipts[n].amount]) = 0
      BY SumEmpty DEF SumFunction
    <3>. QED  BY <3>1, <3>2
  <2>. QED  BY <2>1, <2>2, FS_EmptySet DEF ReceiptsInv, ReceiptsAccountForPayments
<1>2. TypeInv /\ ReceiptsInv /\ [Next]_vars => ReceiptsInv'
  <2>. SUFFICES ASSUME TypeInv, ReceiptsInv, [Next]_vars
                PROVE  ReceiptsInv'
    OBVIOUS
  <2>1. CASE UNCHANGED <<claimed, receipts>>
    BY <2>1 DEF ReceiptsInv, ReceiptsAccountForPayments, ReceiptsOf
  <2>. QED  BY <2>1, ClaimAddsReceipt, StepKinds DEF InitializeAllocation, CollectFees, Donate, payVars
<1>3. ReceiptsInv => ReceiptsAccountForPayments
  BY DEF ReceiptsInv
<1>. QED  BY <1>1, <1>2, <1>3, TypeCorrect, PTL DEF Spec

-----------------------------------------------------------------------------
(* The program implements FeePayout. An allocation is the agreement, a     *)
(* collection the receipt of fees and a claim a payment; every other step  *)
(* leaves the split, the ledgers, the payments and the bindings alone.     *)
LEMMA AllocationAgrees ==
  ASSUME TypeInv, NEW p \in Pools, NEW w \in Wallets, NEW list \in ShareLists,
         InitializeAllocation(p, w, list)
  PROVE  Payout!Agree(p)
<1>1. /\ shares[p] = << >> /\ ValidShares(list)
      /\ shares' = [shares EXCEPT ![p] = list]
      /\ UNCHANGED <<received, claimed, bound>>
  BY DEF InitializeAllocation, Allocated, payVars
<1>2. shares'[p] = list
  BY <1>1 DEF TypeInv, TypeOK
<1>3. ValidShares(list) = Payout!ValidShares(list)
  BY DEF ValidShares, Payout!ValidShares, Slots, Payout!Slots, Scale,
     Payout!Scale, MaxRecipients, Payout!MaxRecipients, SlotSum,
     Payout!SlotSum, SlotBps, Payout!SlotBps
<1>. QED  BY <1>1, <1>2, <1>3 DEF Payout!Agree

LEMMA CollectionReceives ==
  ASSUME TypeInv, NEW p \in Pools, NEW venue \in {"dbc", "damm"},
         NEW amount \in [Side -> Amounts], CollectFees(p, venue, amount)
  PROVE  Payout!Receive(p)
<1>1. /\ shares[p] # << >>
      /\ received' = [received EXCEPT ![p] =
                        [s \in Side |-> received[p][s] + amount[s]]]
      /\ UNCHANGED <<shares, claimed, bound>>
  BY DEF CollectFees, Allocated, payVars
<1>2. \A s \in Side : received[p][s] \in Nat /\ amount[s] \in Nat
  BY Amounts0, EscrowAssumption
<1>3. received'[p] = [s \in Side |-> received[p][s] + amount[s]]
  BY <1>1 DEF TypeInv, TypeOK
<1>4. \A s \in Side : received'[p][s] >= received[p][s]
  BY <1>2, <1>3
<1>5. received' = [received EXCEPT ![p] = [s \in Side |-> received'[p][s]]]
  BY <1>1, <1>3
<1>. QED  BY <1>1, <1>4, <1>5 DEF Payout!Receive, Side, Payout!Side

LEMMA ClaimIsPayment ==
  ASSUME TypeInv, NEW m \in signed, Claim(m)
  PROVE  Payout!Pay(m.pool, m.side, m.xid, m.wallet)
<1>1. /\ m.xid \in Recipients(shares[m.pool])
      /\ bound[m.xid] \in {None, m.wallet}
      /\ bound' = [bound EXCEPT ![m.xid] = m.wallet]
      /\ claimed' = [claimed EXCEPT ![m.pool][m.side][m.xid] = Due(m)]
      /\ UNCHANGED <<shares, received>>
  BY DEF Claim, BindingAllows
<1>2. m.pool \in Pools /\ m.side \in Side /\ m.xid \in XIds
  BY AuthorizationFields DEF TypeInv
<1>3. claimed'[m.pool][m.side][m.xid] = Due(m)
  BY <1>1, <1>2 DEF TypeInv, TypeOK
<1>4. /\ Due(m) \in Nat /\ claimed[m.pool][m.side][m.xid] \in Nat
      /\ Due(m) - claimed[m.pool][m.side][m.xid] > 0
      /\ Due(m) <= EntitlementOf(m.pool, m.side, m.xid)
  BY ClaimPays DEF Owed
<1>5. Due(m) > claimed[m.pool][m.side][m.xid]
  BY <1>4
<1>6. \A total, list, x :
        /\ Payout!Entitlement(total, Payout!Bps(list, x))
             = Entitlement(total, Bps(list, x))
        /\ Payout!Recipients(list) = Recipients(list)
  BY DEF Entitlement, Payout!Entitlement, Bps, Payout!Bps, Scale,
     Payout!Scale, Recipients, Payout!Recipients
<1>. QED  BY <1>1, <1>3, <1>4, <1>5, <1>6 DEF Payout!Pay, EntitlementOf

THEOREM Refinement == Spec => ImplementsPayout
<1>1. Init => Payout!Init
  BY DEF Init, Payout!Init, Side, Payout!Side
<1>2. TypeInv /\ [Next]_vars => [Payout!Next]_(Payout!vars)
  <2>. SUFFICES ASSUME TypeInv, [Next]_vars
                PROVE  Payout!Next \/ UNCHANGED Payout!vars
    OBVIOUS
  <2>1. ASSUME NEW m \in signed, Claim(m)
        PROVE  Payout!Next
    <3>1. /\ m.pool \in Pools /\ m.side \in Side /\ m.xid \in XIds
          /\ m.wallet \in Wallets
      BY AuthorizationFields DEF TypeInv
    <3>. QED  BY <2>1, <3>1, ClaimIsPayment DEF Payout!Next, Side, Payout!Side
  <2>2. ASSUME NEW p \in Pools, NEW s \in Side, NEW a \in Amounts,
               Donate(p, s, a)
        PROVE  UNCHANGED Payout!vars
    BY <2>2 DEF Donate, Payout!vars, payVars
  <2>. QED  BY <2>1, <2>2, StepKinds, AllocationAgrees, CollectionReceives
            DEF Payout!Next, Payout!vars
<1>. QED  BY <1>1, <1>2, TypeCorrect, PTL
          DEF Spec, ImplementsPayout, Payout!Spec
=============================================================================
