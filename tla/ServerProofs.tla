----------------------------- MODULE ServerProofs -----------------------------
(***************************************************************************)
(* Theorems about the composition of MCServer. Its instances share no      *)
(* variable, so each moves as its own specification says or not at all.    *)
(*                                                                         *)
(* What is signed. Describe is a fold over the instructions of a message:  *)
(* DescribeSteps has its value after each of them, and what is said of the *)
(* result (what it sets aside, what it keeps and in which order) is shown  *)
(* from one instruction to the next. PoliteInv is the invariant: what is   *)
(* stored was prepared, what the wallet holds differs from it by the edits *)
(* made so far, and what was accepted passed the checks of Submit.         *)
(*                                                                         *)
(* What is traded. A transaction is a sequence of operations and its run a *)
(* fold over them: what a route and a purchase or a sale move, and when    *)
(* they stop, is shown for each shape BuildSwap and Compose can give it.   *)
(* TradeInv is the invariant: a flow holds the quote, the route and the    *)
(* transaction of its request, and the balances it will start from.        *)
(*                                                                         *)
(* The registry and the bindings. What is proved of LaunchRegistry and     *)
(* FeeClaims for all constants holds of the instances: the wires of trades *)
(* and conversions, and the bindings.                                      *)
(***************************************************************************)
EXTENDS MCServer, FiniteSums, SequenceTheorems, TLAPS

-----------------------------------------------------------------------------
(* What is signed: a description, one instruction at a time *)

(* What describe has of a message once it has read a prefix of it.         *)
Descriptions(E) ==
  LET args == {ix.arg : ix \in E} IN
  [units : {0} \cup args, metered : BOOLEAN, price : {0} \cup args, priced : BOOLEAN,
   memory : SUBSET {ix.op : ix \in E}, guards : SUBSET ({"lighthouse"} \cup args),
   misplaced : BOOLEAN, rest : Seq(E)]

LEMMA SetAsideTyped ==
  ASSUME NEW E, NEW d \in Descriptions(E), NEW ix \in E, NEW aside \in BOOLEAN
  PROVE  Signing!SetAside(d, ix, aside) \in Descriptions(E)
<1> DEFINE args == {i.arg : i \in E}
           D == [units : {0} \cup args, metered : BOOLEAN, price : {0} \cup args, priced : BOOLEAN,
                 memory : SUBSET {i.op : i \in E}, guards : SUBSET ({"lighthouse"} \cup args),
                 misplaced : BOOLEAN, rest : Seq(E)]
<1>1. D = Descriptions(E)
  BY DEF Descriptions
<1>2. ix.arg \in args /\ ix.op \in {i.op : i \in E}
  OBVIOUS
<1>3. d \in D
  BY <1>1
<1>4. d.memory \cup {ix.op} \in SUBSET {i.op : i \in E}
  BY <1>2, <1>3
<1>5. d.guards \cup {"lighthouse", ix.arg} \in SUBSET ({"lighthouse"} \cup args)
  BY <1>2, <1>3
<1>6. Append(d.rest, ix) \in Seq(E)
  BY <1>3
<1>7. (d.misplaced \/ Signing!AfterGuard(d)) \in BOOLEAN
  BY DEF Signing!AfterGuard
<1> HIDE DEF args
<1>8. /\ [d EXCEPT !.units = ix.arg, !.metered = TRUE] \in D
      /\ [d EXCEPT !.price = ix.arg, !.priced = TRUE] \in D
      /\ [d EXCEPT !.memory = @ \cup {ix.op}] \in D
      /\ [d EXCEPT !.guards = @ \cup {"lighthouse", ix.arg}] \in D
      /\ [d EXCEPT !.rest = Append(@, ix), !.misplaced = @ \/ Signing!AfterGuard(d)] \in D
  BY <1>2, <1>3, <1>4, <1>5, <1>6, <1>7
<1> HIDE DEF D
<1>9. Signing!SetAside(d, ix, aside) \in D
  BY <1>8 DEF Signing!SetAside
<1> QED BY <1>1, <1>9

LEMMA UndescribedTyped ==
  ASSUME NEW E
  PROVE  Signing!Undescribed \in Descriptions(E)
<1>1. <<>> \in Seq(E)
  OBVIOUS
<1> QED BY <1>1 DEF Signing!Undescribed, Descriptions

(* The fold of Describe, one instruction after the other. *)
Describes(s, aside, d) ==
  /\ d[0] = Signing!Undescribed
  /\ \A i \in 1..Len(s) : d[i] = Signing!SetAside(d[i - 1], s[i], aside)

LEMMA DescribeSteps ==
  ASSUME NEW E, NEW m, m.ixs \in Seq(E), NEW aside \in BOOLEAN
  PROVE  \E d \in [0..Len(m.ixs) -> Descriptions(E)] :
           Describes(m.ixs, aside, d) /\ d[Len(m.ixs)] = Signing!Describe(m, aside)
<1> DEFINE s == m.ixs
           N == Len(s)
           V == Descriptions(E)
           h == [p \in V \X E |-> Signing!SetAside(p[1], p[2], aside)]
           Recurs(iter) == iter = [t \in SUBSET (1..N) |->
                            IF t = {} THEN Signing!Undescribed
                            ELSE Signing!SetAside(iter[t \ {Highest(t)}], s[Highest(t)], aside)]
           it == CHOOSE iter : Recurs(iter)
<1>0. N \in Nat /\ DOMAIN s = 1..N /\ s \in [1..N -> E]
  OBVIOUS
<1>1. h \in [V \X E -> V]
  BY SetAsideTyped
<1>2. PICK g \in [SUBSET (1..N) -> V] : Folds(h, Signing!Undescribed, s, N, g)
  <2> HIDE DEF h, V, N
  <2>1. Signing!Undescribed \in V
    BY UndescribedTyped DEF V
  <2> QED BY <1>0, <1>1, <2>1, FoldsExist
<1>3. Recurs(g)
  <2> HIDE DEF N, s
  <2>1. ASSUME NEW t \in SUBSET (1..N), t # {}
        PROVE  g[t] = Signing!SetAside(g[t \ {Highest(t)}], s[Highest(t)], aside)
    <3>1. Highest(t) \in t
      BY <1>0, <2>1, HighestIsMember
    <3>2. g[t \ {Highest(t)}] \in V /\ s[Highest(t)] \in E
      BY <1>0, <1>2, <3>1
    <3>3. g[t] = h[<<g[t \ {Highest(t)}], s[Highest(t)]>>]
      BY <1>2, <2>1 DEF Folds
    <3> QED BY <3>2, <3>3
  <2>2. g[{}] = Signing!Undescribed
    BY <1>2 DEF Folds
  <2>3. g = [t \in SUBSET (1..N) |-> g[t]]
    BY <1>2
  <2> QED BY <2>1, <2>2, <2>3
<1>4. Recurs(it)
  <2> HIDE DEF Recurs
  <2> QED BY <1>3
<1>5. Signing!Describe(m, aside) = it[1..N]
  BY <1>0 DEF Signing!Describe, Signing!FoldLeft, Signing!MapThenFoldSet, Signing!Max, Highest
<1>6. it[{}] = Signing!Undescribed
  <2>1. it[{}] = IF {} = {} THEN Signing!Undescribed
                 ELSE Signing!SetAside(it[{} \ {Highest({})}], s[Highest({})], aside)
    BY <1>4
  <2> QED BY <2>1
<1>7. ASSUME NEW n \in 1..N
      PROVE  it[1..n] = Signing!SetAside(it[1..(n - 1)], s[n], aside)
  <2> DEFINE t == 1..n
  <2>1. t \in SUBSET (1..N) /\ t # {} /\ Highest(t) = n /\ t \ {Highest(t)} = 1..(n - 1)
    BY <1>0, Prefixes
  <2> HIDE DEF t
  <2>2. it[t] = Signing!SetAside(it[t \ {Highest(t)}], s[Highest(t)], aside)
    BY <1>4, <2>1
  <2>3. it[t] = Signing!SetAside(it[1..(n - 1)], s[n], aside)
    BY <2>1, <2>2
  <2> QED BY <2>3 DEF t
<1> DEFINE d == [n \in 0..N |-> it[1..n]]
           Good == {n \in Nat : n \in 0..N => it[1..n] \in V}
<1> HIDE DEF it
<1>8. Nat \subseteq Good
  <2>1. 0 \in Good
    <3>1. 1..0 = {}
      OBVIOUS
    <3>2. it[1..0] = Signing!Undescribed
      BY <1>6, <3>1
    <3> HIDE DEF V
    <3>3. it[1..0] \in V
      BY <3>2, UndescribedTyped DEF V
    <3> QED BY <3>3
  <2>2. ASSUME NEW n \in Nat, n \in Good PROVE n + 1 \in Good
    <3> SUFFICES ASSUME n + 1 \in 0..N PROVE it[1..(n + 1)] \in V
      <4> HIDE DEF V
      <4> QED OBVIOUS
    <3>1. n + 1 \in 1..N /\ n \in 0..N /\ (n + 1) - 1 = n
      BY <1>0
    <3>2. it[1..n] \in V
      <4> HIDE DEF V
      <4> QED BY <2>2, <3>1
    <3>3. s[n + 1] \in E
      BY <1>0, <3>1
    <3>4. it[1..(n + 1)] = Signing!SetAside(it[1..n], s[n + 1], aside)
      <4> HIDE DEF s, N
      <4> QED BY <1>7, <3>1
    <3> QED BY <3>2, <3>3, <3>4, SetAsideTyped
  <2> HIDE DEF Good
  <2> QED BY <2>1, <2>2, EveryNat
<1>9. d \in [0..N -> V]
  <2> HIDE DEF V
  <2>1. \A n \in 0..N : it[1..n] \in V
    BY <1>0, <1>8
  <2> QED BY <2>1
<1>10. Describes(s, aside, d)
  <2>1. 1..0 = {} /\ 0 \in 0..N
    BY <1>0
  <2>2. d[0] = Signing!Undescribed
    BY <1>6, <2>1
  <2>3. \A n \in 1..N : n \in 0..N /\ n - 1 \in 0..N
    BY <1>0
  <2>4. \A n \in 1..N : d[n] = Signing!SetAside(d[n - 1], s[n], aside)
    BY <1>7, <2>3
  <2> HIDE DEF d
  <2> QED BY <2>2, <2>4 DEF Describes
<1>11. d[N] = Signing!Describe(m, aside)
  BY <1>0, <1>5
<1> HIDE DEF d
<1> QED BY <1>9, <1>10, <1>11

(* The same of the effects of a message. *)
Selects(s, d) ==
  /\ d[0] = <<>>
  /\ \A i \in 1..Len(s) :
       d[i] = IF Signing!Effect(s[i]) THEN Append(d[i - 1], s[i]) ELSE d[i - 1]

LEMMA EffectSteps ==
  ASSUME NEW E, NEW s \in Seq(E)
  PROVE  \E d \in [0..Len(s) -> Seq(E)] : Selects(s, d) /\ d[Len(s)] = Signing!Effects(s)
<1> DEFINE N == Len(s)
           V == Seq(E)
           h == [p \in V \X E |-> IF Signing!Effect(p[2]) THEN Append(p[1], p[2]) ELSE p[1]]
           Recurs(iter) == iter = [t \in SUBSET (1..N) |->
                            IF t = {} THEN <<>>
                            ELSE IF Signing!Effect(s[Highest(t)])
                              THEN Append(iter[t \ {Highest(t)}], s[Highest(t)])
                              ELSE iter[t \ {Highest(t)}]]
           it == CHOOSE iter : Recurs(iter)
<1>0. N \in Nat /\ DOMAIN s = 1..N /\ s \in [1..N -> E] /\ <<>> \in V
  OBVIOUS
<1>1. h \in [V \X E -> V]
  OBVIOUS
<1>2. PICK g \in [SUBSET (1..N) -> V] : Folds(h, <<>>, s, N, g)
  <2> HIDE DEF h, V, N
  <2> QED BY <1>0, <1>1, FoldsExist
<1>3. Recurs(g)
  <2> HIDE DEF N
  <2>1. ASSUME NEW t \in SUBSET (1..N), t # {}
        PROVE  g[t] = IF Signing!Effect(s[Highest(t)])
                        THEN Append(g[t \ {Highest(t)}], s[Highest(t)])
                        ELSE g[t \ {Highest(t)}]
    <3>1. Highest(t) \in t
      BY <1>0, <2>1, HighestIsMember
    <3>2. g[t \ {Highest(t)}] \in V /\ s[Highest(t)] \in E
      BY <1>0, <1>2, <3>1
    <3>3. g[t] = h[<<g[t \ {Highest(t)}], s[Highest(t)]>>]
      BY <1>2, <2>1 DEF Folds
    <3> HIDE DEF V
    <3> QED BY <3>2, <3>3
  <2>2. g[{}] = <<>>
    BY <1>2 DEF Folds
  <2>3. g = [t \in SUBSET (1..N) |-> g[t]]
    BY <1>2
  <2> QED BY <2>1, <2>2, <2>3
<1>4. Recurs(it)
  <2> HIDE DEF Recurs
  <2> QED BY <1>3
<1>5. Signing!Effects(s) = it[1..N]
  BY <1>0 DEF Signing!Effects, Signing!FoldLeft, Signing!MapThenFoldSet, Signing!Max, Highest
<1>6. it[{}] = <<>>
  <2>1. it[{}] = IF {} = {} THEN <<>>
                 ELSE IF Signing!Effect(s[Highest({})])
                   THEN Append(it[{} \ {Highest({})}], s[Highest({})])
                   ELSE it[{} \ {Highest({})}]
    BY <1>4
  <2> QED BY <2>1
<1>7. ASSUME NEW n \in 1..N
      PROVE  it[1..n] = IF Signing!Effect(s[n]) THEN Append(it[1..(n - 1)], s[n]) ELSE it[1..(n - 1)]
  <2> DEFINE t == 1..n
  <2>1. t \in SUBSET (1..N) /\ t # {} /\ Highest(t) = n /\ t \ {Highest(t)} = 1..(n - 1)
    BY <1>0, Prefixes
  <2> HIDE DEF t
  <2>2. it[t] = IF Signing!Effect(s[Highest(t)])
                  THEN Append(it[t \ {Highest(t)}], s[Highest(t)]) ELSE it[t \ {Highest(t)}]
    BY <1>4, <2>1
  <2>3. it[t] = IF Signing!Effect(s[n]) THEN Append(it[1..(n - 1)], s[n]) ELSE it[1..(n - 1)]
    <3> HIDE DEF it
    <3>1. Highest(t) = n /\ t \ {Highest(t)} = 1..(n - 1)
      BY <2>1
    <3> QED BY <2>2, <3>1
  <2> QED BY <2>3 DEF t
<1> DEFINE d == [n \in 0..N |-> it[1..n]]
           Good == {n \in Nat : n \in 0..N => it[1..n] \in V}
<1> HIDE DEF it
<1>8. Nat \subseteq Good
  <2>1. 0 \in Good
    <3>1. 1..0 = {}
      OBVIOUS
    <3>2. it[1..0] = <<>>
      BY <1>6, <3>1
    <3>3. it[1..0] \in V
      BY <3>2
    <3> QED BY <3>3
  <2>2. ASSUME NEW n \in Nat, n \in Good PROVE n + 1 \in Good
    <3> SUFFICES ASSUME n + 1 \in 0..N PROVE it[1..(n + 1)] \in V
      <4> HIDE DEF V
      <4> QED OBVIOUS
    <3>1. n + 1 \in 1..N /\ n \in 0..N /\ (n + 1) - 1 = n
      BY <1>0
    <3>2. it[1..n] \in V
      <4> HIDE DEF V
      <4> QED BY <2>2, <3>1
    <3>3. s[n + 1] \in E
      BY <1>0, <3>1
    <3>4. it[1..(n + 1)] = IF Signing!Effect(s[n + 1]) THEN Append(it[1..n], s[n + 1]) ELSE it[1..n]
      <4> HIDE DEF N
      <4> QED BY <1>7, <3>1
    <3>5. Append(it[1..n], s[n + 1]) \in V
      BY <3>2, <3>3
    <3> QED BY <3>2, <3>4, <3>5
  <2> HIDE DEF Good
  <2> QED BY <2>1, <2>2, EveryNat
<1>9. d \in [0..N -> V]
  <2> HIDE DEF V
  <2>1. \A n \in 0..N : it[1..n] \in V
    BY <1>0, <1>8
  <2> QED BY <2>1
<1>10. Selects(s, d)
  <2>1. 1..0 = {} /\ 0 \in 0..N
    BY <1>0
  <2>2. d[0] = <<>>
    BY <1>6, <2>1
  <2>3. \A n \in 1..N : n \in 0..N /\ n - 1 \in 0..N
    BY <1>0
  <2>4. \A n \in 1..N :
          d[n] = IF Signing!Effect(s[n]) THEN Append(d[n - 1], s[n]) ELSE d[n - 1]
    BY <1>7, <2>3
  <2> HIDE DEF d
  <2> QED BY <2>2, <2>4 DEF Selects
<1>11. d[N] = Signing!Effects(s)
  BY <1>0, <1>5
<1> HIDE DEF d
<1> QED BY <1>9, <1>10, <1>11

-----------------------------------------------------------------------------
(* One instruction *)

Taken(d, ix) ==
  \/ ix.op = "units" /\ ~d.metered
  \/ ix.op = "price" /\ ~d.priced
  \/ Signing!InMemory(ix) /\ ix.op \notin d.memory

Guard(ix, aside) == aside /\ ix.op = "assert"

(* What one instruction makes of a description. *)
After(d, ix, aside, e) ==
  /\ e.units = IF ix.op = "units" /\ ~d.metered THEN ix.arg ELSE d.units
  /\ e.metered = IF ix.op = "units" THEN TRUE ELSE d.metered
  /\ e.price = IF ix.op = "price" /\ ~d.priced THEN ix.arg ELSE d.price
  /\ e.priced = IF ix.op = "price" THEN TRUE ELSE d.priced
  /\ e.memory = IF Signing!InMemory(ix) THEN d.memory \cup {ix.op} ELSE d.memory
  /\ e.guards = IF Guard(ix, aside)
                  THEN d.guards \cup {"lighthouse", ix.arg} ELSE d.guards
  /\ e.rest = IF Taken(d, ix) \/ Guard(ix, aside) THEN d.rest ELSE Append(d.rest, ix)
  /\ e.misplaced = IF Taken(d, ix) \/ Guard(ix, aside) \/ d.guards = {}
                     THEN d.misplaced ELSE TRUE

LEMMA OneInstruction ==
  ASSUME NEW E, NEW d \in Descriptions(E), NEW ix, NEW aside, NEW e,
         e = Signing!SetAside(d, ix, aside)
  PROVE  After(d, ix, aside, e)
<1> DEFINE args == {i.arg : i \in E}
           ops == {i.op : i \in E}
<1>1. d \in [units : {0} \cup args, metered : BOOLEAN, price : {0} \cup args, priced : BOOLEAN,
              memory : SUBSET ops, guards : SUBSET ({"lighthouse"} \cup args),
              misplaced : BOOLEAN, rest : Seq(E)]
  BY DEF Descriptions
<1>2. Signing!AfterGuard(d) = (d.guards # {})
  BY DEF Signing!AfterGuard
<1>3. Signing!InMemory(ix) => ix.op \in {"heap", "loaded"}
  BY DEF Signing!InMemory
<1> HIDE DEF args, ops
<1>4. CASE ix.op = "units" /\ ~d.metered
  <2>1. e = [d EXCEPT !.units = ix.arg, !.metered = TRUE]
    BY <1>4 DEF Signing!SetAside, Guard
  <2>2. /\ e.units = ix.arg /\ e.metered = TRUE /\ e.price = d.price /\ e.priced = d.priced
        /\ e.memory = d.memory /\ e.guards = d.guards
        /\ e.rest = d.rest /\ e.misplaced = d.misplaced
    BY <1>1, <2>1
  <2>3. ix.op = "units" /\ ~d.metered /\ ~Signing!InMemory(ix) /\ ~Guard(ix, aside)
    BY <1>3, <1>4 DEF Guard
  <2>4. e.rest = IF Taken(d, ix) \/ Guard(ix, aside)
                   THEN d.rest ELSE Append(d.rest, ix)
    BY <2>2, <2>3 DEF Taken, Guard
  <2>5. e.misplaced = IF Taken(d, ix) \/ Guard(ix, aside) \/ d.guards = {}
                        THEN d.misplaced ELSE TRUE
    BY <2>2, <2>3 DEF Taken, Guard
  <2>6. /\ e.units = IF ix.op = "units" /\ ~d.metered THEN ix.arg ELSE d.units
        /\ e.metered = IF ix.op = "units" THEN TRUE ELSE d.metered
        /\ e.price = IF ix.op = "price" /\ ~d.priced THEN ix.arg ELSE d.price
        /\ e.priced = IF ix.op = "price" THEN TRUE ELSE d.priced
        /\ e.guards = IF Guard(ix, aside)
                        THEN d.guards \cup {"lighthouse", ix.arg} ELSE d.guards
    BY <2>2, <2>3
  <2>7. e.memory = IF Signing!InMemory(ix) THEN d.memory \cup {ix.op} ELSE d.memory
    BY <2>2, <2>3
  <2> QED BY <2>4, <2>5, <2>6, <2>7 DEF After
<1>5. CASE ix.op = "price" /\ ~d.priced
  <2>1. e = [d EXCEPT !.price = ix.arg, !.priced = TRUE]
    BY <1>5 DEF Signing!SetAside, Guard
  <2>2. /\ e.units = d.units /\ e.metered = d.metered /\ e.price = ix.arg /\ e.priced = TRUE
        /\ e.memory = d.memory /\ e.guards = d.guards
        /\ e.rest = d.rest /\ e.misplaced = d.misplaced
    BY <1>1, <2>1
  <2>3. ix.op = "price" /\ ~d.priced /\ ~Signing!InMemory(ix) /\ ~Guard(ix, aside)
    BY <1>3, <1>5 DEF Guard
  <2>4. e.rest = IF Taken(d, ix) \/ Guard(ix, aside)
                   THEN d.rest ELSE Append(d.rest, ix)
    BY <2>2, <2>3 DEF Taken, Guard
  <2>5. e.misplaced = IF Taken(d, ix) \/ Guard(ix, aside) \/ d.guards = {}
                        THEN d.misplaced ELSE TRUE
    BY <2>2, <2>3 DEF Taken, Guard
  <2>6. /\ e.units = IF ix.op = "units" /\ ~d.metered THEN ix.arg ELSE d.units
        /\ e.metered = IF ix.op = "units" THEN TRUE ELSE d.metered
        /\ e.price = IF ix.op = "price" /\ ~d.priced THEN ix.arg ELSE d.price
        /\ e.priced = IF ix.op = "price" THEN TRUE ELSE d.priced
        /\ e.guards = IF Guard(ix, aside)
                        THEN d.guards \cup {"lighthouse", ix.arg} ELSE d.guards
    BY <2>2, <2>3
  <2>7. e.memory = IF Signing!InMemory(ix) THEN d.memory \cup {ix.op} ELSE d.memory
    BY <2>2, <2>3
  <2> QED BY <2>4, <2>5, <2>6, <2>7 DEF After
<1>6. CASE Signing!InMemory(ix) /\ ix.op \notin d.memory
  <2>1. e = [d EXCEPT !.memory = @ \cup {ix.op}]
    BY <1>3, <1>6 DEF Signing!SetAside, Guard
  <2>2. /\ e.units = d.units /\ e.metered = d.metered /\ e.price = d.price /\ e.priced = d.priced
        /\ e.memory = d.memory \cup {ix.op} /\ e.guards = d.guards
        /\ e.rest = d.rest /\ e.misplaced = d.misplaced
    BY <1>1, <2>1
  <2>3. /\ ix.op \in {"heap", "loaded"} /\ ix.op \notin d.memory
        /\ Signing!InMemory(ix) /\ ~Guard(ix, aside)
    BY <1>3, <1>6 DEF Guard
  <2>4. e.rest = IF Taken(d, ix) \/ Guard(ix, aside)
                   THEN d.rest ELSE Append(d.rest, ix)
    BY <2>2, <2>3 DEF Taken, Guard
  <2>5. e.misplaced = IF Taken(d, ix) \/ Guard(ix, aside) \/ d.guards = {}
                        THEN d.misplaced ELSE TRUE
    BY <2>2, <2>3 DEF Taken, Guard
  <2>6. /\ e.units = IF ix.op = "units" /\ ~d.metered THEN ix.arg ELSE d.units
        /\ e.metered = IF ix.op = "units" THEN TRUE ELSE d.metered
        /\ e.price = IF ix.op = "price" /\ ~d.priced THEN ix.arg ELSE d.price
        /\ e.priced = IF ix.op = "price" THEN TRUE ELSE d.priced
        /\ e.guards = IF Guard(ix, aside)
                        THEN d.guards \cup {"lighthouse", ix.arg} ELSE d.guards
    BY <2>2, <2>3
  <2>7. e.memory = IF Signing!InMemory(ix) THEN d.memory \cup {ix.op} ELSE d.memory
    BY <2>2, <2>3
  <2> QED BY <2>4, <2>5, <2>6, <2>7 DEF After
<1>7. CASE ~Taken(d, ix) /\ Guard(ix, aside)
  <2>1. e = [d EXCEPT !.guards = @ \cup {"lighthouse", ix.arg}]
    BY <1>7 DEF Signing!SetAside, Guard, Taken
  <2>2. /\ e.units = d.units /\ e.metered = d.metered /\ e.price = d.price /\ e.priced = d.priced
        /\ e.memory = d.memory /\ e.guards = d.guards \cup {"lighthouse", ix.arg}
        /\ e.rest = d.rest /\ e.misplaced = d.misplaced
    BY <1>1, <2>1
  <2>3. ix.op = "assert" /\ ~Signing!InMemory(ix) /\ Guard(ix, aside)
    BY <1>3, <1>7 DEF Guard
  <2>4. e.rest = IF Taken(d, ix) \/ Guard(ix, aside)
                   THEN d.rest ELSE Append(d.rest, ix)
    BY <2>2, <2>3 DEF Taken, Guard
  <2>5. e.misplaced = IF Taken(d, ix) \/ Guard(ix, aside) \/ d.guards = {}
                        THEN d.misplaced ELSE TRUE
    BY <2>2, <2>3 DEF Taken, Guard
  <2>6. /\ e.units = IF ix.op = "units" /\ ~d.metered THEN ix.arg ELSE d.units
        /\ e.metered = IF ix.op = "units" THEN TRUE ELSE d.metered
        /\ e.price = IF ix.op = "price" /\ ~d.priced THEN ix.arg ELSE d.price
        /\ e.priced = IF ix.op = "price" THEN TRUE ELSE d.priced
        /\ e.guards = IF Guard(ix, aside)
                        THEN d.guards \cup {"lighthouse", ix.arg} ELSE d.guards
    BY <2>2, <2>3
  <2>7. e.memory = IF Signing!InMemory(ix) THEN d.memory \cup {ix.op} ELSE d.memory
    BY <2>2, <2>3
  <2> QED BY <2>4, <2>5, <2>6, <2>7 DEF After
<1>8. CASE ~Taken(d, ix) /\ ~Guard(ix, aside)
  <2>1. e = [d EXCEPT !.rest = Append(@, ix), !.misplaced = @ \/ Signing!AfterGuard(d)]
    BY <1>8 DEF Signing!SetAside, Guard, Taken
  <2>2. /\ e.units = d.units /\ e.metered = d.metered /\ e.price = d.price /\ e.priced = d.priced
        /\ e.memory = d.memory /\ e.guards = d.guards /\ e.rest = Append(d.rest, ix)
        /\ e.misplaced = IF d.guards = {} THEN d.misplaced ELSE TRUE
    BY <1>1, <1>2, <2>1
  <2>3. ~(ix.op = "units" /\ ~d.metered) /\ ~(ix.op = "price" /\ ~d.priced)
    BY <1>8 DEF Taken, Guard
  <2>4. Signing!InMemory(ix) => d.memory \cup {ix.op} = d.memory
    BY <1>8 DEF Taken, Guard
  <2>5. d.priced \in BOOLEAN /\ d.misplaced \in BOOLEAN
    BY <1>1
  <2> QED BY <1>8, <2>2, <2>3, <2>4, <2>5 DEF After
<1> QED BY <1>4, <1>5, <1>6, <1>7, <1>8 DEF Taken, Guard

(* The fee is read alike whether or not assertions are set aside. *)
LEMMA FeeAlike ==
  ASSUME NEW E, NEW s \in Seq(E), NEW A \in BOOLEAN, NEW B \in BOOLEAN,
         NEW c \in [0..Len(s) -> Descriptions(E)], Describes(s, A, c),
         NEW d \in [0..Len(s) -> Descriptions(E)], Describes(s, B, d)
  PROVE  LET n == Len(s) IN
         c[n].units = d[n].units /\ c[n].metered = d[n].metered /\ c[n].price = d[n].price
           /\ c[n].priced = d[n].priced
<1> DEFINE N == Len(s)
           Like(i) == c[i].units = d[i].units /\ c[i].metered = d[i].metered /\ c[i].price = d[i].price
                      /\ c[i].priced = d[i].priced
           Good == {i \in Nat : i \in 0..N => Like(i)}
<1>1. 0 \in Good
  BY DEF Describes
<1>2. ASSUME NEW i \in Nat, i \in Good PROVE i + 1 \in Good
  <2> SUFFICES ASSUME i + 1 \in 0..N PROVE Like(i + 1)
    <3> HIDE DEF Like
    <3> QED OBVIOUS
  <2>1. i + 1 \in 1..N /\ i \in 0..N /\ (i + 1) - 1 = i
    OBVIOUS
  <2>2. c[i + 1] = Signing!SetAside(c[i], s[i + 1], A) /\ d[i + 1] = Signing!SetAside(d[i], s[i + 1], B)
    BY <2>1 DEF Describes
  <2>3. c[i] \in Descriptions(E) /\ d[i] \in Descriptions(E)
    BY <2>1
  <2>4. Like(i)
    BY <1>2, <2>1
  <2> DEFINE x == s[i + 1]
             p == c[i]
             q == d[i]
             v == c[i + 1]
             w == d[i + 1]
  <2>5. p \in Descriptions(E) /\ q \in Descriptions(E)
        /\ v = Signing!SetAside(p, x, A) /\ w = Signing!SetAside(q, x, B)
    BY <2>2, <2>3
  <2>6. p.units = q.units /\ p.metered = q.metered /\ p.price = q.price /\ p.priced = q.priced
    BY <2>4
  <2> HIDE DEF x, p, q, v, w
  <2>7. /\ v.units = IF x.op = "units" /\ ~p.metered THEN x.arg ELSE p.units
        /\ v.metered = IF x.op = "units" THEN TRUE ELSE p.metered
        /\ v.price = IF x.op = "price" /\ ~p.priced THEN x.arg ELSE p.price
        /\ v.priced = IF x.op = "price" THEN TRUE ELSE p.priced
    BY <2>5, OneInstruction DEF After
  <2>8. /\ w.units = IF x.op = "units" /\ ~q.metered THEN x.arg ELSE q.units
        /\ w.metered = IF x.op = "units" THEN TRUE ELSE q.metered
        /\ w.price = IF x.op = "price" /\ ~q.priced THEN x.arg ELSE q.price
        /\ w.priced = IF x.op = "price" THEN TRUE ELSE q.priced
    BY <2>5, OneInstruction DEF After
  <2>9. v.units = w.units /\ v.metered = w.metered /\ v.price = w.price /\ v.priced = w.priced
    BY <2>6, <2>7, <2>8
  <2> QED BY <2>9 DEF v, w
<1>3. N \in Nat /\ N \in 0..N
  OBVIOUS
<1>4. Nat \subseteq Good
  <2> HIDE DEF Good
  <2> QED BY <1>1, <1>2, EveryNat
<1> QED BY <1>3, <1>4

-----------------------------------------------------------------------------
(* Effects *)

LEMMA EffectsEmpty == Signing!Effects(<<>>) = <<>>
<1>1. <<>> \in Seq({}) /\ Len(<<>>) = 0
  OBVIOUS
<1>2. PICK d \in [0..Len(<<>>) -> Seq({})] :
        Selects(<<>>, d) /\ d[Len(<<>>)] = Signing!Effects(<<>>)
  BY <1>1, EffectSteps
<1> QED BY <1>1, <1>2 DEF Selects

(* What the steps of two messages that agree on a prefix have of it. *)
LEMMA SelectsAlike ==
  ASSUME NEW s, NEW t, NEW c, NEW d, Selects(s, c), Selects(t, d),
         NEW n \in Nat, n <= Len(s), n <= Len(t), Len(s) \in Nat, Len(t) \in Nat,
         \A i \in 1..n : s[i] = t[i]
  PROVE  c[n] = d[n]
<1> DEFINE Good == {i \in Nat : i <= n => c[i] = d[i]}
<1>1. 0 \in Good
  BY DEF Selects
<1>2. ASSUME NEW i \in Nat, i \in Good PROVE i + 1 \in Good
  <2> SUFFICES ASSUME i + 1 <= n PROVE c[i + 1] = d[i + 1]
    OBVIOUS
  <2>1. i + 1 \in 1..n /\ i + 1 \in 1..Len(s) /\ i + 1 \in 1..Len(t) /\ (i + 1) - 1 = i
    OBVIOUS
  <2>2. c[i] = d[i]
    BY <1>2
  <2>3. s[i + 1] = t[i + 1]
    BY <2>1
  <2> QED BY <2>1, <2>2, <2>3 DEF Selects
<1>3. Nat \subseteq Good
  <2> HIDE DEF Good
  <2> QED BY <1>1, <1>2, EveryNat
<1> QED BY <1>3

LEMMA EffectsAppend ==
  ASSUME NEW E, NEW s \in Seq(E), NEW x \in E
  PROVE  Signing!Effects(Append(s, x)) =
           IF Signing!Effect(x) THEN Append(Signing!Effects(s), x) ELSE Signing!Effects(s)
<1> DEFINE t == Append(s, x)
           n == Len(s)
<1>1. /\ t \in Seq(E) /\ n \in Nat /\ Len(t) = n + 1 /\ t[n + 1] = x
      /\ \A i \in 1..n : s[i] = t[i]
  OBVIOUS
<1>2. PICK c \in [0..n -> Seq(E)] : Selects(s, c) /\ c[n] = Signing!Effects(s)
  BY EffectSteps
<1>3. PICK d \in [0..Len(t) -> Seq(E)] : Selects(t, d) /\ d[Len(t)] = Signing!Effects(t)
  BY <1>1, EffectSteps
<1> HIDE DEF t, n
<1>4. n <= Len(s) /\ n <= Len(t) /\ Len(s) \in Nat /\ Len(t) \in Nat
  BY <1>1 DEF n
<1>5. c[n] = d[n]
  <2>1. Selects(s, c) /\ Selects(t, d) /\ n \in Nat /\ \A i \in 1..n : s[i] = t[i]
    BY <1>1, <1>2, <1>3
  <2> HIDE DEF n
  <2> QED BY <1>4, <2>1, SelectsAlike, SMTT(60)
<1>6. n + 1 \in 1..Len(t) /\ (n + 1) - 1 = n
  BY <1>1
<1>7. d[n + 1] = IF Signing!Effect(t[n + 1]) THEN Append(d[n], t[n + 1]) ELSE d[n]
  BY <1>3, <1>6 DEF Selects
<1> QED BY <1>1, <1>2, <1>3, <1>5, <1>7 DEF t

(* An instruction of the compute budget in front has no effect. *)
LEMMA EffectsCons ==
  ASSUME NEW E, NEW s \in Seq(E), NEW x \in E, Signing!Budget(x)
  PROVE  Signing!Effects(<<x>> \o s) = Signing!Effects(s)
<1> DEFINE t == <<x>> \o s
           n == Len(s)
<1>1. /\ t \in Seq(E) /\ n \in Nat /\ Len(t) = n + 1 /\ t[1] = x
      /\ \A i \in 1..n : s[i] = t[i + 1]
  OBVIOUS
<1>2. PICK c \in [0..n -> Seq(E)] : Selects(s, c) /\ c[n] = Signing!Effects(s)
  BY EffectSteps
<1>3. PICK d \in [0..Len(t) -> Seq(E)] : Selects(t, d) /\ d[Len(t)] = Signing!Effects(t)
  BY <1>1, EffectSteps
<1> DEFINE Good == {i \in Nat : i <= n => c[i] = d[i + 1]}
<1> HIDE DEF t
<1>4. 0 \in Good
  <2>1. ~Signing!Effect(x)
    BY DEF Signing!Effect
  <2>2. 1 \in 1..Len(t) /\ 1 - 1 = 0
    BY <1>1
  <2>3. d[1] = d[0]
    BY <1>1, <1>3, <2>1, <2>2 DEF Selects
  <2> QED BY <1>2, <1>3, <2>3 DEF Selects
<1>5. ASSUME NEW i \in Nat, i \in Good PROVE i + 1 \in Good
  <2> SUFFICES ASSUME i + 1 <= n PROVE c[i + 1] = d[(i + 1) + 1]
    OBVIOUS
  <2>1. /\ i + 1 \in 1..n /\ (i + 1) + 1 \in 1..Len(t) /\ (i + 1) - 1 = i
        /\ ((i + 1) + 1) - 1 = i + 1
    BY <1>1
  <2>2. c[i] = d[i + 1]
    BY <1>5, <2>1
  <2>3. s[i + 1] = t[(i + 1) + 1]
    BY <1>1, <2>1
  <2>4. c[i + 1] = IF Signing!Effect(s[i + 1]) THEN Append(c[i], s[i + 1]) ELSE c[i]
    BY <1>2, <2>1 DEF Selects
  <2>5. d[(i + 1) + 1] = IF Signing!Effect(t[(i + 1) + 1])
                          THEN Append(d[i + 1], t[(i + 1) + 1]) ELSE d[i + 1]
    BY <1>3, <2>1 DEF Selects
  <2> QED BY <2>2, <2>3, <2>4, <2>5
<1>6. Nat \subseteq Good
  <2> HIDE DEF Good
  <2> QED BY <1>4, <1>5, EveryNat
<1>7. c[n] = d[n + 1]
  <2>1. n \in Good
    <3> HIDE DEF Good
    <3> QED BY <1>1, <1>6
  <2> QED BY <1>1, <2>1
<1> QED BY <1>1, <1>2, <1>3, <1>7 DEF t

-----------------------------------------------------------------------------
(* What is set aside *)

(* What Describe sets aside has no effect. *)
LEMMA RestHasEffects ==
  ASSUME NEW E, NEW s \in Seq(E), NEW aside,
         NEW d \in [0..Len(s) -> Descriptions(E)], Describes(s, aside, d)
  PROVE  Signing!Effects(s) = Signing!Effects(d[Len(s)].rest)
<1> DEFINE N == Len(s)
<1>1. PICK c \in [0..N -> Seq(E)] : Selects(s, c) /\ c[N] = Signing!Effects(s)
  BY EffectSteps
<1> DEFINE Good == {i \in Nat : i \in 0..N => c[i] = Signing!Effects(d[i].rest)}
<1>2. 0 \in Good
  <2>1. d[0].rest = <<>> /\ c[0] = <<>>
    BY <1>1 DEF Describes, Selects, Signing!Undescribed
  <2> QED BY <2>1, EffectsEmpty
<1>3. ASSUME NEW i \in Nat, i \in Good PROVE i + 1 \in Good
  <2> SUFFICES ASSUME i + 1 \in 0..N PROVE c[i + 1] = Signing!Effects(d[i + 1].rest)
    OBVIOUS
  <2>1. i + 1 \in 1..N /\ i \in 0..N /\ (i + 1) - 1 = i /\ s[i + 1] \in E
    OBVIOUS
  <2>2. c[i] = Signing!Effects(d[i].rest)
    BY <1>3, <2>1
  <2> DEFINE x == s[i + 1]
             p == d[i]
             v == d[i + 1]
  <2>3. v = Signing!SetAside(p, x, aside) /\ p \in Descriptions(E) /\ x \in E
    BY <2>1 DEF Describes
  <2>4. c[i + 1] = IF Signing!Effect(x) THEN Append(c[i], x) ELSE c[i]
    BY <1>1, <2>1 DEF Selects
  <2>5. v.rest = IF Taken(p, x) \/ Guard(x, aside) THEN p.rest ELSE Append(p.rest, x)
    <3> HIDE DEF x, p, v
    <3>1. After(p, x, aside, v)
      BY <2>3, OneInstruction
    <3> QED BY <3>1 DEF After
  <2>6. Taken(p, x) \/ Guard(x, aside) => ~Signing!Effect(x)
    BY DEF Taken, Guard, Signing!Effect, Signing!Budget, Signing!InMemory
  <2>7. p.rest \in Seq(E)
    BY <2>3 DEF Descriptions
  <2>8. Signing!Effects(Append(p.rest, x)) =
          IF Signing!Effect(x) THEN Append(Signing!Effects(p.rest), x) ELSE Signing!Effects(p.rest)
    BY <2>3, <2>7, EffectsAppend
  <2>9. c[i] = Signing!Effects(p.rest)
    BY <2>2 DEF p
  <2>10. c[i + 1] = Signing!Effects(v.rest)
    BY <2>4, <2>5, <2>6, <2>8, <2>9
  <2> QED BY <2>10 DEF v
<1>4. N \in Nat /\ N \in 0..N
  OBVIOUS
<1>5. Nat \subseteq Good
  <2> HIDE DEF Good
  <2> QED BY <1>2, <1>3, EveryNat
<1> QED BY <1>1, <1>4, <1>5

(* An assertion among the first n, and one ahead of an effect. *)
Asserted(s, n) == \E i \in 1..n : s[i].op = "assert"
Ahead(s, n) == \E i \in 1..n : \E j \in 1..n : i < j /\ Signing!Effect(s[j]) /\ s[i].op = "assert"

LEMMA AheadStep ==
  ASSUME NEW s, NEW n \in Nat
  PROVE  /\ Asserted(s, n + 1) <=> Asserted(s, n) \/ s[n + 1].op = "assert"
         /\ Ahead(s, n + 1) <=> Ahead(s, n) \/ (Asserted(s, n) /\ Signing!Effect(s[n + 1]))
<1>1. \A i : i \in 1..(n + 1) <=> i \in 1..n \/ i = n + 1
  OBVIOUS
<1>2. \A i \in 1..n : i < n + 1 /\ ~(n + 1 < i)
  OBVIOUS
<1>3. ~(n + 1 < n + 1)
  OBVIOUS
<1>4. Asserted(s, n + 1) <=> Asserted(s, n) \/ s[n + 1].op = "assert"
  BY <1>1, Zenon DEF Asserted
<1>5. Ahead(s, n + 1) <=> Ahead(s, n) \/ (Asserted(s, n) /\ Signing!Effect(s[n + 1]))
  BY <1>1, <1>2, <1>3 DEF Ahead, Asserted
<1> QED BY <1>4, <1>5

LEMMA AheadAlike ==
  ASSUME NEW s, NEW t, NEW n \in Nat, \A i \in 1..n : s[i] = t[i]
  PROVE  (Asserted(s, n) <=> Asserted(t, n)) /\ (Ahead(s, n) <=> Ahead(t, n))
<1>1. Asserted(s, n) <=> Asserted(t, n)
  BY DEF Asserted
<1>2. Ahead(s, n) <=> Ahead(t, n)
  BY DEF Ahead
<1> QED BY <1>1, <1>2

LEMMA AheadAppend ==
  ASSUME NEW E, NEW s \in Seq(E), NEW x \in E
  PROVE  LET t == Append(s, x) IN
         /\ Asserted(t, Len(t)) <=> Asserted(s, Len(s)) \/ x.op = "assert"
         /\ Ahead(t, Len(t)) <=>
              Ahead(s, Len(s)) \/ (Asserted(s, Len(s)) /\ Signing!Effect(x))
<1> DEFINE t == Append(s, x)
           n == Len(s)
<1>1. n \in Nat /\ Len(t) = n + 1 /\ t[n + 1] = x /\ \A i \in 1..n : t[i] = s[i]
  OBVIOUS
<1> HIDE DEF t
<1>2. /\ Asserted(t, n + 1) <=> Asserted(t, n) \/ t[n + 1].op = "assert"
      /\ Ahead(t, n + 1) <=> Ahead(t, n) \/ (Asserted(t, n) /\ Signing!Effect(t[n + 1]))
  BY <1>1, AheadStep
<1>3. (Asserted(t, n) <=> Asserted(s, n)) /\ (Ahead(t, n) <=> Ahead(s, n))
  BY <1>1, AheadAlike
<1>4. /\ Asserted(t, Len(t)) <=> Asserted(s, Len(s)) \/ x.op = "assert"
      /\ Ahead(t, Len(t)) <=> Ahead(s, Len(s)) \/ (Asserted(s, Len(s)) /\ Signing!Effect(x))
  BY <1>1, <1>2, <1>3
<1> QED BY <1>4 DEF t

LEMMA NoneAhead ==
  ASSUME NEW s
  PROVE  ~Asserted(s, 0) /\ ~Ahead(s, 0)
<1>1. 1..0 = {}
  OBVIOUS
<1> QED BY <1>1 DEF Asserted, Ahead

(* Where no assertion is set aside, the rest has them where they were. *)
LEMMA RestKeepsOrder ==
  ASSUME NEW E, NEW s \in Seq(E),
         NEW aside, ~aside,
         NEW d \in [0..Len(s) -> Descriptions(E)], Describes(s, aside, d)
  PROVE  LET r == d[Len(s)].rest IN Ahead(s, Len(s)) <=> Ahead(r, Len(r))
<1> DEFINE N == Len(s)
           Like(i) == /\ Asserted(s, i) <=> Asserted(d[i].rest, Len(d[i].rest))
                      /\ Ahead(s, i) <=> Ahead(d[i].rest, Len(d[i].rest))
           Good == {i \in Nat : i \in 0..N => Like(i)}
<1>1. 0 \in Good
  <2>1. d[0].rest = <<>> /\ Len(<<>>) = 0
    BY DEF Describes, Signing!Undescribed
  <2> QED BY <2>1, NoneAhead
<1>2. ASSUME NEW i \in Nat, i \in Good PROVE i + 1 \in Good
  <2> SUFFICES ASSUME i + 1 \in 0..N PROVE Like(i + 1)
    <3> HIDE DEF Like
    <3> QED OBVIOUS
  <2>1. i + 1 \in 1..N /\ i \in 0..N /\ (i + 1) - 1 = i /\ s[i + 1] \in E
    OBVIOUS
  <2> DEFINE x == s[i + 1]
             p == d[i].rest
             v == d[i + 1].rest
  <2>2. d[i + 1] = Signing!SetAside(d[i], x, aside) /\ d[i] \in Descriptions(E) /\ x \in E
    BY <2>1 DEF Describes
  <2>3. v = IF Taken(d[i], x) \/ Guard(x, aside) THEN p ELSE Append(p, x)
    <3>1. After(d[i], x, aside, d[i + 1])
      BY <2>2, OneInstruction
    <3> QED BY <3>1 DEF After
  <2>4. p \in Seq(E)
    BY <2>2 DEF Descriptions
  <2>5. (Asserted(s, i) <=> Asserted(p, Len(p))) /\ (Ahead(s, i) <=> Ahead(p, Len(p)))
    BY <1>2, <2>1
  <2>6. /\ Asserted(s, i + 1) <=> Asserted(s, i) \/ x.op = "assert"
        /\ Ahead(s, i + 1) <=> Ahead(s, i) \/ (Asserted(s, i) /\ Signing!Effect(x))
    BY AheadStep
  <2>7. Taken(d[i], x) => ~Signing!Effect(x) /\ x.op # "assert"
    BY DEF Taken, Guard, Signing!Effect, Signing!Budget, Signing!InMemory
  <2>8. /\ Asserted(Append(p, x), Len(Append(p, x))) <=> Asserted(p, Len(p)) \/ x.op = "assert"
        /\ Ahead(Append(p, x), Len(Append(p, x))) <=>
             Ahead(p, Len(p)) \/ (Asserted(p, Len(p)) /\ Signing!Effect(x))
    BY <2>2, <2>4, AheadAppend
  <2> HIDE DEF x, p, v
  <2>9. CASE Taken(d[i], x)
    <3>1. v = p
      BY <2>3, <2>9
    <3>2. /\ Asserted(s, i + 1) <=> Asserted(v, Len(v))
          /\ Ahead(s, i + 1) <=> Ahead(v, Len(v))
      BY <2>5, <2>6, <2>7, <2>9, <3>1
    <3> QED BY <3>2 DEF v
  <2>10. CASE ~Taken(d[i], x)
    <3>1. v = Append(p, x)
      BY <2>3, <2>10 DEF Guard
    <3>2. /\ Asserted(s, i + 1) <=> Asserted(v, Len(v))
          /\ Ahead(s, i + 1) <=> Ahead(v, Len(v))
      BY <2>5, <2>6, <2>8, <3>1
    <3> QED BY <3>2 DEF v
  <2> QED BY <2>9, <2>10
<1>3. N \in Nat /\ N \in 0..N
  OBVIOUS
<1>4. Nat \subseteq Good
  <2> HIDE DEF Good
  <2> QED BY <1>1, <1>2, EveryNat
<1>5. Like(N)
  BY <1>3, <1>4
<1> QED BY <1>5

(* Where they are, none is ahead of an effect unless one is misplaced. *)
LEMMA MisplacedIsNoticed ==
  ASSUME NEW E, NEW s \in Seq(E),
         NEW aside, aside,
         NEW d \in [0..Len(s) -> Descriptions(E)], Describes(s, aside, d)
  PROVE  Ahead(s, Len(s)) => d[Len(s)].misplaced
<1> DEFINE N == Len(s)
           Like(i) == /\ Asserted(s, i) => d[i].guards # {}
                      /\ Ahead(s, i) => d[i].misplaced
           Good == {i \in Nat : i \in 0..N => Like(i)}
<1>1. 0 \in Good
  BY NoneAhead
<1>2. ASSUME NEW i \in Nat, i \in Good PROVE i + 1 \in Good
  <2> SUFFICES ASSUME i + 1 \in 0..N PROVE Like(i + 1)
    <3> HIDE DEF Like
    <3> QED OBVIOUS
  <2>1. i + 1 \in 1..N /\ i \in 0..N /\ (i + 1) - 1 = i /\ s[i + 1] \in E
    OBVIOUS
  <2> DEFINE x == s[i + 1]
             p == d[i]
             v == d[i + 1]
  <2>2. v = Signing!SetAside(p, x, aside) /\ p \in Descriptions(E)
    BY <2>1 DEF Describes
  <2>3. /\ v.guards = IF Guard(x, aside)
                        THEN p.guards \cup {"lighthouse", x.arg} ELSE p.guards
        /\ v.misplaced = IF Taken(p, x) \/ Guard(x, aside) \/ p.guards = {}
                           THEN p.misplaced ELSE TRUE
    BY <2>2, OneInstruction DEF After
  <2>4. (Asserted(s, i) => p.guards # {}) /\ (Ahead(s, i) => p.misplaced)
    BY <1>2, <2>1
  <2>5. /\ Asserted(s, i + 1) <=> Asserted(s, i) \/ x.op = "assert"
        /\ Ahead(s, i + 1) <=> Ahead(s, i) \/ (Asserted(s, i) /\ Signing!Effect(x))
    BY AheadStep
  <2>6. Taken(p, x) \/ x.op = "assert" => ~Signing!Effect(x)
    BY DEF Taken, Guard, Signing!Effect, Signing!Budget, Signing!InMemory
  <2>7. p.misplaced \in BOOLEAN
    BY <2>2 DEF Descriptions
  <2> HIDE DEF x, p, v
  <2>8. Asserted(s, i + 1) => v.guards # {}
    BY <2>3, <2>4, <2>5 DEF Guard
  <2>9. Ahead(s, i + 1) => v.misplaced
    <3>1. CASE Signing!Effect(x) /\ p.guards # {}
      <4>1. v.misplaced = TRUE
        BY <2>3, <2>6, <3>1 DEF Guard
      <4> QED BY <4>1
    <3>2. CASE ~(Signing!Effect(x) /\ p.guards # {})
      <4>1. Ahead(s, i + 1) => p.misplaced
        BY <2>4, <2>5, <3>2
      <4>2. p.misplaced => v.misplaced
        BY <2>3, <2>7
      <4> QED BY <4>1, <4>2
    <3> QED BY <3>1, <3>2
  <2> QED BY <2>8, <2>9 DEF v
<1>3. N \in Nat /\ N \in 0..N
  OBVIOUS
<1>4. Nat \subseteq Good
  <2> HIDE DEF Good
  <2> QED BY <1>1, <1>2, EveryNat
<1>5. Like(N)
  BY <1>3, <1>4
<1> QED BY <1>5

-----------------------------------------------------------------------------
(* What the server accepts *)

LEMMA FeeIsRead ==
  ASSUME NEW E, NEW m, m.ixs \in Seq(E), NEW aside \in BOOLEAN
  PROVE  LET d == Signing!Describe(m, aside) IN Signing!FeeOf(m) = Signing!PriorityFee(d.units, d.price)
<1>1. PICK c \in [0..Len(m.ixs) -> Descriptions(E)] :
        Describes(m.ixs, FALSE, c) /\ c[Len(m.ixs)] = Signing!Describe(m, FALSE)
  BY DescribeSteps
<1>2. PICK d \in [0..Len(m.ixs) -> Descriptions(E)] :
        Describes(m.ixs, aside, d) /\ d[Len(m.ixs)] = Signing!Describe(m, aside)
  BY DescribeSteps
<1>3. FALSE \in BOOLEAN /\ aside \in BOOLEAN
  OBVIOUS
<1>4. LET n == Len(m.ixs) IN c[n].units = d[n].units /\ c[n].price = d[n].price
  BY <1>1, <1>2, <1>3, FeeAlike
<1> QED BY <1>1, <1>2, <1>4 DEF Signing!FeeOf

(* What a wallet may change. *)
LEMMA ValidChange ==
  ASSUME NEW E, NEW original, original.ixs \in Seq(E),
         NEW w, w.message.ixs \in Seq(E),
         Signing!ValidateWalletFeeChange(original, w)
  PROVE  /\ Signing!Effects(w.message.ixs) = Signing!Effects(original.ixs)
         /\ ~Ahead(original.ixs, Len(original.ixs)) =>
              ~Ahead(w.message.ixs, Len(w.message.ixs))
         /\ original.keys \subseteq w.message.keys
         /\ \A k \in w.message.keys \ original.keys : ~k.writable /\ ~k.signer
         /\ w.message.hash = original.hash
         /\ Signing!FeeOf(w.message) <= FeeLimit
         /\ Signing!Fits(w.message)
<1> DEFINE m == w.message
           G == ~Signing!Guarded(original)
           a == Signing!Describe(original, FALSE)
           b == Signing!Describe(m, G)
<1>1. /\ Signing!Fits(m)
      /\ b.rest = a.rest /\ ~b.misplaced
      /\ m.keys \ Signing!ReadOnlyGuards(m, b, original) = original.keys
      /\ m.hash = original.hash
      /\ Signing!PriorityFee(b.units, b.price) <= FeeLimit
  BY DEF Signing!ValidateWalletFeeChange, Signing!SameShape, Signing!FeeBounded
<1>2. G \in BOOLEAN
  OBVIOUS
<1>3. PICK c \in [0..Len(original.ixs) -> Descriptions(E)] :
        Describes(original.ixs, FALSE, c) /\ c[Len(original.ixs)] = a
  BY DescribeSteps
<1>4. PICK d \in [0..Len(m.ixs) -> Descriptions(E)] :
        Describes(m.ixs, G, d) /\ d[Len(m.ixs)] = b
  <2> HIDE DEF G
  <2> QED BY <1>2, DescribeSteps
<1>5. Signing!FeeOf(m) = Signing!PriorityFee(b.units, b.price)
  <2> HIDE DEF G
  <2> QED BY <1>2, FeeIsRead
<1>6. m.ixs \in Seq(E)
  OBVIOUS
<1> HIDE DEF m, G, a, b
<1>7. Signing!Effects(original.ixs) = Signing!Effects(a.rest)
  BY <1>3, RestHasEffects
<1>8. Signing!Effects(m.ixs) = Signing!Effects(b.rest)
  BY <1>4, <1>6, RestHasEffects
<1>9. ~Ahead(original.ixs, Len(original.ixs)) => ~Ahead(m.ixs, Len(m.ixs))
  <2>1. CASE ~G
    <3>1. ~G /\ ~FALSE
      BY <2>1
    <3>2. Ahead(m.ixs, Len(m.ixs)) <=> Ahead(b.rest, Len(b.rest))
      BY <1>4, <1>6, <3>1, RestKeepsOrder
    <3>3. Ahead(original.ixs, Len(original.ixs)) <=> Ahead(a.rest, Len(a.rest))
      BY <1>3, <3>1, RestKeepsOrder
    <3> QED BY <1>1, <3>2, <3>3
  <2>2. CASE G
    <3>1. G
      BY <2>2
    <3>2. Ahead(m.ixs, Len(m.ixs)) => b.misplaced
      BY <1>4, <1>6, <3>1, MisplacedIsNoticed
    <3> QED BY <1>1, <3>2
  <2> QED BY <2>1, <2>2
<1>10. /\ original.keys \subseteq m.keys
       /\ \A k \in m.keys \ original.keys : ~k.writable /\ ~k.signer
  BY <1>1 DEF Signing!ReadOnlyGuards
<1>11. Signing!FeeOf(m) <= FeeLimit
  BY <1>1, <1>5
<1>12. Signing!Effects(m.ixs) = Signing!Effects(original.ixs)
  BY <1>1, <1>7, <1>8
<1> QED BY <1>1, <1>9, <1>10, <1>11, <1>12 DEF m

(* AsReviewed is kept by such a change. *)
LEMMA NoneAheadStated ==
  ASSUME NEW E, NEW s \in Seq(E)
  PROVE  (\A i, j \in DOMAIN s : i < j /\ Signing!Effect(s[j]) => s[i].op # "assert")
           <=> ~Ahead(s, Len(s))
<1>1. DOMAIN s = 1..Len(s)
  OBVIOUS
<1> QED BY <1>1 DEF Ahead

LEMMA ReviewIsKept ==
  ASSUME NEW E, NEW original, original.ixs \in Seq(E),
         NEW w, w.message.ixs \in Seq(E),
         Signing!AsReviewed(original), Signing!ValidateWalletFeeChange(original, w)
  PROVE  Signing!AsReviewed(w.message)
<1> DEFINE m == w.message
           o == original
           r == Signing!Rebuilt
<1>1. /\ Signing!Effects(m.ixs) = Signing!Effects(o.ixs)
      /\ ~Ahead(o.ixs, Len(o.ixs)) => ~Ahead(m.ixs, Len(m.ixs))
      /\ o.keys \subseteq m.keys
      /\ \A k \in m.keys \ o.keys : ~k.writable /\ ~k.signer
      /\ m.hash = o.hash
      /\ Signing!FeeOf(m) <= FeeLimit
  BY ValidChange
<1>2. /\ Signing!Effects(o.ixs) = Signing!Effects(app)
      /\ \A i, j \in DOMAIN o.ixs : i < j /\ Signing!Effect(o.ixs[j]) => o.ixs[i].op # "assert"
      /\ r.keys \subseteq o.keys
      /\ \A k \in o.keys \ r.keys : ~k.writable /\ ~k.signer
      /\ o.hash = r.hash
  BY DEF Signing!AsReviewed
<1>3. ~Ahead(o.ixs, Len(o.ixs))
  BY <1>2, NoneAheadStated
<1>4. m.ixs \in Seq(E)
  OBVIOUS
<1> HIDE DEF m, o, r
<1>5. \A i, j \in DOMAIN m.ixs : i < j /\ Signing!Effect(m.ixs[j]) => m.ixs[i].op # "assert"
  BY <1>1, <1>3, <1>4, NoneAheadStated
<1>6. r.keys \subseteq m.keys /\ \A k \in m.keys \ r.keys : ~k.writable /\ ~k.signer
  BY <1>1, <1>2
<1>7. Signing!Effects(m.ixs) = Signing!Effects(app) /\ m.hash = r.hash
  BY <1>1, <1>2
<1> QED BY <1>1, <1>5, <1>6, <1>7 DEF m, r, Signing!AsReviewed

-----------------------------------------------------------------------------
(* Messages *)

LEMMA InstructionsHave ==
  /\ Signing!Added \subseteq Signing!Instructions
  /\ Signing!Ix("assert", "payer") \in Signing!Instructions
  /\ Signing!Ix("units", MaxUnits) \in Signing!Instructions
  /\ Signing!Ix("price", 1) \in Signing!Instructions
  /\ \A u \in Units : Signing!Ix("units", u) \in Signing!Instructions
  /\ \A p \in UnitPrices : Signing!Ix("price", p) \in Signing!Instructions
<1>1. /\ \A x \in Signing!Added : x \in Signing!Instructions
      /\ Signing!Ix("assert", "payer") \in Signing!Instructions
      /\ \A u \in Units : Signing!Ix("units", u) \in Signing!Instructions
      /\ \A p \in UnitPrices : Signing!Ix("price", p) \in Signing!Instructions
  BY DEF Signing!Instructions
<1>2. Signing!Ix("units", MaxUnits) \in Signing!Added /\ Signing!Ix("price", 1) \in Signing!Added
  BY DEF Signing!Added
<1> QED BY <1>1, <1>2

(* An account is a key with two privileges. *)
LEMMA NamedAreRecords ==
  ASSUME NEW b, \/ b = Signing!Payer
                \/ \E ix \in Signing!Instructions : b \in Signing!KeysOf(ix)
  PROVE  /\ b = [key |-> b.key, writable |-> b.writable, signer |-> b.signer]
         /\ b.writable \in BOOLEAN
<1>1. \E x : \/ b = [key |-> x, writable |-> TRUE, signer |-> TRUE]
             \/ b = [key |-> x, writable |-> TRUE, signer |-> FALSE]
             \/ b = [key |-> x, writable |-> FALSE, signer |-> FALSE]
  <2>1. CASE b = Signing!Payer
    BY <2>1 DEF Signing!Payer
  <2>2. ASSUME NEW ix \in Signing!Instructions, b \in Signing!KeysOf(ix)
        PROVE  \/ b = [key |-> ix.arg, writable |-> TRUE, signer |-> FALSE]
               \/ b = [key |-> "lighthouse", writable |-> FALSE, signer |-> FALSE]
               \/ b = [key |-> ix.arg, writable |-> FALSE, signer |-> FALSE]
    BY <2>2 DEF Signing!KeysOf
  <2> QED BY <2>1, <2>2
<1>2. b = [key |-> b.key, writable |-> b.writable, signer |-> b.signer]
  BY <1>1
<1>3. b.writable = TRUE \/ b.writable = FALSE
  BY <1>1
<1> QED BY <1>2, <1>3

LEMMA AccountsAreRecords ==
  ASSUME NEW k \in Signing!Accounts
  PROVE  /\ k = [key |-> k.key, writable |-> k.writable, signer |-> k.signer]
         /\ k.writable \in BOOLEAN
         /\ [k EXCEPT !.writable = TRUE] \in Signing!Accounts
<1> DEFINE B == {Signing!Payer} \cup UNION {Signing!KeysOf(ix) : ix \in Signing!Instructions}
<1>1. PICK b \in B, w \in BOOLEAN : k = [b EXCEPT !.writable = w]
  BY DEF Signing!Accounts
<1>2. b = [key |-> b.key, writable |-> b.writable, signer |-> b.signer]
  BY NamedAreRecords
<1>3. b \in B /\ w \in BOOLEAN
  BY <1>1
<1>4. \A v \in BOOLEAN : [b EXCEPT !.writable = v] \in Signing!Accounts
  BY <1>3 DEF Signing!Accounts
<1> HIDE DEF B
<1>5. k = [key |-> b.key, writable |-> w, signer |-> b.signer]
  BY <1>1, <1>2
<1>6. PICK v \in BOOLEAN : v = TRUE
  OBVIOUS
<1>7. [k EXCEPT !.writable = v] = [key |-> b.key, writable |-> v, signer |-> b.signer]
  BY <1>5
<1>8. [b EXCEPT !.writable = v] = [key |-> b.key, writable |-> v, signer |-> b.signer]
  BY <1>2
<1>9. [k EXCEPT !.writable = v] \in Signing!Accounts
  BY <1>4, <1>7, <1>8
<1>10. [k EXCEPT !.writable = TRUE] = [k EXCEPT !.writable = v]
  BY <1>6
<1> QED BY <1>3, <1>5, <1>9, <1>10

LEMMA KeysAreAccounts ==
  /\ Signing!Payer \in Signing!Accounts
  /\ \A ix \in Signing!Instructions : Signing!KeysOf(ix) \subseteq Signing!Accounts
<1> DEFINE B == {Signing!Payer} \cup UNION {Signing!KeysOf(ix) : ix \in Signing!Instructions}
<1>1. ASSUME NEW b \in B PROVE b \in Signing!Accounts
  <2>1. b = [key |-> b.key, writable |-> b.writable, signer |-> b.signer]
        /\ b.writable \in BOOLEAN
    BY NamedAreRecords
  <2>2. PICK w \in BOOLEAN : w = b.writable
    BY <2>1
  <2>3. b = [b EXCEPT !.writable = w]
    BY <2>1, <2>2
  <2>4. b \in B
    BY <1>1
  <2> HIDE DEF B
  <2> QED BY <2>2, <2>3, <2>4 DEF Signing!Accounts, B
<1> QED BY <1>1

LEMMA MergeIsSubset ==
  ASSUME NEW keys
  PROVE  Signing!Merge(keys) \subseteq keys
BY DEF Signing!Merge

LEMMA NamedAccounts ==
  ASSUME NEW s \in Seq(Signing!Instructions)
  PROVE  UNION {Signing!KeysOf(s[i]) : i \in DOMAIN s} \subseteq Signing!Accounts
<1>1. \A i \in DOMAIN s : s[i] \in Signing!Instructions
  OBVIOUS
<1> QED BY <1>1, KeysAreAccounts

LEMMA MessageTyped ==
  ASSUME NEW s \in Seq(Signing!Instructions)
  PROVE  Signing!Message(s) \in Signing!Messages
<1> DEFINE K == {Signing!Payer} \cup UNION {Signing!KeysOf(s[i]) : i \in DOMAIN s}
<1>1. K \subseteq Signing!Accounts
  BY KeysAreAccounts, NamedAccounts
<1>2. Signing!Merge(K) \in SUBSET Signing!Accounts
  <2> HIDE DEF K
  <2> QED BY <1>1, MergeIsSubset
<1>3. Signing!Message(s) = [ixs |-> s, hash |-> "h1", keys |-> Signing!Merge(K)]
  BY DEF Signing!Message
<1> HIDE DEF K
<1> QED BY <1>2, <1>3 DEF Signing!Messages

LEMMA MessageHas ==
  ASSUME NEW m \in Signing!Messages
  PROVE  /\ m = [ixs |-> m.ixs, hash |-> m.hash, keys |-> m.keys]
         /\ m.ixs \in Seq(Signing!Instructions) /\ m.keys \in SUBSET Signing!Accounts
         /\ m # None
BY WireAssumption DEF Signing!Messages

LEMMA WithIxsTyped ==
  ASSUME NEW m \in Signing!Messages, NEW s \in Seq(Signing!Instructions)
  PROVE  Signing!WithIxs(m, s) \in Signing!Messages
<1> DEFINE K == m.keys \cup UNION {Signing!KeysOf(s[i]) : i \in DOMAIN s}
<1>1. K \subseteq Signing!Accounts
  BY MessageHas, NamedAccounts
<1>2. Signing!Merge(K) \in SUBSET Signing!Accounts
  <2> HIDE DEF K
  <2> QED BY <1>1, MergeIsSubset
<1>3. Signing!WithIxs(m, s) = [m EXCEPT !.ixs = s, !.keys = Signing!Merge(K)]
  BY DEF Signing!WithIxs
<1> HIDE DEF K
<1> QED BY <1>2, <1>3 DEF Signing!Messages

LEMMA InsertTyped ==
  ASSUME NEW E, NEW s \in Seq(E), NEW i \in 1..(Len(s) + 1), NEW x \in E
  PROVE  Signing!InsertAt(s, i, x) \in Seq(E)
<1>1. \A j \in 1..(i - 1) : s[j] \in E
  OBVIOUS
<1>2. \A j \in i..Len(s) : s[j] \in E
  OBVIOUS
<1>3. SubSeq(s, 1, i - 1) \in Seq(E) /\ SubSeq(s, i, Len(s)) \in Seq(E)
  BY <1>1, <1>2, SubSeqProperties
<1> QED BY <1>3 DEF Signing!InsertAt

LEMMA RemoveTyped ==
  ASSUME NEW E, NEW s \in Seq(E), NEW i \in DOMAIN s
  PROVE  Signing!RemoveAt(s, i) \in Seq(E)
<1>1. \A j \in 1..(i - 1) : s[j] \in E
  OBVIOUS
<1>2. \A j \in (i + 1)..Len(s) : s[j] \in E
  OBVIOUS
<1>3. SubSeq(s, 1, i - 1) \in Seq(E) /\ SubSeq(s, i + 1, Len(s)) \in Seq(E)
  BY <1>1, <1>2, SubSeqProperties
<1> QED BY <1>3 DEF Signing!RemoveAt

LEMMA RemovedTyped ==
  ASSUME NEW m \in Signing!Messages, NEW i \in DOMAIN m.ixs
  PROVE  [m EXCEPT !.ixs = Signing!RemoveAt(@, i)] \in Signing!Messages
<1>1. Signing!RemoveAt(m.ixs, i) \in Seq(Signing!Instructions)
  BY MessageHas, RemoveTyped
<1> QED BY <1>1 DEF Signing!Messages

(* The fee a wallet sets. *)
Fees(s, u, p) ==
  [i \in DOMAIN s |-> IF s[i].op = "units" THEN Signing!Ix("units", u)
                      ELSE IF s[i].op = "price" THEN Signing!Ix("price", p) ELSE s[i]]

LEMMA FeesTyped ==
  ASSUME NEW m \in Signing!Messages, NEW u \in Units, NEW p \in UnitPrices
  PROVE  /\ Fees(m.ixs, u, p) \in Seq(Signing!Instructions)
         /\ Len(Fees(m.ixs, u, p)) = Len(m.ixs)
         /\ [m EXCEPT !.ixs = Fees(m.ixs, u, p)] \in Signing!Messages
<1> DEFINE s == m.ixs
           t == Fees(m.ixs, u, p)
<1>1. s \in Seq(Signing!Instructions)
  BY MessageHas
<1>2. Signing!Ix("units", u) \in Signing!Instructions /\ Signing!Ix("price", p) \in Signing!Instructions
  BY InstructionsHave
<1>3. t = [i \in DOMAIN s |-> IF s[i].op = "units" THEN Signing!Ix("units", u)
                      ELSE IF s[i].op = "price" THEN Signing!Ix("price", p) ELSE s[i]]
  BY DEF Fees
<1> HIDE DEF t, s
<1>4. Len(s) \in Nat /\ DOMAIN s = 1..Len(s) /\ \A i \in DOMAIN s : s[i] \in Signing!Instructions
  BY <1>1
<1>5. t \in [1..Len(s) -> Signing!Instructions]
  BY <1>2, <1>3, <1>4
<1>6. t \in Seq(Signing!Instructions) /\ Len(t) = Len(s)
  BY <1>4, <1>5
<1>7. [m EXCEPT !.ixs = t] \in Signing!Messages
  BY <1>6 DEF Signing!Messages
<1> QED BY <1>6, <1>7 DEF s, t

LEMMA RaisedTyped ==
  ASSUME NEW m \in Signing!Messages
  PROVE  /\ [m EXCEPT !.hash = "h2"] \in Signing!Messages
         /\ \A k \in m.keys :
              [m EXCEPT !.keys = (@ \ {k}) \cup {[k EXCEPT !.writable = TRUE]}] \in Signing!Messages
<1>1. [m EXCEPT !.hash = "h2"] \in Signing!Messages
  BY DEF Signing!Messages
<1>2. ASSUME NEW k \in m.keys
      PROVE  [m EXCEPT !.keys = (@ \ {k}) \cup {[k EXCEPT !.writable = TRUE]}] \in Signing!Messages
  <2>1. k \in Signing!Accounts /\ m.keys \in SUBSET Signing!Accounts
    BY MessageHas
  <2>2. [k EXCEPT !.writable = TRUE] \in Signing!Accounts
    BY <2>1, AccountsAreRecords
  <2> DEFINE K == (m.keys \ {k}) \cup {[k EXCEPT !.writable = TRUE]}
  <2>3. K \in SUBSET Signing!Accounts
    BY <2>1, <2>2
  <2>4. [m EXCEPT !.keys = K] \in Signing!Messages
    <3> HIDE DEF K
    <3> QED BY <2>3 DEF Signing!Messages
  <2> QED BY <2>4
<1> QED BY <1>1, <1>2

-----------------------------------------------------------------------------
(* The message the application prepares *)

(* What an application asks for. *)
Asks(x) == x.op \in {"units", "price", "heap", "loaded", "transfer"}

LEMMA AppsAsk ==
  ASSUME NEW a \in Apps
  PROVE  /\ a \in Seq(Signing!Instructions) /\ \A i \in DOMAIN a : Asks(a[i])
         /\ \A i, j \in DOMAIN a :
              a[i].op \in {"units", "price"} /\ a[j].op = a[i].op => j = i
BY WireAssumption DEF Asks

(* Once is how often a message names its units, or its price. *)
Once(s, op) == \A i, j \in DOMAIN s : s[i].op = op /\ s[j].op = op => j = i

Prepared(s, a) ==
  /\ s \in Seq(Signing!Instructions) /\ Signing!Effects(s) = Signing!Effects(a)
  /\ \A i \in DOMAIN s : Asks(s[i])
  /\ Once(s, "units") /\ Once(s, "price")

(* A budget instruction in front of it, unless there was one. *)
LEMMA PreparedInFront ==
  ASSUME NEW a, NEW s, Prepared(s, a),
         NEW x \in Signing!Instructions, NEW op \in {"units", "price"}, x.op = op,
         NEW f, f = <<>> \/ (f = <<x>> /\ ~Signing!Has(s, op))
  PROVE  Prepared(f \o s, a)
<1>0. s \in Seq(Signing!Instructions)
  BY DEF Prepared
<1>1. CASE f = <<>>
  <2>1. f \o s = s
    BY <1>0, <1>1
  <2> QED BY <2>1
<1>2. CASE f = <<x>> /\ ~Signing!Has(s, op)
  <2> DEFINE t == <<x>> \o s
             n == Len(s)
  <2>1. /\ t \in Seq(Signing!Instructions) /\ Len(t) = n + 1 /\ t[1] = x
        /\ \A i \in 2..(n + 1) : t[i] = s[i - 1]
    BY <1>0
  <2>2. DOMAIN t = 1..(n + 1) /\ DOMAIN s = 1..n /\ n \in Nat
    BY <1>0, <2>1
  <2>3. Signing!Effects(t) = Signing!Effects(s)
    BY <1>0, EffectsCons DEF Signing!Budget
  <2> HIDE DEF t, n
  <2>4. \A i \in DOMAIN t :
          i \in Nat /\ ((i = 1 /\ t[i] = x) \/ (i - 1 \in DOMAIN s /\ t[i] = s[i - 1]))
    <3>1. \A i \in 1..(n + 1) : i \in Nat /\ (i = 1 \/ (i \in 2..(n + 1) /\ i - 1 \in 1..n))
      BY <2>2
    <3> QED BY <2>1, <2>2, <3>1
  <2>5. \A i \in DOMAIN s : s[i].op # op
    BY <1>2 DEF Signing!Has
  <2>6. \A i \in DOMAIN t : Asks(t[i])
    <3>1. Asks(x)
      BY DEF Asks
    <3> QED BY <2>4, <3>1 DEF Prepared
  <2>7. ASSUME NEW o \in {"units", "price"} PROVE Once(t, o)
    <3>1. Once(s, o)
      BY DEF Prepared
    <3> SUFFICES ASSUME NEW i \in DOMAIN t, NEW j \in DOMAIN t, t[i].op = o, t[j].op = o
                 PROVE  j = i
      BY DEF Once
    <3>2. i \in Nat /\ j \in Nat
      BY <2>4
    <3>3. CASE o = op
      <4>1. i = 1 /\ j = 1
        BY <2>4, <2>5, <3>3
      <4> QED BY <4>1
    <3>4. CASE o # op
      <4>1. i - 1 \in DOMAIN s /\ s[i - 1].op = o /\ j - 1 \in DOMAIN s /\ s[j - 1].op = o
        BY <2>4, <3>4
      <4>2. i - 1 = j - 1
        BY <3>1, <4>1 DEF Once
      <4> QED BY <3>2, <4>2
    <3> QED BY <3>3, <3>4
  <2>8. Signing!Effects(t) = Signing!Effects(a)
    BY <2>3 DEF Prepared
  <2>9. Prepared(t, a)
    BY <2>1, <2>6, <2>7, <2>8 DEF Prepared
  <2> QED BY <1>2, <2>9 DEF t
<1> QED BY <1>1, <1>2

(* What PrepareTransactionWire returns. *)
LEMMA PreparedWire ==
  ASSUME NEW a \in Apps, NEW omit \in BOOLEAN, NEW m,
         m = Signing!PrepareTransactionWire(a, omit), m # None
  PROVE  /\ Prepared(m.ixs, a) /\ m = Signing!Message(m.ixs)
         /\ m \in Signing!Messages /\ Signing!Fits(m)
<1> DEFINE units == IF Signing!Has(a, "units") THEN <<>> ELSE <<Signing!Ix("units", MaxUnits)>>
           cost == IF Signing!Has(a, "price") THEN <<>> ELSE <<Signing!Ix("price", 1)>>
           E == Signing!Instructions
<1>1. Prepared(a, a)
  BY AppsAsk DEF Prepared, Once
<1>2. Prepared(cost \o a, a)
  <2> DEFINE x == Signing!Ix("price", 1)
  <2>1. x \in E /\ x.op = "price"
    BY InstructionsHave DEF Signing!Ix
  <2>2. cost = <<>> \/ (cost = <<x>> /\ ~Signing!Has(a, "price"))
    OBVIOUS
  <2> HIDE DEF x, cost
  <2> QED BY <1>1, <2>1, <2>2, PreparedInFront
<1>3. Signing!Has(cost \o a, "units") <=> Signing!Has(a, "units")
  <2> DEFINE x == Signing!Ix("price", 1)
  <2>1. a \in Seq(E) /\ x \in E /\ x.op = "price" /\ Signing!Budget(x)
    BY AppsAsk, InstructionsHave DEF Signing!Budget, Signing!Ix
  <2>2. cost \in {<<>>, <<x>>}
    OBVIOUS
  <2>3. CASE cost = <<>>
    <3>1. cost \o a = a
      BY <2>1, <2>3
    <3> QED BY <3>1
  <2>4. CASE cost = <<x>>
    <3> HIDE DEF x, E
    <3>1. /\ Len(<<x>> \o a) = Len(a) + 1 /\ (<<x>> \o a)[1] = x
          /\ \A i \in 1..Len(a) : (<<x>> \o a)[i + 1] = a[i]
          /\ <<x>> \o a \in Seq(E)
      BY <2>1
    <3>2. DOMAIN a = 1..Len(a) /\ DOMAIN (<<x>> \o a) = 1..(Len(a) + 1) /\ Len(a) \in Nat
      BY <2>1, <3>1
    <3>3. \A i \in DOMAIN (<<x>> \o a) : i = 1 \/ (i - 1 \in DOMAIN a /\ (i - 1) + 1 = i)
      BY <3>2
    <3>4. \A i \in DOMAIN a : i + 1 \in DOMAIN (<<x>> \o a)
      BY <3>2
    <3>5. Signing!Has(<<x>> \o a, "units") => Signing!Has(a, "units")
      BY <2>1, <3>1, <3>2, <3>3 DEF Signing!Has
    <3>6. Signing!Has(a, "units") => Signing!Has(<<x>> \o a, "units")
      BY <3>1, <3>2, <3>4 DEF Signing!Has
    <3> QED BY <2>4, <3>5, <3>6
  <2> QED BY <2>2, <2>3, <2>4
<1>4. Prepared(units \o (cost \o a), a) /\ Prepared(units \o a, a)
  <2> DEFINE p == cost \o a
             x == Signing!Ix("units", MaxUnits)
  <2>1. x \in E /\ x.op = "units"
    BY InstructionsHave DEF Signing!Ix
  <2>2. units = <<>> \/ (units = <<x>> /\ ~Signing!Has(a, "units"))
    OBVIOUS
  <2>3. Prepared(p, a) /\ (Signing!Has(p, "units") <=> Signing!Has(a, "units"))
    BY <1>2, <1>3
  <2> HIDE DEF p, x, units
  <2>4. Prepared(units \o p, a)
    BY <2>1, <2>2, <2>3, PreparedInFront
  <2>5. Prepared(units \o a, a)
    BY <1>1, <2>1, <2>2, PreparedInFront
  <2> QED BY <2>4, <2>5 DEF p
<1>5. (units \o cost) \o a = units \o (cost \o a)
  <2>1. units \in Seq(E) /\ cost \in Seq(E) /\ a \in Seq(E)
    BY AppsAsk, InstructionsHave
  <2> HIDE DEF units, cost, E
  <2> QED BY <2>1, ConcatAssociative
<1>6. \E s : Prepared(s, a) /\ m = Signing!Message(s) /\ Signing!Fits(m)
  <2> DEFINE full == Signing!Message(units \o cost \o a)
             lean == Signing!Message(units \o a)
  <2>1. (m = full \/ m = lean) /\ Signing!Fits(m)
    BY DEF Signing!PrepareTransactionWire
  <2>2. Prepared(units \o cost \o a, a) /\ Prepared(units \o a, a)
    BY <1>4, <1>5
  <2> QED BY <2>1, <2>2
<1>7. PICK s : Prepared(s, a) /\ m = Signing!Message(s) /\ Signing!Fits(m)
  BY <1>6
<1>8. m.ixs = s
  BY <1>7 DEF Signing!Message
<1>9. m \in Signing!Messages
  BY <1>7, MessageTyped DEF Prepared
<1> QED BY <1>7, <1>8, <1>9

-----------------------------------------------------------------------------
(* What is stored, and what is returned *)

(* With an assertion after it, the message is still as reviewed. *)
LEMMA PreparedIsReviewed ==
  ASSUME app \in Apps, Signing!Rebuilt # None
  PROVE  LET m == Signing!Rebuilt IN
         /\ Prepared(m.ixs, app) /\ m = Signing!Message(m.ixs)
         /\ m \in Signing!Messages /\ Signing!Fits(m) /\ Signing!AsReviewed(m)
<1> DEFINE m == Signing!Rebuilt
<1>1. Prepared(m.ixs, app) /\ m = Signing!Message(m.ixs) /\ m \in Signing!Messages /\ Signing!Fits(m)
  <2>1. PICK o \in BOOLEAN : o = (kind = "creator-fee-claim")
    OBVIOUS
  <2>2. m = Signing!PrepareTransactionWire(app, o)
    BY <2>1 DEF Signing!Rebuilt
  <2> HIDE DEF m
  <2> QED BY <2>2, PreparedWire DEF m
<1> HIDE DEF m
<1>2. \A i, j \in DOMAIN m.ixs : i < j /\ Signing!Effect(m.ixs[j]) => m.ixs[i].op # "assert"
  BY <1>1 DEF Prepared, Asks
<1>3. Signing!Effects(m.ixs) = Signing!Effects(app)
  BY <1>1 DEF Prepared
<1>4. Signing!AsReviewed(m)
  BY <1>2, <1>3 DEF Signing!AsReviewed, m
<1> QED BY <1>1, <1>4 DEF m

LEMMA FeeOfAppend ==
  ASSUME NEW s \in Seq(Signing!Instructions), NEW x \in Signing!Instructions, x.op = "assert",
         NEW m, m.ixs = s, NEW n, n.ixs = Append(s, x)
  PROVE  Signing!FeeOf(n) = Signing!FeeOf(m)
<1> DEFINE t == Append(s, x)
           E == Signing!Instructions
<1>1. t \in Seq(E) /\ Len(t) = Len(s) + 1 /\ Len(s) \in Nat /\ t[Len(s) + 1] = x
      /\ \A i \in 1..Len(s) : t[i] = s[i]
  OBVIOUS
<1>2. PICK c \in [0..Len(m.ixs) -> Descriptions(E)] :
        Describes(m.ixs, FALSE, c) /\ c[Len(m.ixs)] = Signing!Describe(m, FALSE)
  BY DescribeSteps
<1>3. PICK d \in [0..Len(n.ixs) -> Descriptions(E)] :
        Describes(n.ixs, FALSE, d) /\ d[Len(n.ixs)] = Signing!Describe(n, FALSE)
  <2>1. n.ixs \in Seq(E)
    BY <1>1
  <2> HIDE DEF E
  <2> QED BY <2>1, DescribeSteps
<1> HIDE DEF t, E
<1>4. Describes(s, FALSE, c) /\ Describes(t, FALSE, d)
  BY <1>2, <1>3 DEF t
<1> DEFINE Good == {i \in Nat : i <= Len(s) => c[i] = d[i]}
<1>5. Nat \subseteq Good
  <2>1. 0 \in Good
    BY <1>4 DEF Describes
  <2>2. ASSUME NEW i \in Nat, i \in Good PROVE i + 1 \in Good
    <3> SUFFICES ASSUME i + 1 <= Len(s) PROVE c[i + 1] = d[i + 1]
      OBVIOUS
    <3>1. i + 1 \in 1..Len(s) /\ i + 1 \in 1..Len(t) /\ (i + 1) - 1 = i
      BY <1>1
    <3>2. c[i] = d[i]
      BY <1>1, <2>2, <3>1
    <3>3. s[i + 1] = t[i + 1]
      BY <1>1, <3>1
    <3> QED BY <1>4, <3>1, <3>2, <3>3 DEF Describes
  <2> HIDE DEF Good
  <2> QED BY <2>1, <2>2, EveryNat
<1>6. c[Len(s)] = d[Len(s)]
  BY <1>1, <1>5
<1>7. d[Len(t)] = Signing!SetAside(d[Len(s)], x, FALSE)
  <2>1. Len(t) \in 1..Len(t) /\ Len(t) - 1 = Len(s)
    BY <1>1
  <2> QED BY <1>1, <1>4, <2>1 DEF Describes
<1>8. d[Len(s)] \in Descriptions(E) /\ Len(n.ixs) = Len(t)
  BY <1>1, <1>3 DEF t
<1>9. d[Len(t)].units = d[Len(s)].units /\ d[Len(t)].price = d[Len(s)].price
  <2> DEFINE p == d[Len(s)]
             q == d[Len(t)]
  <2>1. After(p, x, FALSE, q)
    <3> HIDE DEF p, q
    <3>1. p \in Descriptions(E) /\ q = Signing!SetAside(p, x, FALSE)
      BY <1>7, <1>8 DEF p, q
    <3> QED BY <3>1, OneInstruction
  <2> QED BY <2>1 DEF After
<1> QED BY <1>2, <1>3, <1>6, <1>8, <1>9 DEF Signing!FeeOf, t

LEMMA AssertionIsReviewed ==
  ASSUME app \in Apps, Signing!Rebuilt # None
  PROVE  LET m == Signing!WithAssertion(Signing!Rebuilt) IN
         m \in Signing!Messages /\ Signing!AsReviewed(m) /\ Signing!Guarded(m)
<1> DEFINE r == Signing!Rebuilt
           x == Signing!Ix("assert", "payer")
           s == r.ixs
           t == Append(s, x)
           m == Signing!WithAssertion(r)
           E == Signing!Instructions
<1>1. Prepared(s, app) /\ r = Signing!Message(s) /\ Signing!AsReviewed(r)
  BY PreparedIsReviewed
<1>2. x \in E /\ x.op = "assert"
  BY InstructionsHave DEF Signing!Ix
<1>3. m = Signing!Message(t)
  BY DEF Signing!WithAssertion
<1>4. s \in Seq(E) /\ \A i \in DOMAIN s : Asks(s[i])
  BY <1>1 DEF Prepared
<1> HIDE DEF r, x, s, m
<1>5. /\ t \in Seq(E) /\ Len(t) = Len(s) + 1 /\ Len(s) \in Nat /\ t[Len(s) + 1] = x
      /\ \A i \in 1..Len(s) : t[i] = s[i]
  BY <1>2, <1>4
<1>6. DOMAIN t = 1..(Len(s) + 1) /\ DOMAIN s = 1..Len(s)
  BY <1>4, <1>5
<1>7. Signing!Effects(t) = Signing!Effects(app)
  <2>1. ~Signing!Effect(x)
    BY <1>2 DEF Signing!Effect
  <2>2. Signing!Effects(t) = Signing!Effects(s)
    BY <1>2, <1>4, <2>1, EffectsAppend
  <2> QED BY <1>1, <2>2 DEF Prepared
<1> HIDE DEF t
<1>8. m \in Signing!Messages /\ m.ixs = t /\ m.hash = "h1" /\ r.hash = "h1" /\ r.ixs = s
  <2>1. m \in Signing!Messages
    BY <1>3, <1>5, MessageTyped
  <2> QED BY <1>1, <1>3, <2>1 DEF Signing!Message
<1>9. \A i, j \in DOMAIN t : i < j /\ Signing!Effect(t[j]) => t[i].op # "assert"
  <2>1. \A i, j \in DOMAIN t : i < j => i \in DOMAIN s
    BY <1>6, <1>5
  <2>2. \A i \in DOMAIN s : t[i] = s[i] /\ s[i].op # "assert"
    BY <1>4, <1>5, <1>6 DEF Asks
  <2> QED BY <2>1, <2>2
<1>10. Signing!FeeOf(m) = Signing!FeeOf(r)
  BY <1>2, <1>4, <1>8, FeeOfAppend DEF t
<1>11. r.keys \subseteq m.keys /\ \A k \in m.keys \ r.keys : ~k.writable /\ ~k.signer
  <2> DEFINE R == {Signing!Payer} \cup UNION {Signing!KeysOf(s[i]) : i \in DOMAIN s}
             M == {Signing!Payer} \cup UNION {Signing!KeysOf(t[i]) : i \in DOMAIN t}
             A == Signing!KeysOf(x)
  <2>1. r.keys = Signing!Merge(R) /\ m.keys = Signing!Merge(M)
    BY <1>1, <1>3 DEF Signing!Message
  <2>2. M = R \cup A
    <3>1. \A i \in DOMAIN t : t[i] = x \/ (i \in DOMAIN s /\ t[i] = s[i])
      BY <1>5, <1>6
    <3>2. \A i \in DOMAIN s : i \in DOMAIN t /\ t[i] = s[i]
      BY <1>5, <1>6
    <3>3. \E i \in DOMAIN t : t[i] = x
      <4>1. Len(s) + 1 \in 1..(Len(s) + 1)
        BY <1>5
      <4> QED BY <1>5, <1>6, <4>1
    <3> QED BY <3>1, <3>2, <3>3
  <2>3. \A k \in A : ~k.writable /\ ~k.signer
    BY <1>2 DEF Signing!KeysOf
  <2> HIDE DEF R, M, A
  <2> QED BY <2>1, <2>2, <2>3 DEF Signing!Merge
<1>12. Signing!AsReviewed(m)
  BY <1>7, <1>8, <1>9, <1>10, <1>11 DEF Signing!AsReviewed, r
<1>13. Signing!Guarded(m)
  <2>1. Len(s) + 1 \in DOMAIN t
    BY <1>5, <1>6
  <2> QED BY <1>2, <1>5, <1>8, <2>1 DEF Signing!Guarded, Signing!Has
<1> QED BY <1>8, <1>12, <1>13 DEF m, r

-----------------------------------------------------------------------------
(* The invariant *)

(* A trade keeps the message the application prepared, a claim may hold an *)
(* assertion after it; what is stored is as reviewed, whoever edited it.   *)
WireInv ==
  /\ Signing!TypeOK
  /\ stored # None => Signing!Rebuilt # None /\ Signing!AsReviewed(stored)
  /\ wire.signed => wire.message # None
  /\ wire.message # None => stored # None
  /\ stored = None => answer = "refused"
  /\ answer = "accepted" => Signing!MayRun(wire)
  /\ kind = "trade" => stored \in {None, Signing!Rebuilt}
  /\ kind = "claim" =>
       stored \in {None, Signing!Rebuilt, Signing!WithAssertion(Signing!Rebuilt)}

LEMMA WireInit == Signing!Init => WireInv
<1> SUFFICES ASSUME Signing!Init PROVE WireInv
  OBVIOUS
<1>0. /\ kind \in Signing!Kinds /\ app \in Apps
      /\ wire = Signing!Closed /\ editsX = 0 /\ polite = TRUE
      /\ answer = (IF stored = None THEN "refused" ELSE "open") /\ rounds = 0
  BY DEF Signing!Init
<1>1. \/ stored = Signing!Rebuilt
      \/ /\ Signing!Rebuilt # None /\ kind = "claim"
         /\ stored = Signing!WithAssertion(Signing!Rebuilt) /\ Signing!Size(stored) <= Packet
  BY DEF Signing!Init
<1>2. wire.message = None /\ wire.signed = FALSE /\ wire \in [message : Signing!Messages \cup {None}, signed : BOOLEAN]
  BY <1>0 DEF Signing!Closed
<1>3. stored # None =>
        /\ Signing!Rebuilt # None /\ stored \in Signing!Messages
        /\ Signing!AsReviewed(stored) /\ Signing!Size(stored) <= Packet
  BY <1>0, <1>1, PreparedIsReviewed, AssertionIsReviewed DEF Signing!Fits
<1>4. 0 \in 0..MaxTouches /\ 0 \in 0..MaxRounds
  BY WireAssumption
<1>5. Signing!TypeOK
  BY <1>0, <1>2, <1>3, <1>4 DEF Signing!TypeOK
<1> QED BY <1>0, <1>1, <1>2, <1>3, <1>5 DEF WireInv

LEMMA KeptReviewed ==
  ASSUME app' = app, kind' = kind
  PROVE  Signing!Rebuilt' = Signing!Rebuilt
BY DEF Signing!Rebuilt

LEMMA KeptAnswer ==
  ASSUME app' = app, kind' = kind, stored' = stored, wire' = wire
  PROVE  Signing!MayRun(wire)' <=> Signing!MayRun(wire)
<1>1. Signing!Rebuilt' = Signing!Rebuilt
  BY KeptReviewed
<1>2. Signing!Baseline' = Signing!Baseline
  BY <1>1 DEF Signing!Baseline
<1> QED BY <1>2 DEF Signing!MayRun, Signing!Unchanged, Signing!OnlyDirect

(* The wallet's edits leave what is stored, and no answer is given.        *)
Edited(m) ==
  /\ wire.message # None /\ ~wire.signed /\ editsX < MaxTouches
  /\ wire' = [wire EXCEPT !.message = m] /\ editsX' = editsX + 1
  /\ polite' \in BOOLEAN
  /\ UNCHANGED <<kind, app, stored, answer, rounds>>

LEMMA WalletEdits ==
  ASSUME WireInv, Signing!Insert \/ Signing!Delete \/ Signing!SetFee \/ Signing!Raise
  PROVE  \E m \in Signing!Messages : Edited(m)
<1> DEFINE w == wire.message
<1>1. w # None /\ w \in Signing!Messages
  BY DEF WireInv, Signing!TypeOK, Signing!Insert, Signing!Delete, Signing!SetFee, Signing!Raise
<1>2. w.ixs \in Seq(Signing!Instructions)
  BY <1>1, MessageHas
<1>3. CASE Signing!Insert
  <2>1. PICK i \in 1..(Len(w.ixs) + 1), ix \in Signing!Added :
          LET m == Signing!WithIxs(w, Signing!InsertAt(w.ixs, i, ix)) IN
          Signing!Edit(m, ix.op = "assert" /\ i > Len(w.ixs) /\ Signing!Size(m) <= Packet)
    BY <1>3 DEF Signing!Insert
  <2> DEFINE m == Signing!WithIxs(w, Signing!InsertAt(w.ixs, i, ix))
  <2>2. m \in Signing!Messages
    <3>1. ix \in Signing!Instructions
      BY InstructionsHave
    <3>2. Signing!InsertAt(w.ixs, i, ix) \in Seq(Signing!Instructions)
      BY <1>2, <3>1, InsertTyped
    <3> QED BY <1>1, <3>2, WithIxsTyped
  <2>3. Edited(m)
    <3> HIDE DEF m
    <3>1. Signing!Edit(m, ix.op = "assert" /\ i > Len(w.ixs) /\ Signing!Size(m) <= Packet)
      BY <2>1 DEF m
    <3> QED BY <3>1 DEF Signing!Edit, Edited
  <2> HIDE DEF m
  <2> QED BY <2>2, <2>3
<1>4. CASE Signing!Delete
  <2>1. PICK i \in DOMAIN w.ixs : Signing!Edit([w EXCEPT !.ixs = Signing!RemoveAt(@, i)], FALSE)
    BY <1>4 DEF Signing!Delete
  <2> DEFINE m == [w EXCEPT !.ixs = Signing!RemoveAt(@, i)]
  <2>2. m \in Signing!Messages
    BY <1>1, RemovedTyped
  <2>3. Edited(m)
    <3> HIDE DEF m
    <3>1. Signing!Edit(m, FALSE)
      BY <2>1 DEF m
    <3> QED BY <3>1 DEF Signing!Edit, Edited
  <2> HIDE DEF m
  <2> QED BY <2>2, <2>3
<1>5. CASE Signing!SetFee
  <2>1. PICK u \in Units, p \in UnitPrices :
          Signing!Edit([w EXCEPT !.ixs = Fees(w.ixs, u, p)],
                    u \in 1..MaxUnits /\ Signing!PriorityFee(u, p) <= FeeLimit)
    BY <1>5 DEF Signing!SetFee, Fees
  <2> DEFINE m == [w EXCEPT !.ixs = Fees(w.ixs, u, p)]
  <2>2. m \in Signing!Messages
    BY <1>1, FeesTyped
  <2>3. Edited(m)
    <3> HIDE DEF m
    <3>1. Signing!Edit(m, u \in 1..MaxUnits /\ Signing!PriorityFee(u, p) <= FeeLimit)
      BY <2>1 DEF m
    <3> QED BY <3>1 DEF Signing!Edit, Edited
  <2> HIDE DEF m
  <2> QED BY <2>2, <2>3
<1>6. CASE Signing!Raise
  <2>1. CASE Signing!Edit([w EXCEPT !.hash = "h2"], FALSE)
    <3> DEFINE m == [w EXCEPT !.hash = "h2"]
    <3>1. m \in Signing!Messages
      BY <1>1, RaisedTyped
    <3>2. Edited(m)
      <4> HIDE DEF m
      <4>1. Signing!Edit(m, FALSE)
        BY <2>1 DEF m
      <4> QED BY <4>1 DEF Signing!Edit, Edited
    <3> HIDE DEF m
    <3> QED BY <3>1, <3>2
  <2>2. ASSUME NEW k \in w.keys,
               Signing!Edit([w EXCEPT !.keys = (@ \ {k}) \cup {[k EXCEPT !.writable = TRUE]}],
                         k.writable)
        PROVE  \E m \in Signing!Messages : Edited(m)
    <3> DEFINE m == [w EXCEPT !.keys = (@ \ {k}) \cup {[k EXCEPT !.writable = TRUE]}]
    <3>1. m \in Signing!Messages
      BY <1>1, RaisedTyped
    <3>2. Edited(m)
      <4> HIDE DEF m
      <4>1. Signing!Edit(m, k.writable)
        BY <2>2 DEF m
      <4> QED BY <4>1 DEF Signing!Edit, Edited
    <3> HIDE DEF m
    <3> QED BY <3>1, <3>2
  <2> QED BY <1>6, <2>1, <2>2 DEF Signing!Raise
<1> QED BY <1>3, <1>4, <1>5, <1>6

LEMMA EditKeeps ==
  ASSUME WireInv, NEW m \in Signing!Messages, Edited(m)
  PROVE  WireInv'
<1>1. Signing!Rebuilt' = Signing!Rebuilt
  BY KeptReviewed DEF Edited
<1>2. m # None
  BY MessageHas
<1>3. /\ wire \in [message : Signing!Messages \cup {None}, signed : BOOLEAN]
      /\ wire' = [wire EXCEPT !.message = m]
  BY DEF WireInv, Signing!TypeOK, Edited
<1>4. wire'.message = m /\ wire'.signed = wire.signed
      /\ wire' \in [message : Signing!Messages \cup {None}, signed : BOOLEAN]
  BY <1>3
<1>5. answer # "accepted"
  BY DEF WireInv, Edited, Signing!MayRun
<1>6. editsX' \in 0..MaxTouches
  BY WireAssumption DEF WireInv, Signing!TypeOK, Edited
<1>7. Signing!TypeOK'
  BY <1>4, <1>6 DEF WireInv, Edited, Signing!TypeOK, Signing!Size, Signing!Kinds, Signing!Direct
<1>8. (stored # None => Signing!Rebuilt # None /\ Signing!AsReviewed(stored))'
  BY <1>1 DEF WireInv, Edited, Signing!AsReviewed
<1> QED BY <1>1, <1>2, <1>4, <1>5, <1>7, <1>8 DEF WireInv, Edited

LEMMA WireStep == WireInv /\ [Signing!Next]_signingVars => WireInv'
<1> SUFFICES ASSUME WireInv, [Signing!Next]_signingVars PROVE WireInv'
  OBVIOUS
<1>1. CASE UNCHANGED signingVars
  <2>1. Signing!Rebuilt' = Signing!Rebuilt /\ (Signing!MayRun(wire)' <=> Signing!MayRun(wire))
    BY <1>1, KeptReviewed, KeptAnswer DEF signingVars
  <2>2. (stored # None => Signing!Rebuilt # None /\ Signing!AsReviewed(stored))'
    BY <1>1, <2>1 DEF WireInv, signingVars, Signing!AsReviewed
  <2>3. Signing!TypeOK'
    BY <1>1 DEF WireInv, signingVars, Signing!TypeOK, Signing!Size
  <2> QED BY <1>1, <2>1, <2>2, <2>3 DEF WireInv, signingVars
<1>2. CASE Signing!Open
  <2>1. /\ answer = "open" /\ wire = Signing!Closed
        /\ wire' = [message |-> stored, signed |-> FALSE]
        /\ editsX' = 0 /\ polite' = TRUE
        /\ UNCHANGED <<kind, app, stored, answer, rounds>>
    BY <1>2 DEF Signing!Open
  <2>2. Signing!Rebuilt' = Signing!Rebuilt
    BY <2>1, KeptReviewed
  <2>3. (stored # None => Signing!Rebuilt # None /\ Signing!AsReviewed(stored))'
    BY <2>1, <2>2 DEF WireInv, Signing!AsReviewed
  <2>4. wire'.message = stored /\ wire'.signed = FALSE
    BY <2>1
  <2>5. wire' \in [message : Signing!Messages \cup {None}, signed : BOOLEAN]
    BY <2>1 DEF WireInv, Signing!TypeOK
  <2>6. 0 \in 0..MaxTouches
    BY WireAssumption
  <2>7. Signing!TypeOK'
    BY <2>1, <2>5, <2>6 DEF WireInv, Signing!TypeOK, Signing!Size
  <2>8. stored # None
    BY <2>1 DEF WireInv
  <2> QED BY <2>1, <2>2, <2>3, <2>4, <2>7, <2>8 DEF WireInv
<1>3. CASE Signing!Insert \/ Signing!Delete \/ Signing!SetFee \/ Signing!Raise
  BY <1>3, WalletEdits, EditKeeps
<1>4. CASE Signing!Sign
  <2>1. /\ wire.message # None /\ ~wire.signed
        /\ wire' = [wire EXCEPT !.signed = TRUE]
        /\ UNCHANGED <<kind, app, stored, editsX, polite, answer, rounds>>
    BY <1>4 DEF Signing!Sign
  <2>2. Signing!Rebuilt' = Signing!Rebuilt
    BY <2>1, KeptReviewed
  <2>3. (stored # None => Signing!Rebuilt # None /\ Signing!AsReviewed(stored))'
    BY <2>1, <2>2 DEF WireInv, Signing!AsReviewed
  <2>4. wire \in [message : Signing!Messages \cup {None}, signed : BOOLEAN]
    BY DEF WireInv, Signing!TypeOK
  <2>5. wire'.message = wire.message
        /\ wire' \in [message : Signing!Messages \cup {None}, signed : BOOLEAN]
    BY <2>1, <2>4
  <2>6. Signing!TypeOK'
    BY <2>1, <2>5 DEF WireInv, Signing!TypeOK, Signing!Size
  <2>7. answer # "accepted"
    BY <2>1 DEF WireInv, Signing!MayRun
  <2> QED BY <2>1, <2>2, <2>3, <2>5, <2>6, <2>7 DEF WireInv
<1>5. CASE Signing!Submit
  <2>1. /\ answer = "open" /\ wire.signed
        /\ answer' = (IF Signing!MayRun(wire) THEN "accepted" ELSE "refused")
        /\ UNCHANGED <<kind, app, stored, wire, editsX, polite, rounds>>
    BY <1>5 DEF Signing!Submit
  <2>2. Signing!Rebuilt' = Signing!Rebuilt /\ (Signing!MayRun(wire)' <=> Signing!MayRun(wire))
    BY <2>1, KeptReviewed, KeptAnswer
  <2>3. (stored # None => Signing!Rebuilt # None /\ Signing!AsReviewed(stored))'
    BY <2>1, <2>2 DEF WireInv, Signing!AsReviewed
  <2>4. Signing!TypeOK'
    BY <2>1 DEF WireInv, Signing!TypeOK, Signing!Size
  <2>5. stored # None
    BY <2>1 DEF WireInv
  <2>6. answer' = "accepted" => Signing!MayRun(wire)'
    BY <2>1, <2>2
  <2> QED BY <2>1, <2>2, <2>3, <2>4, <2>5, <2>6 DEF WireInv
<1>6. CASE Signing!Revise
  <2>1. /\ answer = "open" /\ wire.signed /\ kind \notin Signing!Direct /\ rounds < MaxRounds
        /\ rounds' = rounds + 1
        /\ UNCHANGED <<kind, app, editsX, polite>>
        /\ \/ /\ Signing!ValidateWalletFeeChange(stored, wire)
              /\ stored' = wire.message /\ wire' = Signing!Closed /\ answer' = answer
           \/ answer' = "refused" /\ UNCHANGED <<stored, wire>>
    BY <1>6 DEF Signing!Revise
  <2>2. Signing!Rebuilt' = Signing!Rebuilt
    BY <2>1, KeptReviewed
  <2>3. wire.message # None /\ stored # None /\ Signing!Rebuilt # None /\ Signing!AsReviewed(stored)
        /\ wire.message \in Signing!Messages /\ stored \in Signing!Messages
    BY <2>1 DEF WireInv, Signing!TypeOK
  <2>4. rounds' \in 0..MaxRounds
    BY <2>1, WireAssumption DEF WireInv, Signing!TypeOK
  <2>5. kind # "trade" /\ kind # "claim"
    BY <2>1 DEF Signing!Direct
  <2>6. CASE /\ Signing!ValidateWalletFeeChange(stored, wire)
             /\ stored' = wire.message /\ wire' = Signing!Closed /\ answer' = answer
    <3>1. stored.ixs \in Seq(Signing!Instructions) /\ wire.message.ixs \in Seq(Signing!Instructions)
      BY <2>3, MessageHas
    <3>2. Signing!AsReviewed(wire.message) /\ Signing!Fits(wire.message)
      BY <2>3, <2>6, <3>1, ReviewIsKept, ValidChange
    <3>3. (Signing!AsReviewed(stored))'
      BY <2>1, <2>2, <2>6, <3>2 DEF Signing!AsReviewed
    <3>4. wire'.message = None /\ wire'.signed = FALSE
          /\ wire' \in [message : Signing!Messages \cup {None}, signed : BOOLEAN]
      BY <2>6 DEF Signing!Closed
    <3>5. (Signing!Size(stored) <= Packet)'
      BY <2>6, <3>2 DEF Signing!Fits, Signing!Size
    <3>6. Signing!TypeOK'
      BY <2>1, <2>3, <2>4, <2>6, <3>4, <3>5 DEF WireInv, Signing!TypeOK
    <3> QED BY <2>1, <2>2, <2>3, <2>5, <2>6, <3>3, <3>4, <3>6 DEF WireInv
  <2>7. CASE answer' = "refused" /\ UNCHANGED <<stored, wire>>
    <3>1. (Signing!AsReviewed(stored))'
      BY <2>1, <2>2, <2>3, <2>7 DEF Signing!AsReviewed
    <3>2. Signing!TypeOK'
      BY <2>1, <2>4, <2>7 DEF WireInv, Signing!TypeOK, Signing!Size
    <3> QED BY <2>1, <2>2, <2>5, <2>7, <3>1, <3>2 DEF WireInv
  <2> QED BY <2>1, <2>6, <2>7
<1> QED BY <1>1, <1>2, <1>3, <1>4, <1>5, <1>6 DEF Signing!Next

(* What is accepted. *)
LEMMA BaselineIsReviewed ==
  ASSUME WireInv, stored # None
  PROVE  /\ Signing!Baseline \in Signing!Messages /\ Signing!AsReviewed(Signing!Baseline)
         /\ kind \in Signing!Direct => Signing!Baseline = Signing!Rebuilt
<1>1. app \in Apps /\ Signing!Rebuilt # None /\ stored \in Signing!Messages /\ Signing!AsReviewed(stored)
  BY DEF WireInv, Signing!TypeOK
<1>2. Signing!Rebuilt \in Signing!Messages /\ Signing!AsReviewed(Signing!Rebuilt)
  BY <1>1, PreparedIsReviewed
<1>3. Signing!Guarded(Signing!WithAssertion(Signing!Rebuilt))
  BY <1>1, AssertionIsReviewed
<1>4. kind \in Signing!Direct => Signing!Baseline = Signing!Rebuilt
  BY <1>3 DEF WireInv, Signing!Baseline, Signing!Direct
<1> QED BY <1>1, <1>2, <1>4 DEF Signing!Baseline

LEMMA WireKeepsPromises ==
  WireInv => Signing!TypeOK /\ Signing!RunsAsReviewed /\ Signing!OthersRunAsShown
<1> SUFFICES ASSUME WireInv PROVE Signing!RunsAsReviewed /\ Signing!OthersRunAsShown
  BY DEF WireInv
<1>1. ASSUME answer = "accepted" PROVE Signing!AsReviewed(wire.message)
  <2>1. Signing!MayRun(wire) /\ wire.message # None /\ stored # None
    BY <1>1 DEF WireInv, Signing!MayRun
  <2>2. Signing!AsReviewed(stored) /\ wire.message \in Signing!Messages
    BY <2>1 DEF WireInv, Signing!TypeOK
  <2>3. CASE wire.message = stored
    BY <2>2, <2>3
  <2>4. CASE Signing!ValidateWalletFeeChange(Signing!Baseline, wire)
    <3>1. Signing!Baseline \in Signing!Messages /\ Signing!AsReviewed(Signing!Baseline)
      BY <2>1, BaselineIsReviewed
    <3>2. Signing!Baseline.ixs \in Seq(Signing!Instructions)
          /\ wire.message.ixs \in Seq(Signing!Instructions)
      BY <2>2, <3>1, MessageHas
    <3> QED BY <2>4, <3>1, <3>2, ReviewIsKept
  <2> QED BY <2>1, <2>3, <2>4 DEF Signing!MayRun, Signing!Unchanged, Signing!OnlyDirect
<1>2. answer = "accepted" /\ kind \notin Signing!Direct => wire.message = stored
  BY DEF WireInv, Signing!MayRun, Signing!Unchanged, Signing!OnlyDirect
<1> QED BY <1>1, <1>2 DEF Signing!RunsAsReviewed, Signing!OthersRunAsShown

-----------------------------------------------------------------------------
(* A wallet that only bounds the fee and appends assertions *)

(* What describe reads of a fee that is named once at most. *)
FeeRead(s, i, d) ==
  /\ (d.metered = TRUE) <=> \E j \in 1..i : s[j].op = "units"
  /\ (d.priced = TRUE) <=> \E j \in 1..i : s[j].op = "price"
  /\ d.metered # TRUE => d.units = 0
  /\ \A j \in 1..i : s[j].op = "units" => d.units = s[j].arg
  /\ \A j \in 1..i : s[j].op = "price" => d.price = s[j].arg

LEMMA FeeReadStep ==
  ASSUME NEW E, NEW s \in Seq(E), Once(s, "units"), Once(s, "price"),
         NEW i \in Nat, i + 1 \in 1..Len(s), NEW d \in Descriptions(E), FeeRead(s, i, d),
         NEW aside, NEW e, e = Signing!SetAside(d, s[i + 1], aside)
  PROVE  FeeRead(s, i + 1, e)
<1> DEFINE x == s[i + 1]
<1>1. After(d, x, aside, e)
  <2> HIDE DEF x
  <2>1. e = Signing!SetAside(d, x, aside)
    BY DEF x
  <2> QED BY <2>1, OneInstruction
<1>2. /\ e.units = IF x.op = "units" /\ ~d.metered THEN x.arg ELSE d.units
      /\ e.metered = IF x.op = "units" THEN TRUE ELSE d.metered
      /\ e.price = IF x.op = "price" /\ ~d.priced THEN x.arg ELSE d.price
      /\ e.priced = IF x.op = "price" THEN TRUE ELSE d.priced
  BY <1>1 DEF After
<1>3. \A j \in 1..(i + 1) : j = i + 1 \/ j \in 1..i
  OBVIOUS
<1>4. 1..(i + 1) \subseteq DOMAIN s /\ i + 1 \notin 1..i /\ i + 1 \in 1..(i + 1)
      /\ 1..i \subseteq 1..(i + 1)
  OBVIOUS
<1>5. d.metered \in BOOLEAN /\ d.priced \in BOOLEAN
  BY DEF Descriptions
<1>6. x.op = "units" => (d.metered = FALSE /\ \A j \in 1..i : s[j].op # "units")
  BY <1>4, <1>5 DEF Once, FeeRead
<1>7. x.op = "price" => (d.priced = FALSE /\ \A j \in 1..i : s[j].op # "price")
  BY <1>4, <1>5 DEF Once, FeeRead
<1> HIDE DEF x
<1>8. (e.metered = TRUE) <=> \E j \in 1..(i + 1) : s[j].op = "units"
  BY <1>2, <1>3, <1>4 DEF FeeRead, x
<1>9. (e.priced = TRUE) <=> \E j \in 1..(i + 1) : s[j].op = "price"
  BY <1>2, <1>3, <1>4 DEF FeeRead, x
<1>10. e.metered # TRUE => e.units = 0
  BY <1>2 DEF FeeRead
<1>11. ASSUME NEW j \in 1..(i + 1), s[j].op = "units" PROVE e.units = s[j].arg
  BY <1>2, <1>3, <1>6, <1>11 DEF FeeRead, x
<1>12. ASSUME NEW j \in 1..(i + 1), s[j].op = "price" PROVE e.price = s[j].arg
  BY <1>2, <1>3, <1>7, <1>12 DEF FeeRead, x
<1> QED BY <1>8, <1>9, <1>10, <1>11, <1>12 DEF FeeRead

LEMMA FeeIsOnce ==
  ASSUME NEW E, NEW s \in Seq(E), Once(s, "units"), Once(s, "price"), NEW aside,
         NEW d \in [0..Len(s) -> Descriptions(E)], Describes(s, aside, d)
  PROVE  \A i \in 0..Len(s) : FeeRead(s, i, d[i])
<1> DEFINE Good == {i \in Nat : i \in 0..Len(s) => FeeRead(s, i, d[i])}
<1>1. 0 \in Good
  <2>1. d[0] = Signing!Undescribed /\ 1..0 = {}
    BY DEF Describes
  <2>2. d[0].metered = FALSE /\ d[0].priced = FALSE /\ d[0].units = 0
    BY <2>1 DEF Signing!Undescribed
  <2> QED BY <2>1, <2>2 DEF FeeRead
<1>2. ASSUME NEW i \in Nat, i \in Good PROVE i + 1 \in Good
  <2> SUFFICES ASSUME i + 1 \in 0..Len(s) PROVE FeeRead(s, i + 1, d[i + 1])
    OBVIOUS
  <2>1. i + 1 \in 1..Len(s) /\ i \in 0..Len(s) /\ (i + 1) - 1 = i
    OBVIOUS
  <2>2. FeeRead(s, i, d[i]) /\ d[i] \in Descriptions(E)
    BY <1>2, <2>1
  <2>3. d[i + 1] = Signing!SetAside(d[i], s[i + 1], aside)
    BY <2>1 DEF Describes
  <2> QED BY <2>1, <2>2, <2>3, FeeReadStep
<1>3. Nat \subseteq Good
  <2> HIDE DEF Good
  <2> QED BY <1>1, <1>2, EveryNat
<1> QED BY <1>3

(* Two messages that differ in their fee. *)
Alike(c, d, u, p) ==
  /\ d.metered = c.metered /\ d.priced = c.priced /\ d.memory = c.memory /\ d.rest = c.rest
  /\ d.guards = {} /\ d.misplaced = FALSE
  /\ d.metered = TRUE => d.units = u
  /\ d.priced = TRUE => d.price = p

LEMMA AlikeStep ==
  ASSUME NEW E, NEW c \in Descriptions(E), NEW d \in Descriptions(E), NEW u, NEW p,
         Alike(c, d, u, p), NEW x, NEW y, x.op # "assert", y.op = x.op,
         x.op \notin {"units", "price"} => y = x,
         x.op = "units" => c.metered = FALSE /\ y.arg = u,
         x.op = "price" => c.priced = FALSE /\ y.arg = p,
         NEW a, ~a, NEW b, b, NEW e, NEW f,
         e = Signing!SetAside(c, x, a), f = Signing!SetAside(d, y, b)
  PROVE  Alike(e, f, u, p)
<1>1. After(c, x, a, e) /\ After(d, y, b, f)
  BY OneInstruction
<1>2. ~Guard(x, a) /\ ~Guard(y, b)
  BY DEF Guard
<1>3. /\ e.metered = IF x.op = "units" THEN TRUE ELSE c.metered
      /\ e.priced = IF x.op = "price" THEN TRUE ELSE c.priced
      /\ e.memory = IF Signing!InMemory(x) THEN c.memory \cup {x.op} ELSE c.memory
      /\ e.rest = IF Taken(c, x) THEN c.rest ELSE Append(c.rest, x)
  BY <1>1, <1>2 DEF After
<1>4. /\ f.units = IF y.op = "units" /\ ~d.metered THEN y.arg ELSE d.units
      /\ f.metered = IF y.op = "units" THEN TRUE ELSE d.metered
      /\ f.price = IF y.op = "price" /\ ~d.priced THEN y.arg ELSE d.price
      /\ f.priced = IF y.op = "price" THEN TRUE ELSE d.priced
      /\ f.memory = IF Signing!InMemory(y) THEN d.memory \cup {y.op} ELSE d.memory
      /\ f.guards = d.guards
      /\ f.rest = IF Taken(d, y) THEN d.rest ELSE Append(d.rest, y)
  BY <1>1, <1>2 DEF After
<1>5. f.misplaced = d.misplaced
  BY <1>1, <1>2 DEF After, Alike
<1>6. /\ d.metered = c.metered /\ d.priced = c.priced /\ d.memory = c.memory
      /\ d.rest = c.rest /\ d.guards = {} /\ d.misplaced = FALSE
      /\ d.metered = TRUE => d.units = u
      /\ d.priced = TRUE => d.price = p
  BY DEF Alike
<1>7. c.metered \in BOOLEAN /\ c.priced \in BOOLEAN
  BY DEF Descriptions
<1>8. CASE x.op = "units"
  <2>1. ~Signing!InMemory(x) /\ ~Signing!InMemory(y)
    BY <1>8 DEF Signing!InMemory
  <2>2. Taken(c, x) /\ Taken(d, y)
    BY <1>6, <1>8 DEF Taken
  <2>3. f.units = u /\ f.metered = TRUE /\ e.metered = TRUE
    BY <1>3, <1>4, <1>6, <1>8
  <2>4. f.priced = d.priced /\ f.price = d.price /\ e.priced = c.priced
    BY <1>3, <1>4, <1>8
  <2> QED BY <1>3, <1>4, <1>5, <1>6, <2>1, <2>2, <2>3, <2>4 DEF Alike
<1>9. CASE x.op = "price"
  <2>1. ~Signing!InMemory(x) /\ ~Signing!InMemory(y)
    BY <1>9 DEF Signing!InMemory
  <2>2. Taken(c, x) /\ Taken(d, y)
    BY <1>6, <1>9 DEF Taken
  <2>3. f.price = p /\ f.priced = TRUE /\ e.priced = TRUE
    BY <1>3, <1>4, <1>6, <1>9
  <2>4. f.metered = d.metered /\ f.units = d.units /\ e.metered = c.metered
    BY <1>3, <1>4, <1>9
  <2> QED BY <1>3, <1>4, <1>5, <1>6, <2>1, <2>2, <2>3, <2>4 DEF Alike
<1>10. CASE x.op \notin {"units", "price"}
  <2>1. y = x
    BY <1>10
  <2>2. Taken(c, x) <=> Taken(d, y)
    BY <1>6, <1>10, <2>1 DEF Taken
  <2>3. f.rest = e.rest /\ f.memory = e.memory
    BY <1>3, <1>4, <1>6, <2>1, <2>2
  <2>4. f.metered = e.metered /\ f.priced = e.priced /\ f.units = d.units /\ f.price = d.price
        /\ f.metered = d.metered /\ f.priced = d.priced
    BY <1>3, <1>4, <1>6, <1>10, <2>1
  <2> QED BY <1>4, <1>5, <1>6, <2>3, <2>4 DEF Alike
<1> QED BY <1>8, <1>9, <1>10

(* The wallet's message: its fee is u units at price p. *)
Tuned(s, t, u, p) ==
  /\ Len(t) >= Len(s)
  /\ \A i \in 1..Len(s) :
       t[i].op = s[i].op /\ (s[i].op \notin {"units", "price"} => t[i] = s[i])
  /\ \A i \in 1..Len(t) : i > Len(s) => t[i].op = "assert"
  /\ \A i \in 1..Len(t) : t[i].op = "units" => t[i].arg = u
  /\ \A i \in 1..Len(t) : t[i].op = "price" => t[i].arg = p

(* What describe has of it, once it has read the application's part. *)
Trailing(c, d, t, n, i) ==
  /\ d.metered = c.metered /\ d.priced = c.priced
  /\ d.units = c.units /\ d.price = c.price
  /\ d.rest = c.rest /\ d.misplaced = FALSE
  /\ \A j \in (n + 1)..i : {"lighthouse", t[j].arg} \subseteq d.guards

LEMMA TrailingStep ==
  ASSUME NEW E, NEW c, NEW d \in Descriptions(E), NEW t, NEW n \in Nat, NEW i \in Nat,
         n <= i, Trailing(c, d, t, n, i), t[i + 1].op = "assert",
         NEW b, b, NEW e, e = Signing!SetAside(d, t[i + 1], b)
  PROVE  Trailing(c, e, t, n, i + 1)
<1> DEFINE x == t[i + 1]
<1>1. After(d, x, b, e)
  <2> HIDE DEF x
  <2>1. e = Signing!SetAside(d, x, b)
    BY DEF x
  <2> QED BY <2>1, OneInstruction
<1>2. x.op = "assert" /\ Guard(x, b)
  BY DEF Guard
<1>3. /\ e.units = d.units /\ e.metered = d.metered /\ e.price = d.price /\ e.priced = d.priced
      /\ e.guards = d.guards \cup {"lighthouse", x.arg} /\ e.rest = d.rest
      /\ e.misplaced = d.misplaced
  <2> HIDE DEF x
  <2> QED BY <1>1, <1>2 DEF After
<1>4. \A j \in (n + 1)..(i + 1) : j = i + 1 \/ j \in (n + 1)..i
  OBVIOUS
<1>5. \A j \in (n + 1)..(i + 1) : {"lighthouse", t[j].arg} \subseteq e.guards
  <2> HIDE DEF x
  <2> QED BY <1>3, <1>4, ZenonT(30) DEF Trailing, x
<1> QED BY <1>3, <1>5 DEF Trailing

LEMMA TunedIsRead ==
  ASSUME NEW E, NEW s \in Seq(E), NEW t \in Seq(E), NEW u, NEW p, Tuned(s, t, u, p),
         Once(s, "units"), Once(s, "price"), \A i \in DOMAIN s : s[i].op # "assert",
         NEW a, ~a, NEW b, b,
         NEW c \in [0..Len(s) -> Descriptions(E)], Describes(s, a, c),
         NEW d \in [0..Len(t) -> Descriptions(E)], Describes(t, b, d)
  PROVE  /\ Alike(c[Len(s)], d[Len(s)], u, p)
         /\ Trailing(d[Len(s)], d[Len(t)], t, Len(s), Len(t))
<1> DEFINE n == Len(s)
           N == Len(t)
<1>0. n \in Nat /\ N \in Nat /\ n <= N /\ DOMAIN s = 1..n
  BY DEF Tuned
<1>1. \A i \in 0..n : FeeRead(s, i, c[i])
  BY FeeIsOnce
<1>2. \A i \in 0..n : c[i].metered \in BOOLEAN /\ c[i].priced \in BOOLEAN
  BY DEF Descriptions
<1> DEFINE Good == {i \in Nat : i <= n => Alike(c[i], d[i], u, p)}
<1> HIDE DEF n, N
<1>3. 0 \in Good
  <2>1. c[0] = Signing!Undescribed /\ d[0] = Signing!Undescribed
    BY DEF Describes
  <2>2. Alike(Signing!Undescribed, Signing!Undescribed, u, p)
    BY DEF Alike, Signing!Undescribed
  <2> QED BY <2>1, <2>2
<1>4. ASSUME NEW i \in Nat, i \in Good PROVE i + 1 \in Good
  <2> SUFFICES ASSUME i + 1 <= n PROVE Alike(c[i + 1], d[i + 1], u, p)
    OBVIOUS
  <2> DEFINE x == s[i + 1]
             y == t[i + 1]
  <2>1. i + 1 \in 1..n /\ i + 1 \in 1..N /\ i \in 0..n /\ i \in 0..N /\ (i + 1) - 1 = i
        /\ i + 1 \notin 1..i /\ 1..i \subseteq 1..n
    BY <1>0
  <2>2. Alike(c[i], d[i], u, p) /\ c[i] \in Descriptions(E) /\ d[i] \in Descriptions(E)
    BY <1>0, <1>4, <2>1 DEF n, N
  <2>3. c[i + 1] = Signing!SetAside(c[i], x, a) /\ d[i + 1] = Signing!SetAside(d[i], y, b)
    BY <2>1 DEF Describes, n, N
  <2>4. x.op # "assert"
    BY <1>0, <2>1
  <2>5. y.op = x.op /\ (x.op \notin {"units", "price"} => y = x)
    BY <2>1 DEF Tuned, n
  <2>6. (y.op = "units" => y.arg = u) /\ (y.op = "price" => y.arg = p)
    BY <2>1 DEF Tuned, N
  <2>7. x.op = "units" => c[i].metered = FALSE
    <3>1. x.op = "units" => \A j \in 1..i : s[j].op # "units"
      BY <1>0, <2>1 DEF Once
    <3> QED BY <1>1, <1>2, <2>1, <3>1 DEF FeeRead
  <2>8. x.op = "price" => c[i].priced = FALSE
    <3>1. x.op = "price" => \A j \in 1..i : s[j].op # "price"
      BY <1>0, <2>1 DEF Once
    <3> QED BY <1>1, <1>2, <2>1, <3>1 DEF FeeRead
  <2>9. x.op = "units" => (c[i].metered = FALSE /\ y.arg = u)
    BY <2>5, <2>6, <2>7
  <2>10. x.op = "price" => (c[i].priced = FALSE /\ y.arg = p)
    BY <2>5, <2>6, <2>8
  <2> HIDE DEF x, y
  <2> QED BY <2>2, <2>3, <2>4, <2>5, <2>9, <2>10, AlikeStep
<1>5. Nat \subseteq Good
  <2> HIDE DEF Good
  <2> QED BY <1>3, <1>4, EveryNat
<1>6. Alike(c[n], d[n], u, p)
  BY <1>0, <1>5
<1> DEFINE Onward == {i \in Nat : n + i <= N => Trailing(d[n], d[n + i], t, n, n + i)}
<1>7. 0 \in Onward
  <2>1. n + 0 = n /\ (n + 1)..n = {}
    BY <1>0
  <2>2. Trailing(d[n], d[n], t, n, n)
    BY <1>6, <2>1 DEF Trailing, Alike
  <2> QED BY <2>1, <2>2
<1>8. ASSUME NEW i \in Nat, i \in Onward PROVE i + 1 \in Onward
  <2> SUFFICES ASSUME n + (i + 1) <= N PROVE Trailing(d[n], d[n + (i + 1)], t, n, n + (i + 1))
    OBVIOUS
  <2> DEFINE k == n + i
  <2>1. /\ k \in Nat /\ n + (i + 1) = k + 1 /\ k + 1 \in 1..N /\ k \in 0..N /\ k + 1 > n
        /\ (k + 1) - 1 = k /\ n <= k
    BY <1>0
  <2>2. Trailing(d[n], d[k], t, n, k)
    BY <1>0, <1>8
  <2> HIDE DEF k
  <2>3. d[k] \in Descriptions(E) /\ d[k + 1] = Signing!SetAside(d[k], t[k + 1], b)
    BY <2>1 DEF Describes, N
  <2>4. t[k + 1].op = "assert"
    BY <2>1 DEF Tuned, n, N
  <2>5. Trailing(d[n], d[k + 1], t, n, k + 1)
    BY <1>0, <2>1, <2>2, <2>3, <2>4, TrailingStep
  <2> QED BY <2>1, <2>5
<1>9. Nat \subseteq Onward
  <2> HIDE DEF Onward
  <2> QED BY <1>7, <1>8, EveryNat
<1>10. Trailing(d[n], d[N], t, n, N)
  <2> DEFINE k == N - n
  <2>1. k \in Nat /\ n + k = N
    BY <1>0
  <2>2. k \in Onward
    <3> HIDE DEF Onward, k
    <3> QED BY <1>9, <2>1
  <2> HIDE DEF k
  <2>3. Trailing(d[n], d[n + k], t, n, n + k)
    BY <1>0, <2>1, <2>2
  <2> QED BY <2>1, <2>3
<1> QED BY <1>6, <1>10 DEF n, N

-----------------------------------------------------------------------------
(* The polite message *)

Polite(m, r) ==
  /\ \E u, p : /\ u \in 1..MaxUnits /\ Signing!PriorityFee(u, p) <= FeeLimit
               /\ Tuned(r.ixs, m.ixs, u, p)
  /\ m.hash = r.hash /\ Signing!Fits(m) /\ r.keys \subseteq m.keys
  /\ \A k \in m.keys \ r.keys :
       /\ ~k.writable /\ ~k.signer /\ k.key \notin Signing!Names(r.keys)
       /\ \E i \in 1..Len(m.ixs) : i > Len(r.ixs) /\ k.key \in {"lighthouse", m.ixs[i].arg}

(* Every account the application names is written to. *)
LEMMA RebuiltKeys ==
  ASSUME NEW r, r = Signing!Message(r.ixs), \A i \in DOMAIN r.ixs : Asks(r.ixs[i])
  PROVE  /\ r.keys = {Signing!Payer} \cup UNION {Signing!KeysOf(r.ixs[i]) : i \in DOMAIN r.ixs}
         /\ \A k \in r.keys : k.writable
<1> DEFINE K == {Signing!Payer} \cup UNION {Signing!KeysOf(r.ixs[i]) : i \in DOMAIN r.ixs}
<1>1. Signing!Payer.writable
  BY DEF Signing!Payer
<1>2. ASSUME NEW i \in DOMAIN r.ixs PROVE \A k \in Signing!KeysOf(r.ixs[i]) : k.writable
  <2>1. PICK x : x = r.ixs[i]
    OBVIOUS
  <2>2. Asks(x)
    BY <2>1
  <2>3. \A k \in Signing!KeysOf(x) : k.writable
    BY <2>2 DEF Asks, Signing!KeysOf
  <2> QED BY <2>1, <2>3
<1>3. \A k \in K : k.writable
  BY <1>1, <1>2
<1>4. r.keys = Signing!Merge(K)
  BY DEF Signing!Message
<1>5. Signing!Merge(K) = K
  <2> HIDE DEF K
  <2> QED BY <1>3 DEF Signing!Merge
<1> QED BY <1>3, <1>4, <1>5

LEMMA AssertionKeys ==
  ASSUME NEW x, x.op = "assert"
  PROVE  \A k \in Signing!KeysOf(x) :
           ~k.writable /\ ~k.signer /\ k.key \in {"lighthouse", x.arg}
BY DEF Signing!KeysOf

LEMMA FeeKeys ==
  ASSUME NEW x, x.op \in {"units", "price"}
  PROVE  Signing!KeysOf(x) = {}
BY DEF Signing!KeysOf

(* One more assertion. *)
LEMMA PoliteAppends ==
  ASSUME NEW r \in Signing!Messages, r = Signing!Message(r.ixs), \A i \in DOMAIN r.ixs : Asks(r.ixs[i]),
         NEW m \in Signing!Messages, Polite(m, r),
         NEW x \in Signing!Instructions, x.op = "assert",
         NEW n, n = Signing!WithIxs(m, Append(m.ixs, x)), Signing!Fits(n)
  PROVE  Polite(n, r)
<1> DEFINE s == r.ixs
           t == m.ixs
           v == Append(m.ixs, x)
           J == m.keys \cup UNION {Signing!KeysOf(v[i]) : i \in DOMAIN v}
           E == Signing!Instructions
<1>1. s \in Seq(E) /\ t \in Seq(E)
  BY MessageHas
<1>2. v \in Seq(E) /\ Len(v) = Len(t) + 1 /\ v[Len(t) + 1] = x
      /\ \A i \in 1..Len(t) : v[i] = t[i]
  BY <1>1
<1>3. n = [m EXCEPT !.ixs = v, !.keys = Signing!Merge(J)]
  BY DEF Signing!WithIxs
<1>4. m = [ixs |-> m.ixs, hash |-> m.hash, keys |-> m.keys]
  BY MessageHas
<1> HIDE DEF J, v
<1>5. n.ixs = v /\ n.keys = Signing!Merge(J) /\ n.hash = m.hash
  BY <1>3, <1>4
<1>6. PICK u, p : /\ u \in 1..MaxUnits /\ Signing!PriorityFee(u, p) <= FeeLimit
                  /\ Tuned(s, t, u, p)
  BY DEF Polite
<1> HIDE DEF s, t, E
<1>7. Len(s) \in Nat /\ Len(t) \in Nat /\ Len(t) >= Len(s) /\ DOMAIN v = 1..(Len(t) + 1)
      /\ DOMAIN s = 1..Len(s)
  BY <1>1, <1>2, <1>6 DEF Tuned
<1>8. \A i \in 1..Len(v) : (i = Len(t) + 1 /\ v[i] = x) \/ (i \in 1..Len(t) /\ v[i] = t[i])
  BY <1>2, <1>7
<1>9. Tuned(s, v, u, p)
  <2>1. Len(v) >= Len(s)
    BY <1>2, <1>7
  <2>2. \A i \in 1..Len(s) : i \in 1..Len(t) /\ v[i] = t[i]
    BY <1>2, <1>7
  <2>3. \A i \in 1..Len(s) :
          v[i].op = s[i].op /\ (s[i].op \notin {"units", "price"} => v[i] = s[i])
    BY <1>6, <2>2 DEF Tuned
  <2>4. \A i \in 1..Len(v) : i > Len(s) => v[i].op = "assert"
    BY <1>6, <1>8 DEF Tuned
  <2>5. \A i \in 1..Len(v) : (v[i].op = "units" => v[i].arg = u) /\ (v[i].op = "price" => v[i].arg = p)
    BY <1>6, <1>8 DEF Tuned
  <2> QED BY <2>1, <2>3, <2>4, <2>5 DEF Tuned
<1>10. r.keys \subseteq n.keys
  <2>1. \A k \in r.keys : k.writable /\ k \in J
    BY RebuiltKeys DEF Polite, J
  <2> QED BY <1>5, <2>1 DEF Signing!Merge
<1>11. ASSUME NEW k \in n.keys \ r.keys
       PROVE  /\ ~k.writable /\ ~k.signer /\ k.key \notin Signing!Names(r.keys)
              /\ \E i \in 1..Len(v) : i > Len(s) /\ k.key \in {"lighthouse", v[i].arg}
  <2>1. k \in J /\ (k.writable \/ \A l \in J : l.key = k.key => ~l.writable)
    BY <1>5 DEF Signing!Merge
  <2>2. CASE k \in m.keys
    <3>1. PICK i \in 1..Len(t) : i > Len(s) /\ k.key \in {"lighthouse", t[i].arg}
      BY <2>2 DEF Polite, s, t
    <3>2. i \in 1..Len(v) /\ v[i] = t[i]
      BY <1>2, <1>7
    <3>3. \E j \in 1..Len(v) : j > Len(s) /\ k.key \in {"lighthouse", v[j].arg}
      BY <3>1, <3>2
    <3> QED BY <2>2, <3>3 DEF Polite
  <2>3. ASSUME NEW i \in DOMAIN v, k \in Signing!KeysOf(v[i])
        PROVE  /\ ~k.writable /\ ~k.signer /\ k.key \notin Signing!Names(r.keys)
               /\ \E j \in 1..Len(v) : j > Len(s) /\ k.key \in {"lighthouse", v[j].arg}
    <3>0. i \in 1..Len(v) /\ i \in Nat
      BY <1>2, <1>7
    <3>1. i > Len(s)
      <4> SUFFICES ASSUME i <= Len(s) PROVE FALSE
        BY <1>7, <3>0
      <4>1. i \in 1..Len(s)
        BY <1>7, <3>0
      <4>2. v[i].op = s[i].op /\ (s[i].op \notin {"units", "price"} => v[i] = s[i])
        BY <1>9, <4>1 DEF Tuned
      <4>3. s[i].op \notin {"units", "price"}
        BY <2>3, <4>2, FeeKeys
      <4>4. k \in Signing!KeysOf(r.ixs[i]) /\ i \in DOMAIN r.ixs
        BY <1>7, <2>3, <4>1, <4>2, <4>3 DEF s
      <4>5. k \in r.keys
        BY <4>4, RebuiltKeys
      <4> QED BY <4>5
    <3>2. v[i].op = "assert"
      BY <1>9, <3>0, <3>1 DEF Tuned
    <3>3. ~k.writable /\ ~k.signer /\ k.key \in {"lighthouse", v[i].arg}
      BY <2>3, <3>2, AssertionKeys
    <3>4. k.key \notin Signing!Names(r.keys)
      <4>1. \A l \in r.keys : l.writable /\ l \in J
        BY RebuiltKeys DEF Polite, J
      <4>2. \A l \in r.keys : l.key # k.key
        BY <2>1, <3>3, <4>1
      <4> QED BY <4>2 DEF Signing!Names
    <3> QED BY <3>0, <3>1, <3>3, <3>4
  <2> QED BY <2>1, <2>2, <2>3 DEF J
<1>12. n.hash = r.hash
  BY <1>5 DEF Polite
<1> QED BY <1>5, <1>6, <1>9, <1>10, <1>11, <1>12 DEF Polite, s

(* Another fee. *)
LEMMA PoliteTunes ==
  ASSUME NEW r \in Signing!Messages, NEW m \in Signing!Messages, Polite(m, r),
         NEW u \in Units, NEW p \in UnitPrices,
         u \in 1..MaxUnits, Signing!PriorityFee(u, p) <= FeeLimit,
         NEW n, n = [m EXCEPT !.ixs = Fees(m.ixs, u, p)]
  PROVE  Polite(n, r)
<1> DEFINE s == r.ixs
           t == m.ixs
           v == Fees(m.ixs, u, p)
<1>1. s \in Seq(Signing!Instructions) /\ t \in Seq(Signing!Instructions)
      /\ v \in Seq(Signing!Instructions) /\ Len(v) = Len(t)
  BY MessageHas, FeesTyped
<1>2. m = [ixs |-> m.ixs, hash |-> m.hash, keys |-> m.keys]
  BY MessageHas
<1>3. n.ixs = v /\ n.keys = m.keys /\ n.hash = m.hash
  <2>1. n = [m EXCEPT !.ixs = v]
    OBVIOUS
  <2> HIDE DEF v
  <2> QED BY <1>2, <2>1
<1>4. \A i \in 1..Len(t) :
        v[i] = IF t[i].op = "units" THEN Signing!Ix("units", u)
               ELSE IF t[i].op = "price" THEN Signing!Ix("price", p) ELSE t[i]
  BY <1>1 DEF Fees
<1> HIDE DEF v
<1>5. \A i \in 1..Len(t) :
        /\ v[i].op = t[i].op /\ (t[i].op \notin {"units", "price"} => v[i] = t[i])
        /\ v[i].op = "units" => v[i].arg = u
        /\ v[i].op = "price" => v[i].arg = p
  BY <1>4 DEF Signing!Ix
<1>6. PICK a, b : Tuned(s, t, a, b)
  BY DEF Polite
<1> HIDE DEF s, t
<1>7. Tuned(s, v, u, p)
  <2>1. \A i \in 1..Len(s) : i \in 1..Len(t)
    BY <1>1, <1>6 DEF Tuned
  <2>2. \A i \in 1..Len(s) :
          v[i].op = s[i].op /\ (s[i].op \notin {"units", "price"} => v[i] = s[i])
    BY <1>5, <1>6, <2>1 DEF Tuned
  <2>3. \A i \in 1..Len(v) : i > Len(s) => v[i].op = "assert"
    BY <1>1, <1>5, <1>6 DEF Tuned
  <2>4. \A i \in 1..Len(v) : (v[i].op = "units" => v[i].arg = u) /\ (v[i].op = "price" => v[i].arg = p)
    BY <1>1, <1>5
  <2>5. Len(v) >= Len(s)
    BY <1>1, <1>6 DEF Tuned
  <2> QED BY <2>2, <2>3, <2>4, <2>5 DEF Tuned
<1>8. Signing!Fits(n)
  BY <1>1, <1>3 DEF Polite, Signing!Fits, Signing!Size, t
<1>9. \A i \in 1..Len(t) : i > Len(s) => v[i] = t[i]
  BY <1>5, <1>6 DEF Tuned
<1>10. \A k \in n.keys \ r.keys :
         /\ ~k.writable /\ ~k.signer /\ k.key \notin Signing!Names(r.keys)
         /\ \E i \in 1..Len(n.ixs) : i > Len(r.ixs) /\ k.key \in {"lighthouse", n.ixs[i].arg}
  <2> TAKE k \in n.keys \ r.keys
  <2>1. k \in m.keys \ r.keys
    BY <1>3
  <2>2. ~k.writable /\ ~k.signer /\ k.key \notin Signing!Names(r.keys)
    BY <2>1 DEF Polite
  <2>3. PICK i \in 1..Len(t) : i > Len(s) /\ k.key \in {"lighthouse", t[i].arg}
    BY <2>1 DEF Polite, s, t
  <2>4. i \in 1..Len(n.ixs) /\ i > Len(r.ixs) /\ k.key \in {"lighthouse", n.ixs[i].arg}
    BY <1>1, <1>3, <1>9, <2>3 DEF s
  <2> QED BY <2>2, <2>4
<1> QED BY <1>3, <1>7, <1>8, <1>10 DEF Polite, s

(* It is accepted. *)
LEMMA PoliteIsValid ==
  ASSUME NEW r \in Signing!Messages, NEW a, Prepared(r.ixs, a),
         Signing!FeeBounded(Signing!Describe(r, FALSE)),
         NEW m \in Signing!Messages, Polite(m, r),
         NEW w, w.message = m, w.signed
  PROVE  Signing!ValidateWalletFeeChange(r, w)
<1> DEFINE s == r.ixs
           t == m.ixs
           E == Signing!Instructions
           o == Signing!Describe(r, FALSE)
           b == Signing!Describe(m, ~Signing!Guarded(r))
<1>1. s \in Seq(E) /\ t \in Seq(E) /\ DOMAIN s = 1..Len(s) /\ Len(s) \in Nat /\ Len(t) \in Nat
  BY MessageHas
<1>2. /\ \A i \in DOMAIN s : s[i].op # "assert" /\ s[i].op # "write"
      /\ Once(s, "units") /\ Once(s, "price")
  BY DEF Prepared, Asks
<1>3. ~Signing!Guarded(r)
  BY <1>2 DEF Signing!Guarded, Signing!Has
<1>4. PICK u, p : /\ u \in 1..MaxUnits /\ Signing!PriorityFee(u, p) <= FeeLimit
                  /\ Tuned(s, t, u, p)
  BY DEF Polite
<1>5. PICK c \in [0..Len(s) -> Descriptions(E)] : Describes(s, FALSE, c) /\ c[Len(s)] = o
  BY <1>1, DescribeSteps
<1>6. PICK g \in BOOLEAN : g = ~Signing!Guarded(r)
  OBVIOUS
<1>7. g
  BY <1>3, <1>6
<1>8. PICK d \in [0..Len(t) -> Descriptions(E)] : Describes(t, g, d) /\ d[Len(t)] = b
  <2>1. m.ixs \in Seq(E) /\ g \in BOOLEAN
    BY <1>1, <1>6
  <2>2. b = Signing!Describe(m, g)
    BY <1>6
  <2> HIDE DEF E, b
  <2> QED BY <2>1, <2>2, DescribeSteps
<1> HIDE DEF s, t, E, o, b
<1>9. Alike(o, d[Len(s)], u, p) /\ Trailing(d[Len(s)], b, t, Len(s), Len(t))
  <2>1. PICK f : f = FALSE
    OBVIOUS
  <2>2. Describes(s, f, c) /\ ~f
    BY <1>5, <2>1
  <2>3. /\ Alike(c[Len(s)], d[Len(s)], u, p)
        /\ Trailing(d[Len(s)], d[Len(t)], t, Len(s), Len(t))
    BY <1>1, <1>2, <1>4, <1>7, <1>8, <2>2, TunedIsRead
  <2> QED BY <1>5, <1>8, <2>3
<1>10. FeeRead(s, Len(s), o) /\ o \in Descriptions(E)
  <2>1. Len(s) \in 0..Len(s)
    BY <1>1
  <2> QED BY <1>1, <1>2, <1>5, <2>1, FeeIsOnce
<1>11. o.priced /\ o.units \in 1..MaxUnits
  BY DEF Signing!FeeBounded, o
<1>12. o.metered = TRUE /\ o.priced = TRUE
  <2>1. o.metered = TRUE
    <3>1. 0 \notin 1..MaxUnits
      BY WireAssumption
    <3>2. o.units # 0
      BY <1>11, <3>1
    <3> QED BY <1>10, <3>2 DEF FeeRead
  <2>2. o.priced \in BOOLEAN
    BY <1>10 DEF Descriptions
  <2> QED BY <1>11, <2>1, <2>2
<1>13. b.units = u /\ b.price = p /\ b.priced = TRUE
  BY <1>9, <1>12 DEF Alike, Trailing
<1>14. Signing!FeeBounded(b)
  BY <1>4, <1>13 DEF Signing!FeeBounded
<1>15. b.rest = o.rest /\ b.misplaced = FALSE
  BY <1>9 DEF Alike, Trailing
<1>16. m.keys \ Signing!ReadOnlyGuards(m, b, r) = r.keys
  <2>1. ASSUME NEW k \in m.keys \ r.keys PROVE k \in Signing!ReadOnlyGuards(m, b, r)
    <3>1. /\ ~k.writable /\ ~k.signer /\ k.key \notin Signing!Names(r.keys)
          /\ \E i \in 1..Len(t) : i > Len(s) /\ k.key \in {"lighthouse", t[i].arg}
      BY DEF Polite, s, t
    <3>2. PICK i \in 1..Len(t) : i > Len(s) /\ k.key \in {"lighthouse", t[i].arg}
      BY <3>1
    <3>3. i \in (Len(s) + 1)..Len(t)
      BY <1>1, <3>2
    <3>4. k.key \in b.guards
      BY <1>9, <3>2, <3>3 DEF Trailing
    <3> QED BY <3>1, <3>4 DEF Signing!ReadOnlyGuards
  <2>2. ASSUME NEW k \in r.keys PROVE k \in m.keys /\ k \notin Signing!ReadOnlyGuards(m, b, r)
    <3>1. k.key \in Signing!Names(r.keys)
      BY DEF Signing!Names
    <3> QED BY <3>1 DEF Polite, Signing!ReadOnlyGuards
  <2> QED BY <2>1, <2>2
<1>17. Signing!SameShape(r, m, o, b)
  BY <1>15, <1>16 DEF Signing!SameShape, Polite
<1>18. Signing!Fits(m)
  BY DEF Polite
<1> QED BY <1>14, <1>17, <1>18 DEF Signing!ValidateWalletFeeChange, o, b

(* What a trade and a claim are compared with has a fee within the limit.  *)
LEMMA DirectIsBounded ==
  ASSUME app \in Apps, kind \in Signing!Direct, Signing!Rebuilt # None
  PROVE  Signing!FeeBounded(Signing!Describe(Signing!Rebuilt, FALSE))
<1>1. (kind = "creator-fee-claim") = FALSE
  BY DEF Signing!Direct
<1>2. Signing!Rebuilt = Signing!PrepareTransactionWire(app, FALSE)
  BY <1>1 DEF Signing!Rebuilt
<1> QED BY <1>2, WireAssumption

LEMMA RebuiltIsPolite ==
  ASSUME app \in Apps, kind \in Signing!Direct, Signing!Rebuilt # None
  PROVE  Polite(Signing!Rebuilt, Signing!Rebuilt)
<1> DEFINE r == Signing!Rebuilt
           s == r.ixs
           E == Signing!Instructions
           o == Signing!Describe(r, FALSE)
<1>1. Prepared(s, app) /\ Signing!Fits(r)
  BY PreparedIsReviewed
<1>2. s \in Seq(E) /\ Once(s, "units") /\ Once(s, "price") /\ Len(s) \in Nat
  BY <1>1 DEF Prepared
<1>3. PICK c \in [0..Len(s) -> Descriptions(E)] : Describes(s, FALSE, c) /\ c[Len(s)] = o
  BY <1>2, DescribeSteps
<1>4. Signing!FeeBounded(o)
  BY DirectIsBounded
<1> HIDE DEF r, s, E, o
<1>5. FeeRead(s, Len(s), o)
  <2>1. Len(s) \in 0..Len(s)
    BY <1>2
  <2> QED BY <1>2, <1>3, <2>1, FeeIsOnce
<1>6. Tuned(s, s, o.units, o.price)
  BY <1>2, <1>5 DEF Tuned, FeeRead
<1>7. o.units \in 1..MaxUnits /\ Signing!PriorityFee(o.units, o.price) <= FeeLimit
  BY <1>4 DEF Signing!FeeBounded
<1> QED BY <1>1, <1>6, <1>7 DEF Polite, r, s

LEMMA AssertionIsPolite ==
  ASSUME app \in Apps, kind \in Signing!Direct, Signing!Rebuilt # None,
         NEW n, n = Signing!WithAssertion(Signing!Rebuilt), Signing!Fits(n)
  PROVE  Polite(n, Signing!Rebuilt)
<1> DEFINE r == Signing!Rebuilt
           x == Signing!Ix("assert", "payer")
           v == Append(r.ixs, x)
           K == UNION {Signing!KeysOf(r.ixs[i]) : i \in DOMAIN r.ixs}
           V == UNION {Signing!KeysOf(v[i]) : i \in DOMAIN v}
<1>1. /\ r \in Signing!Messages /\ r = Signing!Message(r.ixs) /\ Prepared(r.ixs, app)
      /\ r.ixs \in Seq(Signing!Instructions) /\ r = [ixs |-> r.ixs, hash |-> r.hash, keys |-> r.keys]
  BY PreparedIsReviewed, MessageHas
<1>2. \A i \in DOMAIN r.ixs : Asks(r.ixs[i])
  BY <1>1 DEF Prepared
<1>3. x \in Signing!Instructions /\ x.op = "assert"
  BY InstructionsHave DEF Signing!Ix
<1>4. Polite(r, r)
  BY RebuiltIsPolite
<1>5. r.keys = {Signing!Payer} \cup K
  BY <1>1, <1>2, RebuiltKeys
<1>6. K \subseteq V
  <2>1. \A i \in DOMAIN r.ixs : i \in DOMAIN v /\ v[i] = r.ixs[i]
    <3> HIDE DEF x, r
    <3> QED BY <1>1, <1>3
  <2> HIDE DEF v
  <2> QED BY <2>1
<1>7. n = Signing!Message(v)
  BY DEF Signing!WithAssertion
<1>8. n = [ixs |-> v, hash |-> "h1", keys |-> Signing!Merge({Signing!Payer} \cup V)]
  BY <1>7 DEF Signing!Message
<1>9. Signing!WithIxs(r, v) = [r EXCEPT !.ixs = v, !.keys = Signing!Merge(r.keys \cup V)]
  BY DEF Signing!WithIxs
<1>10. r.hash = "h1"
  BY <1>1 DEF Signing!Message
<1> HIDE DEF r, v, K, V
<1>11. r.keys \cup V = {Signing!Payer} \cup V
  BY <1>5, <1>6
<1>12. n = Signing!WithIxs(r, v)
  BY <1>1, <1>8, <1>9, <1>10, <1>11
<1> HIDE DEF x
<1>13. n = Signing!WithIxs(r, Append(r.ixs, x))
  BY <1>12 DEF v
<1>14. Polite(n, r)
  BY <1>1, <1>2, <1>3, <1>4, <1>13, PoliteAppends
<1> QED BY <1>14 DEF r

-----------------------------------------------------------------------------
(* A polite wallet is never refused *)

PoliteInv ==
  /\ WireInv
  /\ kind \in Signing!Direct /\ polite /\ wire.message # None =>
       Polite(wire.message, Signing!Rebuilt)
  /\ Signing!PoliteIsAccepted

LEMMA PoliteInit == Signing!Init => PoliteInv
<1> SUFFICES ASSUME Signing!Init PROVE PoliteInv
  OBVIOUS
<1>1. WireInv
  BY WireInit
<1>2. wire.message = None
  BY DEF Signing!Init, Signing!Closed
<1>3. stored # None => answer # "refused"
  BY DEF Signing!Init
<1> QED BY <1>1, <1>2, <1>3 DEF PoliteInv, Signing!PoliteIsAccepted

LEMMA InsertLast ==
  ASSUME NEW E, NEW s \in Seq(E), NEW x \in E
  PROVE  Signing!InsertAt(s, Len(s) + 1, x) = Append(s, x)
<1> DEFINE n == Len(s)
<1>1. SubSeq(s, 1, (n + 1) - 1) = s /\ SubSeq(s, n + 1, n) = <<>>
  OBVIOUS
<1>2. Signing!InsertAt(s, n + 1, x) = (s \o <<x>>) \o <<>>
  BY <1>1 DEF Signing!InsertAt
<1>3. (s \o <<x>>) \o <<>> = s \o <<x>> /\ s \o <<x>> = Append(s, x)
  OBVIOUS
<1> QED BY <1>2, <1>3

LEMMA PoliteEdits ==
  ASSUME PoliteInv, Signing!Insert \/ Signing!Delete \/ Signing!SetFee \/ Signing!Raise,
         kind \in Signing!Direct, polite'
  PROVE  Polite(wire'.message, Signing!Rebuilt)
<1> DEFINE w == wire.message
           r == Signing!Rebuilt
<1>1. w # None /\ w \in Signing!Messages
      /\ wire \in [message : Signing!Messages \cup {None}, signed : BOOLEAN]
  BY DEF PoliteInv, WireInv, Signing!TypeOK, Signing!Insert, Signing!Delete, Signing!SetFee, Signing!Raise
<1>2. w.ixs \in Seq(Signing!Instructions)
  BY <1>1, MessageHas
<1>3. app \in Apps /\ r # None
  BY <1>1 DEF PoliteInv, WireInv, Signing!TypeOK
<1>4. r \in Signing!Messages /\ r = Signing!Message(r.ixs) /\ Prepared(r.ixs, app)
  BY <1>3, PreparedIsReviewed
<1>5. \A i \in DOMAIN r.ixs : Asks(r.ixs[i])
  BY <1>4 DEF Prepared
<1>6. polite => Polite(w, r)
  BY <1>1 DEF PoliteInv
<1>7. ASSUME NEW m, NEW p, Signing!Edit(m, p)
      PROVE  wire'.message = m /\ polite /\ p
  BY <1>1, <1>7 DEF Signing!Edit
<1> HIDE DEF r
<1>8. CASE Signing!Insert
  <2>1. PICK i \in 1..(Len(w.ixs) + 1), x \in Signing!Added :
          LET m == Signing!WithIxs(w, Signing!InsertAt(w.ixs, i, x)) IN
          Signing!Edit(m, x.op = "assert" /\ i > Len(w.ixs) /\ Signing!Size(m) <= Packet)
    BY <1>8 DEF Signing!Insert
  <2> DEFINE m == Signing!WithIxs(w, Signing!InsertAt(w.ixs, i, x))
  <2>2. Signing!Edit(m, x.op = "assert" /\ i > Len(w.ixs) /\ Signing!Size(m) <= Packet)
    BY <2>1
  <2>3. x \in Signing!Instructions
    BY InstructionsHave
  <2> HIDE DEF m
  <2>4. wire'.message = m /\ polite /\ x.op = "assert" /\ i > Len(w.ixs) /\ Signing!Size(m) <= Packet
    <3>1. PICK p : p = (x.op = "assert" /\ i > Len(w.ixs) /\ Signing!Size(m) <= Packet)
      OBVIOUS
    <3>2. Signing!Edit(m, p)
      BY <2>2, <3>1
    <3>3. wire'.message = m /\ polite /\ p
      BY <1>7, <3>2
    <3> QED BY <3>1, <3>3
  <2>5. i = Len(w.ixs) + 1
    BY <1>2, <2>4
  <2>6. m = Signing!WithIxs(w, Append(w.ixs, x))
    BY <1>2, <2>3, <2>5, InsertLast DEF m
  <2>7. Signing!Fits(m)
    BY <2>4 DEF Signing!Fits
  <2> HIDE DEF w
  <2>8. Polite(m, r)
    BY <1>1, <1>4, <1>5, <1>6, <2>3, <2>4, <2>6, <2>7, PoliteAppends
  <2> QED BY <2>4, <2>8 DEF r
<1>9. CASE Signing!Delete
  <2>1. PICK i \in DOMAIN w.ixs : Signing!Edit([w EXCEPT !.ixs = Signing!RemoveAt(@, i)], FALSE)
    BY <1>9 DEF Signing!Delete
  <2>2. ~polite'
    BY <2>1 DEF Signing!Edit
  <2> QED BY <2>2
<1>10. CASE Signing!SetFee
  <2>1. PICK u \in Units, p \in UnitPrices :
          Signing!Edit([w EXCEPT !.ixs = Fees(w.ixs, u, p)],
                    u \in 1..MaxUnits /\ Signing!PriorityFee(u, p) <= FeeLimit)
    BY <1>10 DEF Signing!SetFee, Fees
  <2> DEFINE m == [w EXCEPT !.ixs = Fees(w.ixs, u, p)]
  <2>2. Signing!Edit(m, u \in 1..MaxUnits /\ Signing!PriorityFee(u, p) <= FeeLimit)
    BY <2>1
  <2> HIDE DEF m
  <2>3. wire'.message = m /\ polite /\ u \in 1..MaxUnits /\ Signing!PriorityFee(u, p) <= FeeLimit
    <3>1. PICK q : q = (u \in 1..MaxUnits /\ Signing!PriorityFee(u, p) <= FeeLimit)
      OBVIOUS
    <3>2. Signing!Edit(m, q)
      BY <2>2, <3>1
    <3>3. wire'.message = m /\ polite /\ q
      BY <1>7, <3>2
    <3> QED BY <3>1, <3>3
  <2> HIDE DEF w
  <2>4. m = [w EXCEPT !.ixs = Fees(w.ixs, u, p)]
    BY DEF m
  <2>5. Polite(m, r)
    BY <1>1, <1>4, <1>6, <2>3, <2>4, PoliteTunes
  <2> QED BY <2>3, <2>5 DEF r
<1>11. CASE Signing!Raise
  <2>1. CASE Signing!Edit([w EXCEPT !.hash = "h2"], FALSE)
    <3>1. ~polite'
      BY <2>1 DEF Signing!Edit
    <3> QED BY <3>1
  <2>2. ASSUME NEW k \in w.keys,
               Signing!Edit([w EXCEPT !.keys = (@ \ {k}) \cup {[k EXCEPT !.writable = TRUE]}],
                         k.writable)
        PROVE  Polite(wire'.message, r)
    <3> DEFINE m == [w EXCEPT !.keys = (@ \ {k}) \cup {[k EXCEPT !.writable = TRUE]}]
    <3>1. Signing!Edit(m, k.writable)
      BY <2>2
    <3> HIDE DEF m
    <3>2. wire'.message = m /\ polite /\ k.writable
      <4>1. PICK q : q = k.writable
        OBVIOUS
      <4>2. Signing!Edit(m, q)
        BY <3>1, <4>1
      <4>3. wire'.message = m /\ polite /\ q
        BY <1>7, <4>2
      <4> QED BY <4>1, <4>3
    <3>3. k \in Signing!Accounts /\ w = [ixs |-> w.ixs, hash |-> w.hash, keys |-> w.keys]
      BY <1>1, MessageHas
    <3>4. k = [key |-> k.key, writable |-> k.writable, signer |-> k.signer]
          /\ k.writable \in BOOLEAN
      BY <3>3, AccountsAreRecords
    <3>5. k.writable = TRUE
      BY <3>2, <3>4
    <3>6. PICK v : v = TRUE
      OBVIOUS
    <3>7. [k EXCEPT !.writable = v] = k
      BY <3>4, <3>5, <3>6
    <3>8. m = [w EXCEPT !.keys = (@ \ {k}) \cup {[k EXCEPT !.writable = v]}]
      BY <3>6 DEF m
    <3> HIDE DEF w
    <3>9. (w.keys \ {k}) \cup {[k EXCEPT !.writable = v]} = w.keys
      BY <2>2, <3>7
    <3>10. m = w
      BY <3>3, <3>8, <3>9
    <3> QED BY <1>6, <3>2, <3>10
  <2> QED BY <1>11, <2>1, <2>2 DEF Signing!Raise, r
<1> QED BY <1>8, <1>9, <1>10, <1>11

LEMMA PoliteStep == PoliteInv /\ [Signing!Next]_signingVars => PoliteInv'
<1> SUFFICES ASSUME PoliteInv, [Signing!Next]_signingVars PROVE PoliteInv'
  OBVIOUS
<1>1. WireInv /\ WireInv'
  BY WireStep DEF PoliteInv
<1>2. app' = app /\ kind' = kind /\ Signing!Rebuilt' = Signing!Rebuilt
  <2>1. app' = app /\ kind' = kind
    BY DEF signingVars, Signing!Next, Signing!Open, Signing!Insert, Signing!Delete, Signing!SetFee, Signing!Raise,
           Signing!Edit, Signing!Sign, Signing!Submit, Signing!Revise
  <2> QED BY <2>1, KeptReviewed
<1>3. /\ kind \in Signing!Direct /\ polite /\ wire.message # None =>
           Polite(wire.message, Signing!Rebuilt)
      /\ stored # None /\ kind \in Signing!Direct /\ polite => answer # "refused"
  BY DEF PoliteInv, Signing!PoliteIsAccepted
<1> SUFFICES ASSUME kind \in Signing!Direct
             PROVE  /\ polite' /\ wire'.message # None => Polite(wire'.message, Signing!Rebuilt)
                    /\ stored' # None /\ polite' => answer' # "refused"
  BY <1>1, <1>2 DEF PoliteInv, Signing!PoliteIsAccepted, Signing!Direct
<1>4. CASE UNCHANGED signingVars
  BY <1>3, <1>4 DEF signingVars
<1>5. CASE Signing!Open
  <2>1. /\ answer = "open" /\ wire'.message = stored /\ UNCHANGED <<stored, answer>>
        /\ stored # None
    BY <1>1, <1>5 DEF Signing!Open, WireInv
  <2>2. app \in Apps /\ Signing!Rebuilt # None /\ Signing!Size(stored) <= Packet
    BY <1>1, <2>1 DEF WireInv, Signing!TypeOK
  <2>3. stored = Signing!Rebuilt \/ stored = Signing!WithAssertion(Signing!Rebuilt)
    BY <1>1, <2>1 DEF WireInv, Signing!Direct
  <2>4. Signing!Fits(stored)
    BY <2>2 DEF Signing!Fits
  <2>5. Polite(stored, Signing!Rebuilt)
    BY <2>2, <2>3, <2>4, RebuiltIsPolite, AssertionIsPolite
  <2> QED BY <2>1, <2>5
<1>6. CASE Signing!Insert \/ Signing!Delete \/ Signing!SetFee \/ Signing!Raise
  <2>1. polite' => Polite(wire'.message, Signing!Rebuilt)
    BY <1>6, PoliteEdits
  <2>2. (polite' => polite) /\ UNCHANGED <<stored, answer>>
    BY <1>6 DEF Signing!Insert, Signing!Delete, Signing!SetFee, Signing!Raise, Signing!Edit
  <2> QED BY <1>3, <2>1, <2>2
<1>7. CASE Signing!Sign
  <2>1. UNCHANGED <<stored, answer, polite>> /\ wire'.message = wire.message
    BY <1>1, <1>7 DEF Signing!Sign, WireInv, Signing!TypeOK
  <2> QED BY <1>3, <2>1
<1>8. CASE Signing!Submit
  <2>1. /\ answer' = (IF Signing!MayRun(wire) THEN "accepted" ELSE "refused")
        /\ UNCHANGED <<stored, polite, wire>> /\ wire.signed
    BY <1>8 DEF Signing!Submit
  <2>2. ASSUME polite PROVE Signing!MayRun(wire)
    <3>1. wire.message # None /\ stored # None /\ app \in Apps /\ Signing!Rebuilt # None
          /\ wire.message \in Signing!Messages
      BY <1>1, <2>1 DEF WireInv, Signing!TypeOK
    <3>2. Polite(wire.message, Signing!Rebuilt)
      BY <1>3, <2>2, <3>1
    <3>3. Signing!Rebuilt \in Signing!Messages /\ Prepared(Signing!Rebuilt.ixs, app)
      BY <3>1, PreparedIsReviewed
    <3>4. Signing!FeeBounded(Signing!Describe(Signing!Rebuilt, FALSE))
      BY <3>1, DirectIsBounded
    <3>5. Signing!ValidateWalletFeeChange(Signing!Rebuilt, wire)
      BY <2>1, <3>1, <3>2, <3>3, <3>4, PoliteIsValid
    <3>6. Signing!Baseline = Signing!Rebuilt
      BY <1>1, <3>1, BaselineIsReviewed
    <3> QED BY <2>1, <3>5, <3>6 DEF Signing!MayRun, Signing!OnlyDirect
  <2> QED BY <1>3, <2>1, <2>2
<1>9. CASE Signing!Revise
  BY <1>9 DEF Signing!Revise
<1> QED BY <1>4, <1>5, <1>6, <1>7, <1>8, <1>9 DEF Signing!Next

LEMMA PoliteKeepsPromises ==
  PoliteInv => /\ Signing!TypeOK /\ Signing!RunsAsReviewed
               /\ Signing!OthersRunAsShown /\ Signing!PoliteIsAccepted
BY WireKeepsPromises DEF PoliteInv

-----------------------------------------------------------------------------
(* What is traded: the elements of a sequence that are in a set *)

(* The fold of Kept, one element after the other.                          *)
Keeps(s, S, d) ==
  /\ d[0] = <<>>
  /\ \A i \in 1..Len(s) : d[i] = IF s[i] \in S THEN Append(d[i - 1], s[i]) ELSE d[i - 1]

LEMMA KeptSteps ==
  ASSUME NEW E, NEW s \in Seq(E), NEW S
  PROVE  \E d \in [0..Len(s) -> Seq(E)] : Keeps(s, S, d) /\ d[Len(s)] = Trade!Kept(s, S)
<1> DEFINE N == Len(s)
           V == Seq(E)
           h == [p \in V \X E |-> IF p[2] \in S THEN Append(p[1], p[2]) ELSE p[1]]
           Recurs(iter) == iter = [t \in SUBSET (1..N) |->
                            IF t = {} THEN <<>>
                            ELSE IF s[Highest(t)] \in S
                              THEN Append(iter[t \ {Highest(t)}], s[Highest(t)])
                              ELSE iter[t \ {Highest(t)}]]
           it == CHOOSE iter : Recurs(iter)
<1>0. N \in Nat /\ DOMAIN s = 1..N /\ s \in [1..N -> E] /\ <<>> \in V
  OBVIOUS
<1>1. h \in [V \X E -> V]
  OBVIOUS
<1>2. PICK g \in [SUBSET (1..N) -> V] : Folds(h, <<>>, s, N, g)
  <2> HIDE DEF h, V, N
  <2> QED BY <1>0, <1>1, FoldsExist
<1>3. Recurs(g)
  <2> HIDE DEF N
  <2>1. ASSUME NEW t \in SUBSET (1..N), t # {}
        PROVE  g[t] = IF s[Highest(t)] \in S
                        THEN Append(g[t \ {Highest(t)}], s[Highest(t)])
                        ELSE g[t \ {Highest(t)}]
    <3>1. Highest(t) \in t
      BY <1>0, <2>1, HighestIsMember
    <3>2. g[t \ {Highest(t)}] \in V /\ s[Highest(t)] \in E
      BY <1>0, <1>2, <3>1
    <3>3. g[t] = h[<<g[t \ {Highest(t)}], s[Highest(t)]>>]
      BY <1>2, <2>1 DEF Folds
    <3> HIDE DEF V
    <3> QED BY <3>2, <3>3
  <2>2. g[{}] = <<>>
    BY <1>2 DEF Folds
  <2>3. g = [t \in SUBSET (1..N) |-> g[t]]
    BY <1>2
  <2> QED BY <2>1, <2>2, <2>3
<1>4. Recurs(it)
  <2> HIDE DEF Recurs
  <2> QED BY <1>3
<1>5. Trade!Kept(s, S) = it[1..N]
  BY <1>0 DEF Trade!Kept, Trade!FoldLeft, Trade!MapThenFoldSet, Trade!Max, Highest
<1>6. it[{}] = <<>>
  <2>1. it[{}] = IF {} = {} THEN <<>>
                 ELSE IF s[Highest({})] \in S
                   THEN Append(it[{} \ {Highest({})}], s[Highest({})])
                   ELSE it[{} \ {Highest({})}]
    BY <1>4
  <2> QED BY <2>1
<1>7. ASSUME NEW n \in 1..N
      PROVE  it[1..n] = IF s[n] \in S THEN Append(it[1..(n - 1)], s[n]) ELSE it[1..(n - 1)]
  <2> DEFINE t == 1..n
  <2>1. t \in SUBSET (1..N) /\ t # {} /\ Highest(t) = n /\ t \ {Highest(t)} = 1..(n - 1)
    BY <1>0, Prefixes
  <2> HIDE DEF t
  <2>2. it[t] = IF s[Highest(t)] \in S
                  THEN Append(it[t \ {Highest(t)}], s[Highest(t)]) ELSE it[t \ {Highest(t)}]
    BY <1>4, <2>1
  <2>3. it[t] = IF s[n] \in S THEN Append(it[1..(n - 1)], s[n]) ELSE it[1..(n - 1)]
    <3> HIDE DEF it
    <3>1. Highest(t) = n /\ t \ {Highest(t)} = 1..(n - 1)
      BY <2>1
    <3> QED BY <2>2, <3>1
  <2> QED BY <2>3 DEF t
<1> DEFINE d == [n \in 0..N |-> it[1..n]]
           Good == {n \in Nat : n \in 0..N => it[1..n] \in V}
<1> HIDE DEF it
<1>8. Nat \subseteq Good
  <2>1. 0 \in Good
    <3>1. 1..0 = {}
      OBVIOUS
    <3>2. it[1..0] = <<>>
      BY <1>6, <3>1
    <3>3. it[1..0] \in V
      BY <3>2
    <3> QED BY <3>3
  <2>2. ASSUME NEW n \in Nat, n \in Good PROVE n + 1 \in Good
    <3> SUFFICES ASSUME n + 1 \in 0..N PROVE it[1..(n + 1)] \in V
      <4> HIDE DEF V
      <4> QED OBVIOUS
    <3>1. n + 1 \in 1..N /\ n \in 0..N /\ (n + 1) - 1 = n
      BY <1>0
    <3>2. it[1..n] \in V
      <4> HIDE DEF V
      <4> QED BY <2>2, <3>1
    <3>3. s[n + 1] \in E
      BY <1>0, <3>1
    <3>4. it[1..(n + 1)] = IF s[n + 1] \in S THEN Append(it[1..n], s[n + 1]) ELSE it[1..n]
      <4> HIDE DEF N
      <4> QED BY <1>7, <3>1
    <3>5. Append(it[1..n], s[n + 1]) \in V
      BY <3>2, <3>3
    <3> QED BY <3>2, <3>4, <3>5
  <2> HIDE DEF Good
  <2> QED BY <2>1, <2>2, EveryNat
<1>9. d \in [0..N -> V]
  <2> HIDE DEF V
  <2>1. \A n \in 0..N : it[1..n] \in V
    BY <1>0, <1>8
  <2> QED BY <2>1
<1>10. Keeps(s, S, d)
  <2>1. 1..0 = {} /\ 0 \in 0..N
    BY <1>0
  <2>2. d[0] = <<>>
    BY <1>6, <2>1
  <2>3. \A n \in 1..N : n \in 0..N /\ n - 1 \in 0..N
    BY <1>0
  <2>4. \A n \in 1..N :
          d[n] = IF s[n] \in S THEN Append(d[n - 1], s[n]) ELSE d[n - 1]
    BY <1>7, <2>3
  <2> HIDE DEF d
  <2> QED BY <2>2, <2>4 DEF Keeps
<1>11. d[N] = Trade!Kept(s, S)
  BY <1>0, <1>5
<1> HIDE DEF d
<1> QED BY <1>9, <1>10, <1>11

LEMMA KeptAll ==
  ASSUME NEW E, NEW s \in Seq(E), NEW S, \A i \in 1..Len(s) : s[i] \in S
  PROVE  Trade!Kept(s, S) = s
<1>1. PICK d \in [0..Len(s) -> Seq(E)] : Keeps(s, S, d) /\ d[Len(s)] = Trade!Kept(s, S)
  BY KeptSteps
<1>2. d[0] = <<>> /\ \A i \in 1..Len(s) : d[i] = Append(d[i - 1], s[i])
  BY <1>1 DEF Keeps
<1> DEFINE N == Len(s)
           Same(n) == Len(d[n]) = n /\ \A i \in 1..n : d[n][i] = s[i]
           Good == {n \in Nat : n <= N => Same(n)}
<1>3. N \in Nat /\ s \in [1..N -> E]
  OBVIOUS
<1>4. 0 \in Good
  BY <1>2, <1>3
<1>5. ASSUME NEW n \in Nat, n \in Good PROVE n + 1 \in Good
  <2> SUFFICES ASSUME n + 1 <= N PROVE Same(n + 1)
    <3> HIDE DEF Same
    <3> QED OBVIOUS
  <2>1. n + 1 \in 1..N /\ n \in 0..N /\ (n + 1) - 1 = n
    BY <1>3
  <2>2. d[n] \in Seq(E) /\ s[n + 1] \in E /\ d[n + 1] = Append(d[n], s[n + 1])
    BY <1>2, <1>3, <2>1
  <2>3. Same(n)
    <3> HIDE DEF Same
    <3> QED BY <1>3, <1>5, <2>1
  <2>4. Len(d[n + 1]) = n + 1
    BY <2>2, <2>3
  <2>5. ASSUME NEW i \in 1..(n + 1) PROVE d[n + 1][i] = s[i]
    <3>1. i \in 1..n \/ i = n + 1
      OBVIOUS
    <3> QED BY <2>2, <2>3, <3>1
  <2> QED BY <2>4, <2>5
<1>6. N \in Good
  <2> HIDE DEF Good, N
  <2> QED BY <1>3, <1>4, <1>5, EveryNat
<1>7. Same(N)
  <2> HIDE DEF Same
  <2> QED BY <1>3, <1>6
<1>8. d[N] \in Seq(E)
  BY <1>3
<1> QED BY <1>1, <1>3, <1>7, <1>8

LEMMA KeptNone ==
  ASSUME NEW E, NEW s \in Seq(E), NEW S, \A i \in 1..Len(s) : s[i] \notin S
  PROVE  Trade!Kept(s, S) = <<>>
<1>1. PICK d \in [0..Len(s) -> Seq(E)] : Keeps(s, S, d) /\ d[Len(s)] = Trade!Kept(s, S)
  BY KeptSteps
<1>2. d[0] = <<>> /\ \A i \in 1..Len(s) : d[i] = d[i - 1]
  BY <1>1 DEF Keeps
<1> DEFINE N == Len(s)
           Good == {n \in Nat : n <= N => d[n] = <<>>}
<1>3. N \in Nat
  OBVIOUS
<1>4. 0 \in Good
  BY <1>2
<1>5. ASSUME NEW n \in Nat, n \in Good PROVE n + 1 \in Good
  <2>1. n + 1 <= N => n + 1 \in 1..N /\ n <= N /\ (n + 1) - 1 = n
    BY <1>3
  <2> QED BY <1>2, <1>5, <2>1
<1>6. N \in Good
  <2> HIDE DEF Good, N
  <2> QED BY <1>3, <1>4, <1>5, EveryNat
<1> QED BY <1>1, <1>6

LEMMA KeptTyped ==
  ASSUME NEW E, NEW s \in Seq(E), NEW S
  PROVE  Trade!Kept(s, S) \in Seq(E)
<1>1. PICK d \in [0..Len(s) -> Seq(E)] : Keeps(s, S, d) /\ d[Len(s)] = Trade!Kept(s, S)
  BY KeptSteps
<1> QED BY <1>1

LEMMA KeptOfNothing ==
  ASSUME NEW S
  PROVE  Trade!Kept(<<>>, S) = <<>>
<1>1. PICK e : e = <<>>
  OBVIOUS
<1>2. e \in Seq({}) /\ \A i \in 1..Len(e) : e[i] \notin S
  BY <1>1
<1>3. Trade!Kept(e, S) = <<>>
  BY <1>2, KeptNone
<1> QED BY <1>1, <1>3

LEMMA AppendOne ==
  ASSUME NEW E, NEW a \in E, NEW b \in E
  PROVE  Append(<<a>>, b) = <<a, b>>
<1>1. <<a>> \in Seq(E) /\ Len(<<a>>) = 1 /\ <<a>>[1] = a
  OBVIOUS
<1>2. PICK s : s = <<a>>
  OBVIOUS
<1>3. /\ Len(Append(s, b)) = 2 /\ Append(s, b)[1] = a /\ Append(s, b)[2] = b
      /\ Append(s, b) \in Seq(E)
  BY <1>1, <1>2
<1>4. <<a, b>> \in Seq(E) /\ Len(<<a, b>>) = 2 /\ <<a, b>>[1] = a /\ <<a, b>>[2] = b
  OBVIOUS
<1>5. \A x, y \in Seq(E) : Len(x) = 2 /\ Len(y) = 2 /\ x[1] = y[1] /\ x[2] = y[2] => x = y
  OBVIOUS
<1> QED BY <1>2, <1>3, <1>4, <1>5

LEMMA ElementIn ==
  ASSUME NEW E, NEW s \in Seq(E), NEW i \in 1..Len(s)
  PROVE  s[i] \in E
OBVIOUS

(* What is kept of two and of four elements. *)
LEMMA KeptOfTwo ==
  ASSUME NEW E, NEW s \in Seq(E), NEW S, Len(s) = 2, s[1] \notin S, s[2] \in S
  PROVE  Trade!Kept(s, S) = <<s[2]>>
<1>1. PICK d \in [0..Len(s) -> Seq(E)] : Keeps(s, S, d) /\ d[Len(s)] = Trade!Kept(s, S)
  BY KeptSteps
<1>2. d[0] = <<>> /\ \A i \in 1..2 : d[i] = IF s[i] \in S THEN Append(d[i - 1], s[i]) ELSE d[i - 1]
  BY <1>1 DEF Keeps
<1>3. d[1] = d[0] /\ d[2] = Append(d[1], s[2])
  BY <1>2
<1>4. Append(<<>>, s[2]) = <<s[2]>>
  OBVIOUS
<1>5. d[2] = <<s[2]>>
  BY <1>2, <1>3, <1>4
<1>6. d[2] = Trade!Kept(s, S)
  BY <1>1
<1> QED BY <1>5, <1>6

LEMMA KeptOfFour ==
  ASSUME NEW E, NEW s \in Seq(E), NEW S, Len(s) = 4, s[1] \notin S, s[2] \in S,
         s[3] \notin S, s[4] \in S
  PROVE  Trade!Kept(s, S) = <<s[2], s[4]>>
<1>1. PICK d \in [0..Len(s) -> Seq(E)] : Keeps(s, S, d) /\ d[Len(s)] = Trade!Kept(s, S)
  BY KeptSteps
<1>2. d[0] = <<>> /\ \A i \in 1..4 : d[i] = IF s[i] \in S THEN Append(d[i - 1], s[i]) ELSE d[i - 1]
  BY <1>1 DEF Keeps
<1>3. d[1] = d[0] /\ d[2] = Append(d[1], s[2]) /\ d[3] = d[2] /\ d[4] = Append(d[3], s[4])
  BY <1>2
<1>4. Append(Append(<<>>, s[2]), s[4]) = <<s[2], s[4]>>
  <2>1. s[2] \in E /\ s[4] \in E
    <3>1. 2 \in 1..Len(s) /\ 4 \in 1..Len(s)
      OBVIOUS
    <3> QED BY <3>1, ElementIn
  <2>2. Append(<<>>, s[2]) = <<s[2]>>
    OBVIOUS
  <2>3. Append(<<s[2]>>, s[4]) = <<s[2], s[4]>>
    BY <2>1, AppendOne
  <2> QED BY <2>2, <2>3
<1>5. d[4] = <<s[2], s[4]>>
  BY <1>2, <1>3, <1>4
<1>6. d[4] = Trade!Kept(s, S)
  BY <1>1
<1> QED BY <1>5, <1>6

-----------------------------------------------------------------------------
(* Every swap is counted once *)

LEMMA EmittedBy ==
  ASSUME NEW n \in 1..2
  PROVE  /\ Len(Trade!Emitted("dbc", n)) = 2 * n /\ Len(Trade!Emitted("damm-v2", n)) = n
         /\ Trade!Emitted("dbc", n) \in Seq([program : {"dbc"}, name : {"evtSwap", "evtSwap2"}, swap : {1}])
         /\ Trade!Emitted("damm-v2", n) \in Seq([program : {"damm-v2"}, name : {"evtSwap2"}, swap : {1}])
         /\ \A i \in 1..(2 * n) : Trade!Emitted("dbc", n)[i].name
                                   = (IF i % 2 = 1 THEN "evtSwap" ELSE "evtSwap2")
         /\ \A i \in 1..(2 * n) : /\ Trade!Emitted("dbc", n)[i].program = "dbc"
                                 /\ Trade!Emitted("dbc", n)[i].swap = 1
         /\ \A i \in 1..n : /\ Trade!Emitted("damm-v2", n)[i].program = "damm-v2"
                           /\ Trade!Emitted("damm-v2", n)[i].name = "evtSwap2"
<1> DEFINE d == Trade!Emitted("dbc", n)
           g == Trade!Emitted("damm-v2", n)
<1>1. Len(<<"evtSwap", "evtSwap2">>) = 2 /\ Len(<<"evtSwap2">>) = 1
  OBVIOUS
<1>2. d = [i \in 1..(n * 2) |-> [program |-> "dbc",
             name |-> <<"evtSwap", "evtSwap2">>[((i - 1) % 2) + 1], swap |-> 1]]
  BY <1>1 DEF Trade!Emitted
<1>3. g = [i \in 1..(n * 1) |-> [program |-> "damm-v2",
             name |-> <<"evtSwap2">>[((i - 1) % 1) + 1], swap |-> 1]]
  BY <1>1 DEF Trade!Emitted
<1>4. \A i \in 1..(n * 2) : i \in 1..4 /\ ((i - 1) % 2) + 1 = (IF i % 2 = 1 THEN 1 ELSE 2)
  OBVIOUS
<1>5. \A i \in 1..(n * 1) : ((i - 1) % 1) + 1 = 1
  OBVIOUS
<1>6. n * 2 = 2 * n /\ n * 1 = n /\ 2 * n \in Nat /\ n \in Nat
  OBVIOUS
<1>7. d = [i \in 1..(2 * n) |-> [program |-> "dbc",
             name |-> IF i % 2 = 1 THEN "evtSwap" ELSE "evtSwap2", swap |-> 1]]
  BY <1>2, <1>4, <1>6
<1>8. g = [i \in 1..n |-> [program |-> "damm-v2", name |-> "evtSwap2", swap |-> 1]]
  BY <1>3, <1>5, <1>6
<1> HIDE DEF d, g
<1>9. Len(d) = 2 * n /\ Len(g) = n
  BY <1>6, <1>7, <1>8
<1>10. d \in Seq([program : {"dbc"}, name : {"evtSwap", "evtSwap2"}, swap : {1}])
  BY <1>6, <1>7
<1>11. g \in Seq([program : {"damm-v2"}, name : {"evtSwap2"}, swap : {1}])
  BY <1>6, <1>8
<1>12. \A i \in 1..(2 * n) : d[i].name = IF i % 2 = 1 THEN "evtSwap" ELSE "evtSwap2"
  BY <1>7
<1>13. \A i \in 1..(2 * n) : d[i].program = "dbc" /\ d[i].swap = 1
  BY <1>7
<1>14. \A i \in 1..n : g[i].program = "damm-v2" /\ g[i].name = "evtSwap2"
  BY <1>8
<1> QED BY <1>9, <1>10, <1>11, <1>12, <1>13, <1>14 DEF d, g

(* A receipt has the events of the program that ran, whichever way.        *)
LEMMA DecodedAre ==
  ASSUME NEW E, NEW events \in Seq(E), NEW venue, NEW r, events # <<>>,
         r.inner = events \/ (r.inner = <<>> /\ r.logs = events),
         \A i \in 1..Len(events) : events[i].program = venue
  PROVE  Trade!DecodeTransactionEvents(r, venue) = events
<1> DEFINE of(s) == Trade!Kept(s, {e \in Range(s) : e.program = venue})
<1>1. Trade!DecodeTransactionEvents(r, venue) = IF of(r.inner) # <<>> THEN of(r.inner) ELSE of(r.logs)
  BY DEF Trade!DecodeTransactionEvents, Trade!Range, Range
<1>2. of(events) = events
  <2>1. \A i \in 1..Len(events) : events[i] \in {e \in Range(events) : e.program = venue}
    BY DEF Range
  <2> QED BY <2>1, KeptAll
<1>3. of(<<>>) = <<>>
  BY KeptOfNothing
<1> HIDE DEF of
<1> QED BY <1>1, <1>2, <1>3

LEMMA OthersAreNotDecoded ==
  ASSUME NEW E, NEW events \in Seq(E), NEW venue, NEW r,
         r.inner \in {<<>>, events}, r.logs \in {<<>>, events},
         \A i \in 1..Len(events) : events[i].program # venue
  PROVE  Trade!DecodeTransactionEvents(r, venue) = <<>>
<1> DEFINE of(s) == Trade!Kept(s, {e \in Range(s) : e.program = venue})
<1>1. Trade!DecodeTransactionEvents(r, venue) = IF of(r.inner) # <<>> THEN of(r.inner) ELSE of(r.logs)
  BY DEF Trade!DecodeTransactionEvents, Trade!Range, Range
<1>2. of(events) = <<>>
  <2>1. \A i \in 1..Len(events) : events[i] \notin {e \in Range(events) : e.program = venue}
    OBVIOUS
  <2> QED BY <2>1, KeptNone
<1>3. of(<<>>) = <<>>
  BY KeptOfNothing
<1> HIDE DEF of
<1> QED BY <1>1, <1>2, <1>3

LEMMA NoneCanonical == Len(Trade!CanonicalSwapEvents(<<>>)) = 0
<1> DEFINE S == {i \in 1..Len(<<>>) : ~(/\ (<<>>)[i].name = "evtSwap" /\ i < Len(<<>>)
                                        /\ (<<>>)[i + 1].name = "evtSwap2"
                                        /\ (<<>>)[i + 1].swap = (<<>>)[i].swap)}
<1>1. [i \in 1..Len(<<>>) |-> i] = <<>>
  OBVIOUS
<1>2. Trade!Kept(<<>>, S) = <<>>
  BY KeptOfNothing
<1>3. Trade!CanonicalSwapEvents(<<>>)
        = [i \in 1..Len(Trade!Kept(<<>>, S)) |-> (<<>>)[Trade!Kept(<<>>, S)[i]]]
  BY <1>1 DEF Trade!CanonicalSwapEvents
<1> HIDE DEF S
<1>4. Trade!CanonicalSwapEvents(<<>>) = [i \in 1..0 |-> (<<>>)[(<<>>)[i]]]
  BY <1>2, <1>3
<1> QED BY <1>4

(* The old event of a pair is dropped. *)
LEMMA PairsCountOnce ==
  ASSUME NEW n \in 1..2
  PROVE  Len(Trade!CanonicalSwapEvents(Trade!Emitted("dbc", n))) = n
<1> DEFINE d == Trade!Emitted("dbc", n)
           paired(i) == d[i].name = "evtSwap" /\ i < Len(d)
                        /\ d[i + 1].name = "evtSwap2" /\ d[i + 1].swap = d[i].swap
           s == [i \in 1..Len(d) |-> i]
           S == {i \in 1..Len(d) : ~paired(i)}
<1>1. Len(Trade!CanonicalSwapEvents(d)) = Len(Trade!Kept(s, S))
  <2>1. Trade!CanonicalSwapEvents(d) = [i \in 1..Len(Trade!Kept(s, S)) |-> d[Trade!Kept(s, S)[i]]]
    BY DEF Trade!CanonicalSwapEvents
  <2>2. Trade!Kept(s, S) \in Seq(Nat)
    <3>1. s \in Seq(Nat)
      <4>1. Len(d) \in Nat
        BY EmittedBy
      <4> HIDE DEF d
      <4> QED BY <4>1
    <3> HIDE DEF s, S
    <3> QED BY <3>1, KeptTyped
  <2> HIDE DEF s, S, d
  <2>3. Len(Trade!Kept(s, S)) \in Nat
    BY <2>2
  <2> QED BY <2>1, <2>3
<1>2. /\ Len(d) = 2 * n /\ d \in Seq([program : {"dbc"}, name : {"evtSwap", "evtSwap2"}, swap : {1}])
      /\ \A i \in 1..(2 * n) : d[i].name = (IF i % 2 = 1 THEN "evtSwap" ELSE "evtSwap2")
      /\ \A i \in 1..(2 * n) : d[i].swap = 1
  BY EmittedBy
<1> HIDE DEF d
<1>4. \A i \in 1..(2 * n) : paired(i) <=> i % 2 = 1
  <2> TAKE i \in 1..(2 * n)
  <2>1. CASE i % 2 = 1
    <3>1. i + 1 \in 1..(2 * n) /\ (i + 1) % 2 # 1 /\ i < 2 * n
      BY <2>1
    <3> QED BY <1>2, <2>1, <3>1
  <2>2. CASE i % 2 # 1
    BY <1>2, <2>2
  <2> QED BY <2>1, <2>2
<1>5. S = {i \in 1..(2 * n) : i % 2 # 1}
  BY <1>2, <1>4
<1>6. s = [i \in 1..(2 * n) |-> i]
  BY <1>2
<1> HIDE DEF s, S, paired
<1>7. CASE n = 1
  <2>1. s \in Seq(Nat) /\ Len(s) = 2 /\ s[1] \notin S /\ s[2] \in S
    BY <1>5, <1>6, <1>7
  <2>2. Trade!Kept(s, S) = <<s[2]>>
    BY <2>1, KeptOfTwo
  <2> QED BY <1>1, <1>7, <2>2 DEF d
<1>8. CASE n = 2
  <2>1. s \in Seq(Nat) /\ Len(s) = 4 /\ s[1] \notin S /\ s[2] \in S /\ s[3] \notin S /\ s[4] \in S
    BY <1>5, <1>6, <1>8
  <2>2. Trade!Kept(s, S) = <<s[2], s[4]>>
    BY <2>1, KeptOfFour
  <2> QED BY <1>1, <1>8, <2>2 DEF d
<1> QED BY <1>7, <1>8

Receipts ==
  {[inner |-> <<>>, logs |-> <<>>, swaps |-> 0]}
    \cup {Trade!Receipt(v, n, self) : v \in {"dbc", "damm-v2"}, n \in 1..2, self \in BOOLEAN}

LEMMA SwapsCountOnce == receiptT \in Receipts => Trade!EachSwapCountedOnce
<1> SUFFICES ASSUME receiptT \in Receipts PROVE Trade!EachSwapCountedOnce
  OBVIOUS
<1> DEFINE dbc == Trade!DecodeTransactionEvents(receiptT, "dbc")
           all == Trade!DecodeTransactionEvents(receiptT, "damm-v2")
           damm == Trade!Kept(all, {e \in Range(all) : e.name = "evtSwap2"})
<1>1. Trade!EachSwapCountedOnce <=> Len(Trade!CanonicalSwapEvents(dbc)) + Len(damm) = receiptT.swaps
  BY DEF Trade!EachSwapCountedOnce, Trade!Range, Range
<1> HIDE DEF dbc, all
<1>2. all = <<>> => Len(damm) = 0
  BY KeptOfNothing
<1>3. dbc = <<>> => Len(Trade!CanonicalSwapEvents(dbc)) = 0
  BY NoneCanonical
<1> HIDE DEF damm
<1>4. CASE receiptT = [inner |-> <<>>, logs |-> <<>>, swaps |-> 0]
  <2>1. receiptT.inner = <<>> /\ receiptT.logs = <<>> /\ receiptT.swaps = 0
    BY <1>4
  <2>4. ASSUME NEW v PROVE Trade!DecodeTransactionEvents(receiptT, v) = <<>>
    <3>1. PICK r : r = receiptT
      OBVIOUS
    <3>2. r.inner = <<>> /\ r.logs = <<>>
      BY <2>1, <3>1
    <3>3. Trade!DecodeTransactionEvents(r, v) = <<>>
      BY <3>2, KeptOfNothing DEF Trade!DecodeTransactionEvents
    <3> QED BY <3>1, <3>3
  <2>5. dbc = <<>> /\ all = <<>>
    BY <2>4 DEF dbc, all
  <2> QED BY <1>1, <1>2, <1>3, <2>1, <2>5
<1>5. ASSUME NEW n \in 1..2, NEW self \in BOOLEAN, receiptT = Trade!Receipt("dbc", n, self)
      PROVE  Trade!EachSwapCountedOnce
  <2> DEFINE es == Trade!Emitted("dbc", n)
             E == [program : {"dbc"}, name : {"evtSwap", "evtSwap2"}, swap : {1}]
  <2>1. /\ receiptT.inner = (IF self THEN es ELSE <<>>) /\ receiptT.logs = (IF self THEN <<>> ELSE es)
        /\ receiptT.swaps = n
    BY <1>5 DEF Trade!Receipt
  <2>2. /\ es \in Seq(E) /\ Len(es) = 2 * n
        /\ \A i \in 1..(2 * n) : es[i].program = "dbc"
    BY EmittedBy
  <2>3. Len(Trade!CanonicalSwapEvents(es)) = n
    BY PairsCountOnce
  <2> HIDE DEF es
  <2> HIDE DEF E
  <2>4. es # <<>> /\ \A i \in 1..Len(es) : es[i].program = "dbc"
    BY <2>2
  <2>5. dbc = es
    BY <2>1, <2>2, <2>4, DecodedAre DEF dbc
  <2>6. all = <<>>
    BY <2>1, <2>2, <2>4, OthersAreNotDecoded DEF all
  <2> QED BY <1>1, <1>2, <2>1, <2>3, <2>5, <2>6
<1>6. ASSUME NEW n \in 1..2, NEW self \in BOOLEAN, receiptT = Trade!Receipt("damm-v2", n, self)
      PROVE  Trade!EachSwapCountedOnce
  <2> DEFINE es == Trade!Emitted("damm-v2", n)
             E == [program : {"damm-v2"}, name : {"evtSwap2"}, swap : {1}]
  <2>1. /\ receiptT.inner = (IF self THEN es ELSE <<>>) /\ receiptT.logs = (IF self THEN <<>> ELSE es)
        /\ receiptT.swaps = n
    BY <1>6 DEF Trade!Receipt
  <2>2. /\ es \in Seq(E) /\ Len(es) = n
        /\ \A i \in 1..n : es[i].program = "damm-v2" /\ es[i].name = "evtSwap2"
    BY EmittedBy
  <2> HIDE DEF es
  <2> HIDE DEF E
  <2>3. es # <<>> /\ \A i \in 1..Len(es) : es[i].program = "damm-v2" /\ es[i].name = "evtSwap2"
    BY <2>2
  <2>4. all = es
    BY <2>1, <2>2, <2>3, DecodedAre DEF all
  <2>5. dbc = <<>>
    BY <2>1, <2>2, <2>3, OthersAreNotDecoded DEF dbc
  <2>6. Trade!Kept(es, {e \in Range(es) : e.name = "evtSwap2"}) = es
    <3>1. \A i \in 1..Len(es) : es[i] \in {e \in Range(es) : e.name = "evtSwap2"}
      BY <2>2, <2>3 DEF Range
    <3> QED BY <2>2, <3>1, KeptAll
  <2>7. Len(damm) = n
    BY <2>2, <2>4, <2>6 DEF damm
  <2> QED BY <1>1, <1>3, <2>1, <2>5, <2>7
<1> QED BY <1>4, <1>5, <1>6 DEF Receipts

-----------------------------------------------------------------------------
(* What a transaction does *)

Purse == {"SOL", "WSOL", "USDC", "token"}
Wallet == [has : [Purse -> Int], open : BOOLEAN]
PoolState == [rate : Nat \ {0}, reserve : Int, migrated : BOOLEAN]
States == [ok : BOOLEAN, wallet : Wallet, pool : PoolState]

(* What the pool and the market ask is positive.                           *)
Priced ==
  /\ pool \in [rate : Nat \ {0}, reserve : 0..Threshold, migrated : BOOLEAN]
  /\ market \in Nat \ {0}

LEMMA MoveHas ==
  ASSUME NEW w \in Wallet, NEW from \in Purse, NEW to \in Purse, NEW paid \in Int, NEW got \in Int
  PROVE  /\ Trade!Move(w, from, paid, to, got) \in Wallet
         /\ Trade!Move(w, from, paid, to, got).open = w.open
         /\ \A a \in Purse : Trade!Move(w, from, paid, to, got).has[a]
                               = w.has[a] - (IF a = from THEN paid ELSE 0) + (IF a = to THEN got ELSE 0)
<1>1. w.has \in [Purse -> Int] /\ w.open \in BOOLEAN /\ w = [has |-> w.has, open |-> w.open]
  BY DEF Wallet
<1> DEFINE f == [a \in Purse |-> w.has[a] - (IF a = from THEN paid ELSE 0) + (IF a = to THEN got ELSE 0)]
<1>2. Trade!Move(w, from, paid, to, got) = [has |-> f, open |-> w.open]
  BY <1>1 DEF Trade!Move
<1>3. \A a \in Purse : w.has[a] \in Int
  BY <1>1
<1> HIDE DEF Purse
<1>4. f \in [Purse -> Int]
  BY <1>3
<1>5. \A a \in Purse : f[a] = w.has[a] - (IF a = from THEN paid ELSE 0) + (IF a = to THEN got ELSE 0)
  OBVIOUS
<1> HIDE DEF f
<1> QED BY <1>1, <1>2, <1>4, <1>5 DEF Wallet

LEMMA StatesHave ==
  ASSUME NEW s \in States
  PROVE  /\ s.ok \in BOOLEAN /\ s.wallet \in Wallet /\ s.pool \in PoolState
         /\ s.wallet.has \in [Purse -> Int] /\ s.wallet.open \in BOOLEAN
         /\ \A a \in Purse : s.wallet.has[a] \in Int
<1> HIDE DEF Purse
<1>1. s.ok \in BOOLEAN /\ s.wallet \in Wallet /\ s.pool \in PoolState
  BY DEF States
<1>2. s.wallet.has \in [Purse -> Int] /\ s.wallet.open \in BOOLEAN
  BY <1>1 DEF Wallet
<1> QED BY <1>1, <1>2

LEMMA StoppedStops ==
  ASSUME NEW s \in States
  PROVE  Trade!Stopped(s) \in States /\ ~Trade!Stopped(s).ok
<1> HIDE DEF Wallet, PoolState
<1>1. [s EXCEPT !.ok = FALSE] \in States
  BY DEF States
<1>2. ~[s EXCEPT !.ok = FALSE].ok
  BY DEF States
<1> QED BY <1>1, <1>2 DEF Trade!Stopped

(* A wallet that has changed is the only change.                           *)
LEMMA WithWallet ==
  ASSUME NEW s \in States, NEW w \in Wallet
  PROVE  /\ [s EXCEPT !.wallet = w] \in States
         /\ [s EXCEPT !.wallet = w].ok = s.ok
         /\ [s EXCEPT !.wallet = w].wallet = w
         /\ [s EXCEPT !.wallet = w].pool = s.pool
<1> HIDE DEF Wallet, PoolState
<1>1. [s EXCEPT !.wallet = w] \in States
  BY DEF States
<1>2. [s EXCEPT !.wallet = w].ok = s.ok
  BY DEF States
<1>3. [s EXCEPT !.wallet = w].wallet = w
  BY DEF States
<1>4. [s EXCEPT !.wallet = w].pool = s.pool
  BY DEF States
<1> QED BY <1>1, <1>2, <1>3, <1>4

LEMMA OpenRuns ==
  ASSUME NEW s \in States, NEW n \in Int
  PROVE  LET t == Trade!RunOp(s, Trade!Op("open", n)) IN
         t \in States /\ t.ok = s.ok /\ t.wallet.open /\ t.wallet.has = s.wallet.has /\ t.pool = s.pool
<1> DEFINE t == Trade!RunOp(s, Trade!Op("open", n))
<1>1. t = [s EXCEPT !.wallet.open = TRUE]
  BY DEF Trade!RunOp, Trade!Op
<1>2. s.wallet \in [has : [Purse -> Int], open : BOOLEAN]
  BY StatesHave DEF Wallet
<1> HIDE DEF Purse
<1>3. PICK w : w = [s.wallet EXCEPT !.open = TRUE]
  OBVIOUS
<1>4. w \in [has : [Purse -> Int], open : BOOLEAN]
  BY <1>2, <1>3
<1>5. w.open /\ w.has = s.wallet.has
  BY <1>2, <1>3
<1>6. w \in Wallet
  BY <1>4 DEF Wallet
<1> HIDE DEF Wallet, PoolState
<1>7. [s EXCEPT !.wallet.open = TRUE] = [s EXCEPT !.wallet = w]
  BY <1>3 DEF States
<1> HIDE DEF t
<1>8. t \in States /\ t.ok = s.ok /\ t.wallet = w /\ t.pool = s.pool
  BY <1>1, <1>6, <1>7, WithWallet
<1> QED BY <1>5, <1>8 DEF t

LEMMA WrapRuns ==
  ASSUME NEW s \in States, NEW n \in Int
  PROVE  LET t == Trade!RunOp(s, Trade!Op("wrap", n))
             runs == s.wallet.open /\ s.wallet.has["SOL"] >= n
         IN /\ t \in States
            /\ ~runs => ~t.ok
            /\ runs => /\ t.ok = s.ok /\ t.wallet.open = s.wallet.open /\ t.pool = s.pool
                       /\ t.wallet.has["SOL"] = s.wallet.has["SOL"] - n
                       /\ t.wallet.has["WSOL"] = s.wallet.has["WSOL"] + n
                       /\ t.wallet.has["USDC"] = s.wallet.has["USDC"]
                       /\ t.wallet.has["token"] = s.wallet.has["token"]
<1> DEFINE t == Trade!RunOp(s, Trade!Op("wrap", n))
           runs == s.wallet.open /\ s.wallet.has["SOL"] >= n
           w == Trade!Move(s.wallet, "SOL", n, "WSOL", n)
<1>1. t = IF runs THEN [s EXCEPT !.wallet = w] ELSE Trade!Stopped(s)
  BY DEF Trade!RunOp, Trade!Op
<1>2. /\ w \in Wallet /\ w.open = s.wallet.open
      /\ \A a \in Purse : w.has[a] = s.wallet.has[a] - (IF a = "SOL" THEN n ELSE 0) + (IF a = "WSOL" THEN n ELSE 0)
  <2>1. s.wallet \in Wallet /\ "SOL" \in Purse /\ "WSOL" \in Purse
    BY StatesHave DEF Purse
  <2> HIDE DEF Purse, Wallet
  <2> QED BY <2>1, MoveHas
<1>3. \A a \in Purse : s.wallet.has[a] \in Int
  BY StatesHave
<1>4. /\ w.has["SOL"] = s.wallet.has["SOL"] - n /\ w.has["WSOL"] = s.wallet.has["WSOL"] + n
      /\ w.has["USDC"] = s.wallet.has["USDC"] /\ w.has["token"] = s.wallet.has["token"]
  BY <1>2, <1>3 DEF Purse
<1> HIDE DEF w, Purse, runs
<1> HIDE DEF t, Wallet
<1>5. CASE runs
  <2>1. t \in States /\ t.ok = s.ok /\ t.pool = s.pool /\ t.wallet = w
    BY <1>1, <1>2, <1>5, WithWallet
  <2> QED BY <1>2, <1>4, <1>5, <2>1 DEF t, runs
<1>6. CASE ~runs
  <2>1. t \in States /\ ~t.ok
    BY <1>1, <1>6, StoppedStops
  <2> QED BY <1>6, <2>1 DEF t, runs
<1> QED BY <1>5, <1>6

LEMMA CloseRuns ==
  ASSUME NEW s \in States, NEW n \in Int
  PROVE  LET t == Trade!RunOp(s, Trade!Op("close", n)) IN
         /\ t \in States
         /\ ~s.wallet.open => ~t.ok
         /\ s.wallet.open => /\ t.ok = s.ok /\ t.pool = s.pool
                             /\ t.wallet.has["SOL"] = s.wallet.has["SOL"] + s.wallet.has["WSOL"]
                             /\ t.wallet.has["WSOL"] = 0
                             /\ t.wallet.has["USDC"] = s.wallet.has["USDC"]
                             /\ t.wallet.has["token"] = s.wallet.has["token"]
<1> DEFINE t == Trade!RunOp(s, Trade!Op("close", n))
           b == s.wallet.has["WSOL"]
           w == Trade!Move(s.wallet, "WSOL", b, "SOL", b)
<1>0. \A a \in Purse : s.wallet.has[a] \in Int
  BY StatesHave
<1>1. b \in Int
  BY <1>0 DEF Purse
<1>2. /\ w \in Wallet /\ w.open = s.wallet.open
      /\ \A a \in Purse : w.has[a] = s.wallet.has[a] - (IF a = "WSOL" THEN b ELSE 0) + (IF a = "SOL" THEN b ELSE 0)
  <2>1. s.wallet \in Wallet /\ "SOL" \in Purse /\ "WSOL" \in Purse
    BY StatesHave DEF Purse
  <2> HIDE DEF Purse, Wallet
  <2> QED BY <1>1, <2>1, MoveHas
<1>3. t = IF s.wallet.open THEN [s EXCEPT !.wallet = [w EXCEPT !.open = FALSE]] ELSE Trade!Stopped(s)
  BY DEF Trade!RunOp, Trade!Op
<1>4. /\ w.has["SOL"] = s.wallet.has["SOL"] + b /\ w.has["WSOL"] = 0
      /\ w.has["USDC"] = s.wallet.has["USDC"] /\ w.has["token"] = s.wallet.has["token"]
  BY <1>0, <1>2 DEF Purse
<1> HIDE DEF w, Purse
<1>5. PICK v : v = [w EXCEPT !.open = FALSE]
  OBVIOUS
<1>6. v \in Wallet /\ v.has = w.has
  BY <1>2, <1>5 DEF Wallet
<1>7. t = IF s.wallet.open THEN [s EXCEPT !.wallet = v] ELSE Trade!Stopped(s)
  BY <1>3, <1>5
<1> HIDE DEF t, Wallet
<1>8. CASE s.wallet.open
  <2>1. t \in States /\ t.ok = s.ok /\ t.pool = s.pool /\ t.wallet = v
    BY <1>6, <1>7, <1>8, WithWallet
  <2> QED BY <1>4, <1>6, <1>8, <2>1 DEF t
<1>9. CASE ~s.wallet.open
  <2>1. t \in States /\ ~t.ok
    BY <1>7, <1>9, StoppedStops
  <2> QED BY <1>9, <2>1 DEF t
<1> QED BY <1>8, <1>9

LEMMA Quotient ==
  ASSUME NEW n \in Nat, NEW d \in Nat \ {0}
  PROVE  n \div d \in Nat
OBVIOUS

LEMMA MinimumIsLess ==
  ASSUME NEW out \in Nat, NEW slip \in 0..100
  PROVE  Trade!MinimumOf(out, slip) \in Nat /\ Trade!MinimumOf(out, slip) <= out
<1>1. out * slip \in Nat /\ out * (100 - slip) = 100 * out - out * slip
  OBVIOUS
<1>2. out * (100 - slip) \in Nat
  <2>1. 100 - slip \in Nat
    OBVIOUS
  <2> QED BY <2>1
<1>3. PICK p \in Nat : p = out * (100 - slip) /\ p <= 100 * out
  BY <1>1, <1>2
<1>4. p \div 100 \in Nat /\ p \div 100 <= out
  BY <1>3
<1> QED BY <1>3, <1>4 DEF Trade!MinimumOf

LEMMA Amounted ==
  ASSUME Priced, NEW n \in Nat, NEW sell \in BOOLEAN
  PROVE  /\ Trade!Consumed(n, sell) \in Nat /\ Trade!Consumed(n, sell) <= n
         /\ Trade!Output(n, sell) \in Nat
         /\ ~sell /\ ~pool.migrated => pool.reserve + Trade!Consumed(n, sell) <= Threshold
<1>1. /\ pool.rate \in Nat \ {0} /\ pool.reserve \in Nat /\ pool.reserve <= Threshold
      /\ Threshold \in Nat
  BY TradeAssumption DEF Priced
<1>2. /\ Trade!Consumed(n, sell) \in Nat /\ Trade!Consumed(n, sell) <= n
      /\ ~sell /\ ~pool.migrated => pool.reserve + Trade!Consumed(n, sell) <= Threshold
  BY <1>1 DEF Trade!Consumed, Trade!Least
<1>3. n \div pool.rate \in Nat
  BY <1>1, Quotient
<1>4. PICK c \in Nat : c = Trade!Consumed(n, sell)
  BY <1>2
<1>5. c * pool.rate \in Nat
  BY <1>1
<1>6. Trade!Output(n, sell) \in Nat
  BY <1>3, <1>4, <1>5 DEF Trade!Output
<1> QED BY <1>2, <1>6

LEMMA PoolRuns ==
  ASSUME Priced, NEW s \in States, NEW op, op.op = "pool", op.sell \in BOOLEAN,
         op.amount \in Nat, op.min \in Nat
  PROVE  LET t == Trade!RunOp(s, op)
             in == IF op.sell THEN "token" ELSE "WSOL"
             out == IF op.sell THEN "WSOL" ELSE "token"
             spent == Trade!Consumed(op.amount, op.sell)
             got == Trade!Output(op.amount, op.sell)
             runs == /\ op.venue = Trade!Venue /\ Trade!Fillable(op.amount, op.sell)
                     /\ s.wallet.has[in] >= op.amount /\ got >= op.min /\ s.wallet.open
         IN /\ t \in States
            /\ ~runs => ~t.ok
            /\ runs => /\ t.ok = s.ok /\ t.wallet.open = s.wallet.open
                       /\ t.wallet.has["SOL"] = s.wallet.has["SOL"]
                       /\ t.wallet.has["USDC"] = s.wallet.has["USDC"]
                       /\ t.wallet.has[in] = s.wallet.has[in] - spent
                       /\ t.wallet.has[out] = s.wallet.has[out] + got
                       /\ t.pool.rate = s.pool.rate /\ t.pool.migrated = s.pool.migrated
                       /\ t.pool.reserve = s.pool.reserve + (IF pool.migrated THEN 0
                                                             ELSE IF op.sell THEN 0 - got ELSE spent)
<1> DEFINE t == Trade!RunOp(s, op)
           in == IF op.sell THEN "token" ELSE "WSOL"
           out == IF op.sell THEN "WSOL" ELSE "token"
           spent == Trade!Consumed(op.amount, op.sell)
           got == Trade!Output(op.amount, op.sell)
           runs == /\ op.venue = Trade!Venue /\ Trade!Fillable(op.amount, op.sell)
                   /\ s.wallet.has[in] >= op.amount /\ got >= op.min /\ s.wallet.open
           w == Trade!Move(s.wallet, in, spent, out, got)
           res == IF pool.migrated THEN s.pool.reserve
                  ELSE IF op.sell THEN s.pool.reserve - got ELSE s.pool.reserve + spent
<1>1. Trade!Account(IF op.sell THEN "token" ELSE "SOL") = in
      /\ Trade!Account(IF op.sell THEN "SOL" ELSE "token") = out
  BY DEF Trade!Account
<1>2. /\ Trade!Usable(s.wallet, IF op.sell THEN "token" ELSE "SOL")
      /\ Trade!Usable(s.wallet, IF op.sell THEN "SOL" ELSE "token")
      <=> s.wallet.open
  BY StatesHave DEF Trade!Usable, Trade!Account
<1>3. t = Trade!RunPool(s, op)
  BY DEF Trade!RunOp
<1>4. t = IF runs THEN [s EXCEPT !.wallet = w, !.pool.reserve = res] ELSE Trade!Stopped(s)
  BY <1>1, <1>2, <1>3 DEF Trade!RunPool
<1>5. spent \in Int /\ got \in Int /\ s.pool \in PoolState
  BY Amounted, StatesHave
<1>6. /\ w \in Wallet /\ w.open = s.wallet.open
      /\ \A a \in Purse : w.has[a] = s.wallet.has[a] - (IF a = in THEN spent ELSE 0)
                                                     + (IF a = out THEN got ELSE 0)
  <2>1. s.wallet \in Wallet /\ in \in Purse /\ out \in Purse
    BY StatesHave DEF Purse
  <2> HIDE DEF Purse, Wallet, in, out, spent, got
  <2> QED BY <1>5, <2>1, MoveHas
<1>7. \A a \in Purse : s.wallet.has[a] \in Int
  BY StatesHave
<1>8. /\ w.has["SOL"] = s.wallet.has["SOL"] /\ w.has["USDC"] = s.wallet.has["USDC"]
      /\ w.has[in] = s.wallet.has[in] - spent /\ w.has[out] = s.wallet.has[out] + got
  <2> HIDE DEF w, spent, got
  <2> QED BY <1>5, <1>6, <1>7 DEF Purse
<1>9. s.pool.reserve \in Int
  BY <1>5 DEF PoolState
<1>10. res \in Int /\ res = s.pool.reserve + (IF pool.migrated THEN 0
                                              ELSE IF op.sell THEN 0 - got ELSE spent)
  <2> HIDE DEF spent, got
  <2> QED BY <1>5, <1>9
<1> HIDE DEF t, w, in, out, spent, got, runs, res, Wallet
<1>11. CASE runs
  <2>1. t = [s EXCEPT !.wallet = w, !.pool.reserve = res]
    BY <1>4, <1>11
  <2>2. PICK p : p = [s.pool EXCEPT !.reserve = res]
    OBVIOUS
  <2>3. /\ p \in PoolState /\ p.rate = s.pool.rate /\ p.migrated = s.pool.migrated
        /\ p.reserve = res
    BY <1>5, <1>10, <2>2 DEF PoolState
  <2> HIDE DEF PoolState
  <2>4. t = [s EXCEPT !.wallet = w, !.pool = p]
    BY <2>1, <2>2 DEF States
  <2>5. t \in States
    BY <1>6, <2>3, <2>4 DEF States
  <2>6. t.wallet = w /\ t.pool = p
    BY <2>4 DEF States
  <2>7. t.ok = s.ok
    BY <2>4 DEF States
  <2> QED BY <1>6, <1>8, <1>10, <1>11, <2>3, <2>5, <2>6, <2>7 DEF t, in, out, spent, got, runs
<1>12. CASE ~runs
  <2>1. t \in States /\ ~t.ok
    BY <1>4, <1>12, StoppedStops
  <2> QED BY <1>12, <2>1 DEF t, in, out, spent, got, runs
<1> QED BY <1>11, <1>12

LEMMA RouteRuns ==
  ASSUME Priced, NEW s \in States, NEW op, op.op = "route",
         \/ op.in = "USDC" /\ op.out = "SOL"
         \/ op.in = "SOL" /\ op.out = "USDC",
         op.amount \in Nat, op.quoted \in Nat, op.slip \in 0..100, op.fee = 0, op.to = "owner"
  PROVE  LET t == Trade!RunOp(s, op)
             in == IF op.in = "SOL" THEN "WSOL" ELSE "USDC"
             out == IF op.in = "SOL" THEN "USDC" ELSE "WSOL"
             got == IF op.in = "USDC" THEN op.amount * market ELSE op.amount \div market
             runs == /\ s.wallet.has[in] >= op.amount
                     /\ got >= Trade!MinimumOf(op.quoted, op.slip) /\ s.wallet.open
         IN /\ t \in States /\ got \in Nat
            /\ ~runs => ~t.ok
            /\ runs => /\ t.ok = s.ok /\ t.wallet.open = s.wallet.open /\ t.pool = s.pool
                       /\ t.wallet.has["SOL"] = s.wallet.has["SOL"]
                       /\ t.wallet.has["token"] = s.wallet.has["token"]
                       /\ t.wallet.has[in] = s.wallet.has[in] - op.amount
                       /\ t.wallet.has[out] = s.wallet.has[out] + got
<1> DEFINE t == Trade!RunOp(s, op)
           in == IF op.in = "SOL" THEN "WSOL" ELSE "USDC"
           out == IF op.in = "SOL" THEN "USDC" ELSE "WSOL"
           got == IF op.in = "USDC" THEN op.amount * market ELSE op.amount \div market
           runs == /\ s.wallet.has[in] >= op.amount
                   /\ got >= Trade!MinimumOf(op.quoted, op.slip) /\ s.wallet.open
           w == Trade!Move(s.wallet, in, op.amount, out, got)
<1>1. market \in Nat \ {0}
  BY DEF Priced
<1>2. got \in Nat
  <2>1. op.amount * market \in Nat
    BY <1>1
  <2>2. op.amount \div market \in Nat
    BY <1>1, Quotient
  <2> QED BY <2>1, <2>2
<1>3. Trade!RouteOut([in |-> op.in, amount |-> op.amount]) = got
  BY DEF Trade!RouteOut
<1>4. Trade!Account(op.in) = in /\ Trade!Account(op.out) = out
  BY DEF Trade!Account
<1>5. Trade!Usable(s.wallet, op.in) /\ Trade!Usable(s.wallet, op.out) <=> s.wallet.open
  BY StatesHave DEF Trade!Usable, Trade!Account
<1> HIDE DEF got
<1>6. (IF op.to = "owner" THEN got - op.fee ELSE 0) = got
  BY <1>2
<1>7. t = Trade!RunRoute(s, op)
  BY DEF Trade!RunOp
<1>8. t = IF runs THEN [s EXCEPT !.wallet = w] ELSE Trade!Stopped(s)
  BY <1>3, <1>4, <1>5, <1>6, <1>7 DEF Trade!RunRoute
<1>9. /\ w \in Wallet /\ w.open = s.wallet.open
      /\ \A a \in Purse : w.has[a] = s.wallet.has[a] - (IF a = in THEN op.amount ELSE 0)
                                                     + (IF a = out THEN got ELSE 0)
  <2>1. s.wallet \in Wallet /\ in \in Purse /\ out \in Purse
    BY StatesHave DEF Purse
  <2> HIDE DEF Purse, Wallet, in, out
  <2>2. op.amount \in Int /\ got \in Int
    BY <1>2
  <2>3. PICK n : n = op.amount
    OBVIOUS
  <2>4. PICK u : u = s.wallet
    OBVIOUS
  <2>5. PICK i, o, g : i = in /\ o = out /\ g = got
    OBVIOUS
  <2>6. u \in Wallet /\ n \in Int /\ i \in Purse /\ o \in Purse /\ g \in Int
    BY <2>1, <2>2, <2>3, <2>4, <2>5
  <2>7. /\ Trade!Move(u, i, n, o, g) \in Wallet
        /\ Trade!Move(u, i, n, o, g).open = u.open
        /\ \A a \in Purse : Trade!Move(u, i, n, o, g).has[a]
                              = u.has[a] - (IF a = i THEN n ELSE 0) + (IF a = o THEN g ELSE 0)
    BY <2>6, MoveHas
  <2> QED BY <2>3, <2>4, <2>5, <2>7
<1>10. \A a \in Purse : s.wallet.has[a] \in Int
  BY StatesHave
<1>11. /\ w.has["SOL"] = s.wallet.has["SOL"] /\ w.has["token"] = s.wallet.has["token"]
       /\ w.has[in] = s.wallet.has[in] - op.amount /\ w.has[out] = s.wallet.has[out] + got
  <2> HIDE DEF w
  <2> QED BY <1>2, <1>9, <1>10 DEF Purse
<1> HIDE DEF t, w, in, out, runs, Wallet
<1>12. CASE runs
  <2>1. t \in States /\ t.ok = s.ok /\ t.pool = s.pool /\ t.wallet = w
    BY <1>8, <1>9, <1>12, WithWallet
  <2> QED BY <1>2, <1>9, <1>11, <1>12, <2>1 DEF t, in, out, got, runs
<1>13. CASE ~runs
  <2>1. t \in States /\ ~t.ok
    BY <1>8, <1>13, StoppedStops
  <2> QED BY <1>2, <1>13, <2>1 DEF t, in, out, got, runs
<1> QED BY <1>12, <1>13

(* The instructions of a trade.                                            *)
IsOp(op) ==
  \/ \E o \in {"open", "wrap", "close"}, n \in Int : op = Trade!Op(o, n)
  \/ op.op = "pool" /\ op.sell \in BOOLEAN /\ op.amount \in Nat /\ op.min \in Nat
  \/ /\ op.op = "route"
     /\ (op.in = "USDC" /\ op.out = "SOL") \/ (op.in = "SOL" /\ op.out = "USDC")
     /\ op.amount \in Nat /\ op.quoted \in Nat /\ op.slip \in 0..100
     /\ op.fee = 0 /\ op.to = "owner"

(* The fold of Result, one instruction after the other.                    *)
Begun == [ok |-> TRUE, wallet |-> walletT, pool |-> pool]
RunStep(s, op) == IF s.ok THEN Trade!RunOp(s, op) ELSE s
Runs(s, d) ==
  /\ d[0] = Begun
  /\ \A i \in 1..Len(s) : d[i] = RunStep(d[i - 1], s[i])

LEMMA BegunTyped ==
  ASSUME Priced, walletT \in Wallet
  PROVE  Begun \in States /\ Begun.ok /\ Begun.wallet = walletT /\ Begun.pool = pool
<1>1. pool \in PoolState
  BY TradeAssumption DEF Priced, PoolState
<1> HIDE DEF Wallet, PoolState
<1>2. Begun \in States
  BY <1>1 DEF Begun, States
<1> QED BY <1>2 DEF Begun

LEMMA StepTyped ==
  ASSUME Priced, NEW s \in States, NEW op, IsOp(op)
  PROVE  RunStep(s, op) \in States
<1>1. CASE \E o \in {"open", "wrap", "close"}, n \in Int : op = Trade!Op(o, n)
  <2>1. PICK o \in {"open", "wrap", "close"}, n \in Int : op = Trade!Op(o, n)
    BY <1>1
  <2> HIDE DEF States
  <2> QED BY <2>1, OpenRuns, WrapRuns, CloseRuns DEF RunStep
<1>2. CASE op.op = "pool" /\ op.sell \in BOOLEAN /\ op.amount \in Nat /\ op.min \in Nat
  <2> HIDE DEF States
  <2> QED BY <1>2, PoolRuns DEF RunStep
<1>3. CASE /\ op.op = "route"
           /\ (op.in = "USDC" /\ op.out = "SOL") \/ (op.in = "SOL" /\ op.out = "USDC")
           /\ op.amount \in Nat /\ op.quoted \in Nat /\ op.slip \in 0..100
           /\ op.fee = 0 /\ op.to = "owner"
  <2> HIDE DEF States
  <2>1. Trade!RunOp(s, op) \in States
    BY <1>3, RouteRuns
  <2> QED BY <2>1 DEF RunStep
<1> QED BY <1>1, <1>2, <1>3 DEF IsOp

LEMMA ResultSteps ==
  ASSUME NEW E, NEW s \in Seq(E), \A op \in E : IsOp(op), Priced, walletT \in Wallet
  PROVE  \E d \in [0..Len(s) -> States] : Runs(s, d) /\ d[Len(s)] = Trade!Result(s)
<1> DEFINE N == Len(s)
           V == States
           h == [p \in V \X E |-> RunStep(p[1], p[2])]
           Recurs(iter) == iter = [t \in SUBSET (1..N) |->
                            IF t = {} THEN Begun
                            ELSE RunStep(iter[t \ {Highest(t)}], s[Highest(t)])]
           it == CHOOSE iter : Recurs(iter)
<1>0. N \in Nat /\ DOMAIN s = 1..N /\ s \in [1..N -> E] /\ Begun \in V
  BY BegunTyped
<1>1. h \in [V \X E -> V]
  <2> HIDE DEF V
  <2>1. \A p \in V \X E : RunStep(p[1], p[2]) \in V
    <3> TAKE p \in V \X E
    <3>1. p[1] \in States /\ IsOp(p[2])
      BY DEF V
    <3> QED BY <3>1, StepTyped DEF V
  <2> QED BY <2>1
<1>2. PICK g \in [SUBSET (1..N) -> V] : Folds(h, Begun, s, N, g)
  <2> HIDE DEF h, V, N
  <2> QED BY <1>0, <1>1, FoldsExist
<1>3. Recurs(g)
  <2> HIDE DEF N
  <2>1. ASSUME NEW t \in SUBSET (1..N), t # {}
        PROVE  g[t] = RunStep(g[t \ {Highest(t)}], s[Highest(t)])
    <3>1. Highest(t) \in t
      BY <1>0, <2>1, HighestIsMember
    <3>2. g[t \ {Highest(t)}] \in V /\ s[Highest(t)] \in E
      BY <1>0, <1>2, <3>1
    <3>3. g[t] = h[<<g[t \ {Highest(t)}], s[Highest(t)]>>]
      BY <1>2, <2>1 DEF Folds
    <3> HIDE DEF V
    <3> QED BY <3>2, <3>3
  <2>2. g[{}] = Begun
    BY <1>2 DEF Folds
  <2>3. g = [t \in SUBSET (1..N) |-> g[t]]
    BY <1>2
  <2> QED BY <2>1, <2>2, <2>3
<1>4. Recurs(it)
  <2> HIDE DEF Recurs
  <2> QED BY <1>3
<1>5. Trade!Result(s) = it[1..N]
  BY <1>0 DEF Trade!Result, Trade!FoldLeft, Trade!MapThenFoldSet, Trade!Max, Highest, RunStep, Begun
<1>6. it[{}] = Begun
  <2>1. it[{}] = IF {} = {} THEN Begun
                 ELSE RunStep(it[{} \ {Highest({})}], s[Highest({})])
    BY <1>4
  <2> QED BY <2>1
<1>7. ASSUME NEW n \in 1..N
      PROVE  it[1..n] = RunStep(it[1..(n - 1)], s[n])
  <2> DEFINE t == 1..n
  <2>1. t \in SUBSET (1..N) /\ t # {} /\ Highest(t) = n /\ t \ {Highest(t)} = 1..(n - 1)
    BY <1>0, Prefixes
  <2> HIDE DEF t
  <2>2. it[t] = RunStep(it[t \ {Highest(t)}], s[Highest(t)])
    BY <1>4, <2>1
  <2>3. it[t] = RunStep(it[1..(n - 1)], s[n])
    <3> HIDE DEF it
    <3>1. Highest(t) = n /\ t \ {Highest(t)} = 1..(n - 1)
      BY <2>1
    <3> QED BY <2>2, <3>1
  <2> QED BY <2>3 DEF t
<1> DEFINE d == [n \in 0..N |-> it[1..n]]
           Good == {n \in Nat : n \in 0..N => it[1..n] \in V}
<1> HIDE DEF it
<1>8. Nat \subseteq Good
  <2>1. 0 \in Good
    <3>1. 1..0 = {}
      OBVIOUS
    <3>2. it[1..0] = Begun
      BY <1>6, <3>1
    <3>3. it[1..0] \in V
      BY <1>0, <3>2
    <3> QED BY <3>3
  <2>2. ASSUME NEW n \in Nat, n \in Good PROVE n + 1 \in Good
    <3> SUFFICES ASSUME n + 1 \in 0..N PROVE it[1..(n + 1)] \in V
      <4> HIDE DEF V
      <4> QED OBVIOUS
    <3>1. n + 1 \in 1..N /\ n \in 0..N /\ (n + 1) - 1 = n
      BY <1>0
    <3>2. it[1..n] \in V
      <4> HIDE DEF V
      <4> QED BY <2>2, <3>1
    <3>3. s[n + 1] \in E
      BY <1>0, <3>1
    <3>4. it[1..(n + 1)] = RunStep(it[1..n], s[n + 1])
      <4> HIDE DEF N
      <4> QED BY <1>7, <3>1
    <3>5. RunStep(it[1..n], s[n + 1]) \in V
      BY <3>2, <3>3, StepTyped
    <3> QED BY <3>4, <3>5
  <2> HIDE DEF Good
  <2> QED BY <2>1, <2>2, EveryNat
<1>9. d \in [0..N -> V]
  <2> HIDE DEF V
  <2>1. \A n \in 0..N : it[1..n] \in V
    BY <1>0, <1>8
  <2> QED BY <2>1
<1>10. Runs(s, d)
  <2>1. 1..0 = {} /\ 0 \in 0..N
    BY <1>0
  <2>2. d[0] = Begun
    BY <1>6, <2>1
  <2>3. \A n \in 1..N : n \in 0..N /\ n - 1 \in 0..N
    BY <1>0
  <2>4. \A n \in 1..N :
          d[n] = RunStep(d[n - 1], s[n])
    BY <1>7, <2>3
  <2> HIDE DEF d
  <2> QED BY <2>2, <2>4 DEF Runs
<1>11. d[N] = Trade!Result(s)
  BY <1>0, <1>5
<1> HIDE DEF d
<1> QED BY <1>9, <1>10, <1>11

(* What a swap on the pool leaves of its reserve.                          *)
Filled(p, spent, got, sell) ==
  p.reserve + (IF pool.migrated THEN 0 ELSE IF sell THEN 0 - got ELSE spent)

LEMMA FilledTyped ==
  ASSUME Priced, NEW n \in Nat, NEW sell \in BOOLEAN, Trade!Fillable(n, sell)
  PROVE  Filled(pool, Trade!Consumed(n, sell), Trade!Output(n, sell), sell) \in 0..Threshold
<1>1. pool.reserve \in Nat /\ pool.reserve <= Threshold /\ Threshold \in Nat
  BY TradeAssumption DEF Priced
<1>2. /\ Trade!Consumed(n, sell) \in Nat /\ Trade!Output(n, sell) \in Nat
      /\ ~sell /\ ~pool.migrated => pool.reserve + Trade!Consumed(n, sell) <= Threshold
  BY Amounted
<1>3. sell /\ ~pool.migrated => Trade!Output(n, sell) <= pool.reserve
  BY DEF Trade!Fillable
<1> QED BY <1>1, <1>2, <1>3 DEF Filled

Opens == Trade!Op("open", 0)
Wraps(n) == Trade!Op("wrap", n)
Closes == Trade!Op("close", 0)
Swaps(venue, sell, n, min) ==
  [op |-> "pool", venue |-> venue, sell |-> sell, amount |-> n, min |-> min]
Converts(in, out, n, quoted, slip) ==
  [op |-> "route", in |-> in, out |-> out, amount |-> n, quoted |-> quoted, slip |-> slip,
   fee |-> 0, to |-> "owner"]

(* A step of a state that is stopped changes nothing.                      *)
LEMMA StepOpens ==
  ASSUME NEW s \in States
  PROVE  LET t == RunStep(s, Opens) IN
         /\ t \in States
         /\ t.ok = s.ok
         /\ s.ok => t.wallet.open /\ t.wallet.has = s.wallet.has /\ t.pool = s.pool
<1>1. 0 \in Int
  OBVIOUS
<1> HIDE DEF States
<1> QED BY <1>1, OpenRuns DEF RunStep, Opens

LEMMA StepWraps ==
  ASSUME NEW s \in States, NEW n \in Int
  PROVE  LET t == RunStep(s, Wraps(n)) IN
         /\ t \in States
         /\ t.ok <=> s.ok /\ s.wallet.open /\ s.wallet.has["SOL"] >= n
         /\ t.ok => /\ t.wallet.open /\ t.pool = s.pool
                    /\ t.wallet.has["SOL"] = s.wallet.has["SOL"] - n
                    /\ t.wallet.has["WSOL"] = s.wallet.has["WSOL"] + n
                    /\ t.wallet.has["USDC"] = s.wallet.has["USDC"]
                    /\ t.wallet.has["token"] = s.wallet.has["token"]
<1> HIDE DEF States
<1> QED BY WrapRuns DEF RunStep, Wraps

LEMMA StepCloses ==
  ASSUME NEW s \in States
  PROVE  LET t == RunStep(s, Closes) IN
         /\ t \in States
         /\ t.ok <=> s.ok /\ s.wallet.open
         /\ t.ok => /\ t.pool = s.pool
                    /\ t.wallet.has["SOL"] = s.wallet.has["SOL"] + s.wallet.has["WSOL"]
                    /\ t.wallet.has["WSOL"] = 0
                    /\ t.wallet.has["USDC"] = s.wallet.has["USDC"]
                    /\ t.wallet.has["token"] = s.wallet.has["token"]
<1>1. 0 \in Int
  OBVIOUS
<1> HIDE DEF States
<1> QED BY <1>1, CloseRuns DEF RunStep, Closes

LEMMA StepSwaps ==
  ASSUME Priced, NEW s \in States, NEW venue, NEW sell \in BOOLEAN, NEW n \in Nat, NEW min \in Nat
  PROVE  LET t == RunStep(s, Swaps(venue, sell, n, min))
             in == IF sell THEN "token" ELSE "WSOL"
             out == IF sell THEN "WSOL" ELSE "token"
             spent == Trade!Consumed(n, sell)
             got == Trade!Output(n, sell)
         IN /\ t \in States
            /\ t.ok <=> /\ s.ok /\ s.wallet.open /\ venue = Trade!Venue /\ Trade!Fillable(n, sell)
                        /\ s.wallet.has[in] >= n /\ got >= min
            /\ t.ok => /\ t.wallet.open
                       /\ t.wallet.has["SOL"] = s.wallet.has["SOL"]
                       /\ t.wallet.has["USDC"] = s.wallet.has["USDC"]
                       /\ t.wallet.has[in] = s.wallet.has[in] - spent
                       /\ t.wallet.has[out] = s.wallet.has[out] + got
                       /\ t.pool.rate = s.pool.rate /\ t.pool.migrated = s.pool.migrated
                       /\ t.pool.reserve = Filled(s.pool, spent, got, sell)
<1> DEFINE op == Swaps(venue, sell, n, min)
<1>1. /\ op.op = "pool" /\ op.sell \in BOOLEAN /\ op.amount \in Nat /\ op.min \in Nat
      /\ op.sell = sell /\ op.amount = n /\ op.min = min /\ op.venue = venue
  BY DEF Swaps
<1> HIDE DEF States, op
<1>2. PICK t : t = Trade!RunOp(s, op)
  OBVIOUS
<1>3. PICK from, to :
        from = (IF sell THEN "token" ELSE "WSOL") /\ to = (IF sell THEN "WSOL" ELSE "token")
  OBVIOUS
<1>4. PICK spent, got : spent = Trade!Consumed(n, sell) /\ got = Trade!Output(n, sell)
  OBVIOUS
<1> DEFINE runs == /\ venue = Trade!Venue /\ Trade!Fillable(n, sell)
                   /\ s.wallet.has[from] >= n /\ got >= min /\ s.wallet.open
<1>5. /\ t \in States
      /\ ~runs => ~t.ok
      /\ runs => /\ t.ok = s.ok /\ t.wallet.open = s.wallet.open
                 /\ t.wallet.has["SOL"] = s.wallet.has["SOL"]
                 /\ t.wallet.has["USDC"] = s.wallet.has["USDC"]
                 /\ t.wallet.has[from] = s.wallet.has[from] - spent
                 /\ t.wallet.has[to] = s.wallet.has[to] + got
                 /\ t.pool.rate = s.pool.rate /\ t.pool.migrated = s.pool.migrated
                 /\ t.pool.reserve = Filled(s.pool, spent, got, sell)
  BY <1>1, <1>2, <1>3, <1>4, PoolRuns DEF Filled
<1>6. RunStep(s, op) = IF s.ok THEN t ELSE s
  BY <1>2 DEF RunStep
<1> QED BY <1>3, <1>4, <1>5, <1>6 DEF op

(* What the market gives for an amount.                                    *)
Bought(n) == n * market
Sold(n) == n \div market

LEMMA MarketGives ==
  ASSUME Priced, NEW n \in Nat
  PROVE  Bought(n) \in Nat /\ Sold(n) \in Nat
<1>1. market \in Nat \ {0}
  BY DEF Priced
<1>2. n * market \in Nat
  BY <1>1
<1>3. n \div market \in Nat
  BY <1>1, Quotient
<1> QED BY <1>2, <1>3 DEF Bought, Sold

LEMMA StepBuysSol ==
  ASSUME Priced, NEW s \in States, NEW n \in Nat, NEW quoted \in Nat, NEW slip \in 0..100
  PROVE  LET t == RunStep(s, Converts("USDC", "SOL", n, quoted, slip)) IN
         /\ t \in States
         /\ t.ok <=> /\ s.ok /\ s.wallet.open /\ s.wallet.has["USDC"] >= n
                     /\ Bought(n) >= Trade!MinimumOf(quoted, slip)
         /\ t.ok => /\ t.wallet.open /\ t.pool = s.pool
                    /\ t.wallet.has["SOL"] = s.wallet.has["SOL"]
                    /\ t.wallet.has["token"] = s.wallet.has["token"]
                    /\ t.wallet.has["USDC"] = s.wallet.has["USDC"] - n
                    /\ t.wallet.has["WSOL"] = s.wallet.has["WSOL"] + Bought(n)
<1> DEFINE op == Converts("USDC", "SOL", n, quoted, slip)
<1>1. /\ op.op = "route" /\ op.in = "USDC" /\ op.out = "SOL" /\ op.amount = n
      /\ op.quoted = quoted /\ op.slip = slip /\ op.fee = 0 /\ op.to = "owner"
  BY DEF Converts
<1> HIDE DEF States, op
<1>2. PICK t : t = Trade!RunOp(s, op)
  OBVIOUS
<1>3. PICK from, to, g :
        /\ from = (IF op.in = "SOL" THEN "WSOL" ELSE "USDC")
        /\ to = (IF op.in = "SOL" THEN "USDC" ELSE "WSOL")
        /\ g = (IF op.in = "USDC" THEN op.amount * market ELSE op.amount \div market)
  OBVIOUS
<1> DEFINE runs == /\ s.wallet.has[from] >= n
                   /\ g >= Trade!MinimumOf(quoted, slip) /\ s.wallet.open
<1>4. /\ t \in States
      /\ ~runs => ~t.ok
      /\ runs => /\ t.ok = s.ok /\ t.wallet.open = s.wallet.open /\ t.pool = s.pool
                 /\ t.wallet.has["SOL"] = s.wallet.has["SOL"]
                 /\ t.wallet.has["token"] = s.wallet.has["token"]
                 /\ t.wallet.has[from] = s.wallet.has[from] - n
                 /\ t.wallet.has[to] = s.wallet.has[to] + g
  BY <1>1, <1>2, <1>3, RouteRuns
<1>5. from = "USDC" /\ to = "WSOL" /\ Bought(n) = g
  BY <1>1, <1>3 DEF Bought
<1>6. RunStep(s, op) = IF s.ok THEN t ELSE s
  BY <1>2 DEF RunStep
<1> QED BY <1>4, <1>5, <1>6 DEF op

LEMMA StepSellsSol ==
  ASSUME Priced, NEW s \in States, NEW n \in Nat, NEW quoted \in Nat, NEW slip \in 0..100
  PROVE  LET t == RunStep(s, Converts("SOL", "USDC", n, quoted, slip)) IN
         /\ t \in States
         /\ t.ok <=> /\ s.ok /\ s.wallet.open /\ s.wallet.has["WSOL"] >= n
                     /\ Sold(n) >= Trade!MinimumOf(quoted, slip)
         /\ t.ok => /\ t.wallet.open /\ t.pool = s.pool
                    /\ t.wallet.has["SOL"] = s.wallet.has["SOL"]
                    /\ t.wallet.has["token"] = s.wallet.has["token"]
                    /\ t.wallet.has["WSOL"] = s.wallet.has["WSOL"] - n
                    /\ t.wallet.has["USDC"] = s.wallet.has["USDC"] + Sold(n)
<1> DEFINE op == Converts("SOL", "USDC", n, quoted, slip)
<1>1. /\ op.op = "route" /\ op.in = "SOL" /\ op.out = "USDC" /\ op.amount = n
      /\ op.quoted = quoted /\ op.slip = slip /\ op.fee = 0 /\ op.to = "owner"
  BY DEF Converts
<1> HIDE DEF States, op
<1>2. PICK t : t = Trade!RunOp(s, op)
  OBVIOUS
<1>3. PICK from, to, g :
        /\ from = (IF op.in = "SOL" THEN "WSOL" ELSE "USDC")
        /\ to = (IF op.in = "SOL" THEN "USDC" ELSE "WSOL")
        /\ g = (IF op.in = "USDC" THEN op.amount * market ELSE op.amount \div market)
  OBVIOUS
<1> DEFINE runs == /\ s.wallet.has[from] >= n
                   /\ g >= Trade!MinimumOf(quoted, slip) /\ s.wallet.open
<1>4. /\ t \in States
      /\ ~runs => ~t.ok
      /\ runs => /\ t.ok = s.ok /\ t.wallet.open = s.wallet.open /\ t.pool = s.pool
                 /\ t.wallet.has["SOL"] = s.wallet.has["SOL"]
                 /\ t.wallet.has["token"] = s.wallet.has["token"]
                 /\ t.wallet.has[from] = s.wallet.has[from] - n
                 /\ t.wallet.has[to] = s.wallet.has[to] + g
  BY <1>1, <1>2, <1>3, RouteRuns
<1>5. from = "WSOL" /\ to = "USDC" /\ Sold(n) = g
  BY <1>1, <1>3 DEF Sold
<1>6. RunStep(s, op) = IF s.ok THEN t ELSE s
  BY <1>2 DEF RunStep
<1> QED BY <1>4, <1>5, <1>6 DEF op

(* The legs of a purchase and of a sale, direct and converted.             *)
Holds(s, sol, wsol, usdc, token) ==
  /\ s.wallet.has["SOL"] = sol /\ s.wallet.has["WSOL"] = wsol
  /\ s.wallet.has["USDC"] = usdc /\ s.wallet.has["token"] = token

(* What a swap takes, and where it puts what it gives.                     *)
IsSell(sell) == (IF sell THEN "token" ELSE "WSOL") = "token"

LEMMA PurseHas ==
  ASSUME NEW s \in States
  PROVE  /\ s.wallet.has["SOL"] \in Int /\ s.wallet.has["WSOL"] \in Int
         /\ s.wallet.has["USDC"] \in Int /\ s.wallet.has["token"] \in Int
         /\ s.ok \in BOOLEAN /\ s.wallet.open \in BOOLEAN
<1>1. \A a \in Purse : s.wallet.has[a] \in Int
  BY StatesHave
<1>2. s.ok \in BOOLEAN /\ s.wallet.open \in BOOLEAN
  BY StatesHave
<1> HIDE DEF States
<1> QED BY <1>1, <1>2 DEF Purse

BuysDirectly(s, t, venue, sell, n, min) ==
  LET spent == Trade!Consumed(n, sell)
      got == Trade!Output(n, sell)
      has == s.wallet.has
  IN /\ t \in States
     /\ t.ok <=> /\ s.ok /\ has["SOL"] >= n /\ venue = Trade!Venue /\ Trade!Fillable(n, sell)
                  /\ has["WSOL"] + n >= n /\ got >= min
     /\ t.ok => /\ Holds(t, has["SOL"] + has["WSOL"] - spent, 0, has["USDC"],
                          has["token"] + got)
                 /\ t.pool.rate = s.pool.rate /\ t.pool.migrated = s.pool.migrated
                 /\ t.pool.reserve = Filled(s.pool, spent, got, sell)

LEMMA DirectBuy ==
  ASSUME Priced, NEW s \in States, NEW venue, NEW sell \in BOOLEAN, ~sell,
         NEW n \in Nat, NEW min \in Nat,
         NEW s1, s1 = RunStep(s, Opens), NEW s2, s2 = RunStep(s1, Wraps(n)),
         NEW s3, s3 = RunStep(s2, Swaps(venue, sell, n, min)),
         NEW s4, s4 = RunStep(s3, Closes)
  PROVE  BuysDirectly(s, s4, venue, sell, n, min)
<1> HIDE DEF States
<1>1. /\ s1 \in States /\ s1.ok = s.ok
      /\ s.ok => s1.wallet.open /\ s1.wallet.has = s.wallet.has /\ s1.pool = s.pool
  BY StepOpens
<1>2. /\ s2 \in States
      /\ s2.ok <=> s1.ok /\ s1.wallet.open /\ s1.wallet.has["SOL"] >= n
      /\ s2.ok => /\ s2.wallet.open /\ s2.pool = s1.pool
                  /\ Holds(s2, s1.wallet.has["SOL"] - n, s1.wallet.has["WSOL"] + n,
                           s1.wallet.has["USDC"], s1.wallet.has["token"])
  BY <1>1, StepWraps DEF Holds
<1>3. PICK spent \in Int, got \in Int : spent = Trade!Consumed(n, sell) /\ got = Trade!Output(n, sell)
  <2>1. Trade!Consumed(n, sell) \in Int /\ Trade!Output(n, sell) \in Int
    BY Amounted
  <2> QED BY <2>1
<1>4. /\ s3 \in States
      /\ s3.ok <=> /\ s2.ok /\ s2.wallet.open /\ venue = Trade!Venue /\ Trade!Fillable(n, sell)
                   /\ s2.wallet.has["WSOL"] >= n /\ got >= min
      /\ s3.ok => /\ s3.wallet.open
                  /\ Holds(s3, s2.wallet.has["SOL"], s2.wallet.has["WSOL"] - spent,
                           s2.wallet.has["USDC"], s2.wallet.has["token"] + got)
                  /\ s3.pool.rate = s2.pool.rate /\ s3.pool.migrated = s2.pool.migrated
                  /\ s3.pool.reserve = Filled(s2.pool, spent, got, sell)
  BY <1>2, <1>3, StepSwaps DEF Holds
<1>5. /\ s4 \in States
      /\ s4.ok <=> s3.ok /\ s3.wallet.open
      /\ s4.ok => /\ s4.pool = s3.pool
                  /\ Holds(s4, s3.wallet.has["SOL"] + s3.wallet.has["WSOL"], 0,
                           s3.wallet.has["USDC"], s3.wallet.has["token"])
  BY <1>4, StepCloses DEF Holds
<1>6. /\ s4.ok <=> /\ s.ok /\ s.wallet.has["SOL"] >= n /\ venue = Trade!Venue /\ Trade!Fillable(n, sell)
                   /\ s.wallet.has["WSOL"] + n >= n /\ got >= min
  BY <1>1, <1>2, <1>4, <1>5 DEF Holds
<1>7. ASSUME s4.ok
      PROVE  /\ Holds(s4, s.wallet.has["SOL"] + s.wallet.has["WSOL"] - spent, 0,
                      s.wallet.has["USDC"], s.wallet.has["token"] + got)
             /\ s4.pool.rate = s.pool.rate /\ s4.pool.migrated = s.pool.migrated
             /\ s4.pool.reserve = Filled(s.pool, spent, got, sell)
  <2>1. s.ok /\ s1.ok /\ s2.ok /\ s3.ok
    BY <1>1, <1>2, <1>4, <1>5, <1>7
  <2>2. s1.wallet.has = s.wallet.has /\ s2.pool = s.pool
    BY <1>1, <1>2, <2>1
  <2> QED BY <1>2, <1>3, <1>4, <1>5, <1>7, <2>1, <2>2, PurseHas DEF Holds
<1> QED BY <1>3, <1>5, <1>6, <1>7 DEF BuysDirectly

SellsDirectly(s, t, venue, sell, n, min) ==
  LET spent == Trade!Consumed(n, sell)
      got == Trade!Output(n, sell)
      has == s.wallet.has
  IN /\ t \in States
     /\ t.ok <=> /\ s.ok /\ venue = Trade!Venue /\ Trade!Fillable(n, sell)
                  /\ has["token"] >= n /\ got >= min
     /\ t.ok => /\ Holds(t, has["SOL"] + has["WSOL"] + got, 0, has["USDC"],
                          has["token"] - spent)
                 /\ t.pool.rate = s.pool.rate /\ t.pool.migrated = s.pool.migrated
                 /\ t.pool.reserve = Filled(s.pool, spent, got, sell)

LEMMA DirectSell ==
  ASSUME Priced, NEW s \in States, NEW venue, NEW sell \in BOOLEAN, IsSell(sell),
         NEW n \in Nat, NEW min \in Nat,
         NEW s1, s1 = RunStep(s, Opens), NEW s2, s2 = RunStep(s1, Swaps(venue, sell, n, min)),
         NEW s3, s3 = RunStep(s2, Closes)
  PROVE  SellsDirectly(s, s3, venue, sell, n, min)
<1> HIDE DEF States
<1>1. /\ s1 \in States /\ s1.ok = s.ok
      /\ s.ok => s1.wallet.open /\ s1.wallet.has = s.wallet.has /\ s1.pool = s.pool
  BY StepOpens
<1>3. PICK spent \in Int, got \in Int : spent = Trade!Consumed(n, sell) /\ got = Trade!Output(n, sell)
  <2>1. Trade!Consumed(n, sell) \in Int /\ Trade!Output(n, sell) \in Int
    BY Amounted
  <2> QED BY <2>1
<1>4. /\ s2 \in States
      /\ s2.ok <=> /\ s1.ok /\ s1.wallet.open /\ venue = Trade!Venue /\ Trade!Fillable(n, sell)
                   /\ s1.wallet.has["token"] >= n /\ got >= min
      /\ s2.ok => /\ s2.wallet.open
                  /\ Holds(s2, s1.wallet.has["SOL"], s1.wallet.has["WSOL"] + got,
                           s1.wallet.has["USDC"], s1.wallet.has["token"] - spent)
                  /\ s2.pool.rate = s1.pool.rate /\ s2.pool.migrated = s1.pool.migrated
                  /\ s2.pool.reserve = Filled(s1.pool, spent, got, sell)
  <2>1. (IF sell THEN "token" ELSE "WSOL") = "token" /\ (IF sell THEN "WSOL" ELSE "token") = "WSOL"
    BY DEF IsSell
  <2> QED BY <1>1, <1>3, <2>1, StepSwaps DEF Holds
<1>5. /\ s3 \in States
      /\ s3.ok <=> s2.ok /\ s2.wallet.open
      /\ s3.ok => /\ s3.pool = s2.pool
                  /\ Holds(s3, s2.wallet.has["SOL"] + s2.wallet.has["WSOL"], 0,
                           s2.wallet.has["USDC"], s2.wallet.has["token"])
  BY <1>4, StepCloses DEF Holds
<1>6. /\ s3.ok <=> /\ s.ok /\ venue = Trade!Venue /\ Trade!Fillable(n, sell)
                   /\ s.wallet.has["token"] >= n /\ got >= min
  BY <1>1, <1>4, <1>5 DEF Holds
<1>7. ASSUME s3.ok
      PROVE  /\ Holds(s3, s.wallet.has["SOL"] + s.wallet.has["WSOL"] + got, 0,
                      s.wallet.has["USDC"], s.wallet.has["token"] - spent)
             /\ s3.pool.rate = s.pool.rate /\ s3.pool.migrated = s.pool.migrated
             /\ s3.pool.reserve = Filled(s.pool, spent, got, sell)
  <2>1. s.ok /\ s1.ok /\ s2.ok
    BY <1>1, <1>4, <1>5, <1>7
  <2>2. s1.wallet.has = s.wallet.has /\ s1.pool = s.pool
    BY <1>1, <2>1
  <2> QED BY <1>3, <1>4, <1>5, <1>7, <2>1, <2>2, PurseHas DEF Holds
<1> QED BY <1>3, <1>5, <1>6, <1>7 DEF SellsDirectly

(* A conversion gives what its slippage allows.                            *)
Reached(b, quoted, slip) == b >= Trade!MinimumOf(quoted, slip)

BuysSolFor(s, t, n, quoted, slip) ==
  /\ t \in States
  /\ t.ok <=> /\ s.ok /\ s.wallet.open /\ s.wallet.has["USDC"] >= n
              /\ Reached(Bought(n), quoted, slip)
  /\ t.ok => /\ t.wallet.open /\ t.pool = s.pool
             /\ Holds(t, s.wallet.has["SOL"], s.wallet.has["WSOL"] + Bought(n),
                      s.wallet.has["USDC"] - n, s.wallet.has["token"])

LEMMA BuysSol ==
  ASSUME Priced, NEW s \in States, NEW n \in Nat, NEW quoted \in Nat, NEW slip \in 0..100,
         NEW t, t = RunStep(s, Converts("USDC", "SOL", n, quoted, slip))
  PROVE  BuysSolFor(s, t, n, quoted, slip)
<1> HIDE DEF States
<1>1. t \in States
  BY StepBuysSol
<1>2. t.ok <=> /\ s.ok /\ s.wallet.open /\ s.wallet.has["USDC"] >= n
               /\ Reached(Bought(n), quoted, slip)
  BY StepBuysSol DEF Reached
<1>3. ASSUME t.ok
      PROVE  /\ t.wallet.open /\ t.pool = s.pool
             /\ Holds(t, s.wallet.has["SOL"], s.wallet.has["WSOL"] + Bought(n),
                             s.wallet.has["USDC"] - n, s.wallet.has["token"])
  <2>1. t.wallet.open /\ t.pool = s.pool
    BY <1>3, StepBuysSol
  <2>2. t.wallet.has["SOL"] = s.wallet.has["SOL"]
    BY <1>3, StepBuysSol, ZenonT(30)
  <2>3. t.wallet.has["token"] = s.wallet.has["token"]
    BY <1>3, StepBuysSol, ZenonT(30)
  <2>4. t.wallet.has["USDC"] = s.wallet.has["USDC"] - n
    BY <1>3, StepBuysSol
  <2>5. t.wallet.has["WSOL"] = s.wallet.has["WSOL"] + Bought(n)
    BY <1>3, StepBuysSol
  <2> QED BY <2>1, <2>2, <2>3, <2>4, <2>5 DEF Holds
<1> QED BY <1>1, <1>2, <1>3 DEF BuysSolFor

SellsSolFor(s, t, n, quoted, slip) ==
  /\ t \in States
  /\ t.ok <=> /\ s.ok /\ s.wallet.open /\ s.wallet.has["WSOL"] >= n
              /\ Reached(Sold(n), quoted, slip)
  /\ t.ok => /\ t.wallet.open /\ t.pool = s.pool
             /\ Holds(t, s.wallet.has["SOL"], s.wallet.has["WSOL"] - n,
                      s.wallet.has["USDC"] + Sold(n), s.wallet.has["token"])

LEMMA SellsSol ==
  ASSUME Priced, NEW s \in States, NEW n \in Nat, NEW quoted \in Nat, NEW slip \in 0..100,
         NEW t, t = RunStep(s, Converts("SOL", "USDC", n, quoted, slip))
  PROVE  SellsSolFor(s, t, n, quoted, slip)
<1> HIDE DEF States
<1>1. t \in States
  BY StepSellsSol
<1>2. t.ok <=> /\ s.ok /\ s.wallet.open /\ s.wallet.has["WSOL"] >= n
               /\ Reached(Sold(n), quoted, slip)
  BY StepSellsSol DEF Reached
<1>3. ASSUME t.ok
      PROVE  /\ t.wallet.open /\ t.pool = s.pool
             /\ Holds(t, s.wallet.has["SOL"], s.wallet.has["WSOL"] - n,
                             s.wallet.has["USDC"] + Sold(n), s.wallet.has["token"])
  <2>1. t.wallet.open /\ t.pool = s.pool
    BY <1>3, StepSellsSol
  <2>2. t.wallet.has["SOL"] = s.wallet.has["SOL"]
    BY <1>3, StepSellsSol, ZenonT(30)
  <2>3. t.wallet.has["token"] = s.wallet.has["token"]
    BY <1>3, StepSellsSol, ZenonT(30)
  <2>4. t.wallet.has["WSOL"] = s.wallet.has["WSOL"] - n
    BY <1>3, StepSellsSol
  <2>5. t.wallet.has["USDC"] = s.wallet.has["USDC"] + Sold(n)
    BY <1>3, StepSellsSol
  <2> QED BY <2>1, <2>2, <2>3, <2>4, <2>5 DEF Holds
<1> QED BY <1>1, <1>2, <1>3 DEF SellsSolFor

BuysConverted(s, t, venue, sell, n, quoted, slip, m, min) ==
  LET bought == Bought(n)
      spent == Trade!Consumed(m, sell)
      got == Trade!Output(m, sell)
      has == s.wallet.has
  IN /\ t \in States
     /\ t.ok <=> /\ s.ok /\ s.wallet.open /\ has["USDC"] >= n
                  /\ Reached(bought, quoted, slip)
                  /\ venue = Trade!Venue /\ Trade!Fillable(m, sell)
                  /\ has["WSOL"] + bought >= m /\ got >= min
     /\ t.ok => /\ Holds(t, has["SOL"] + has["WSOL"] + bought - spent, 0,
                          has["USDC"] - n, has["token"] + got)
                 /\ t.pool.rate = s.pool.rate /\ t.pool.migrated = s.pool.migrated
                 /\ t.pool.reserve = Filled(s.pool, spent, got, sell)

LEMMA RoutedBuy ==
  ASSUME Priced, NEW s \in States, NEW venue, NEW sell \in BOOLEAN, ~sell,
         NEW n \in Nat, NEW quoted \in Nat, NEW slip \in 0..100, NEW m \in Nat, NEW min \in Nat,
         NEW s1, s1 = RunStep(s, Converts("USDC", "SOL", n, quoted, slip)),
         NEW s2, s2 = RunStep(s1, Opens),
         NEW s3, s3 = RunStep(s2, Swaps(venue, sell, m, min)),
         NEW s4, s4 = RunStep(s3, Closes)
  PROVE  BuysConverted(s, s4, venue, sell, n, quoted, slip, m, min)
<1> HIDE DEF States
<1>1. Bought(n) \in Int
  BY MarketGives
<1>2. /\ s1 \in States
      /\ s1.ok <=> /\ s.ok /\ s.wallet.open /\ s.wallet.has["USDC"] >= n
                   /\ Reached(Bought(n), quoted, slip)
      /\ s1.ok => /\ s1.wallet.open /\ s1.pool = s.pool
                  /\ Holds(s1, s.wallet.has["SOL"], s.wallet.has["WSOL"] + Bought(n),
                           s.wallet.has["USDC"] - n, s.wallet.has["token"])
  <2>1. BuysSolFor(s, s1, n, quoted, slip)
    BY BuysSol
  <2> QED BY <2>1 DEF BuysSolFor
<1>3. /\ s2 \in States /\ s2.ok = s1.ok
      /\ s1.ok => s2.wallet.open /\ s2.wallet.has = s1.wallet.has /\ s2.pool = s1.pool
  BY <1>2, StepOpens
<1>4. PICK spent \in Int, got \in Int : spent = Trade!Consumed(m, sell) /\ got = Trade!Output(m, sell)
  <2>1. Trade!Consumed(m, sell) \in Int /\ Trade!Output(m, sell) \in Int
    BY Amounted
  <2> QED BY <2>1
<1>5. /\ s3 \in States
      /\ s3.ok <=> /\ s2.ok /\ s2.wallet.open /\ venue = Trade!Venue /\ Trade!Fillable(m, sell)
                   /\ s2.wallet.has["WSOL"] >= m /\ got >= min
      /\ s3.ok => /\ s3.wallet.open
                  /\ Holds(s3, s2.wallet.has["SOL"], s2.wallet.has["WSOL"] - spent,
                           s2.wallet.has["USDC"], s2.wallet.has["token"] + got)
                  /\ s3.pool.rate = s2.pool.rate /\ s3.pool.migrated = s2.pool.migrated
                  /\ s3.pool.reserve = Filled(s2.pool, spent, got, sell)
  BY <1>3, <1>4, StepSwaps DEF Holds
<1>6. /\ s4 \in States
      /\ s4.ok <=> s3.ok /\ s3.wallet.open
      /\ s4.ok => /\ s4.pool = s3.pool
                  /\ Holds(s4, s3.wallet.has["SOL"] + s3.wallet.has["WSOL"], 0,
                           s3.wallet.has["USDC"], s3.wallet.has["token"])
  BY <1>5, StepCloses DEF Holds
<1>7. /\ s4.ok <=> /\ s.ok /\ s.wallet.open /\ s.wallet.has["USDC"] >= n
                   /\ Reached(Bought(n), quoted, slip)
                   /\ venue = Trade!Venue /\ Trade!Fillable(m, sell)
                   /\ s.wallet.has["WSOL"] + Bought(n) >= m /\ got >= min
  BY <1>2, <1>3, <1>5, <1>6 DEF Holds
<1>8. ASSUME s4.ok
      PROVE  /\ Holds(s4, s.wallet.has["SOL"] + s.wallet.has["WSOL"] + Bought(n) - spent, 0,
                      s.wallet.has["USDC"] - n, s.wallet.has["token"] + got)
             /\ s4.pool.rate = s.pool.rate /\ s4.pool.migrated = s.pool.migrated
             /\ s4.pool.reserve = Filled(s.pool, spent, got, sell)
  <2>1. s.ok /\ s1.ok /\ s2.ok /\ s3.ok
    BY <1>2, <1>3, <1>5, <1>6, <1>8
  <2>2. s2.wallet.has = s1.wallet.has /\ s2.pool = s.pool
    BY <1>2, <1>3, <2>1
  <2> QED BY <1>1, <1>2, <1>4, <1>5, <1>6, <1>8, <2>1, <2>2, PurseHas DEF Holds
<1> QED BY <1>1, <1>4, <1>6, <1>7, <1>8 DEF BuysConverted

SellsConverted(s, t, venue, sell, n, min, m, quoted, slip) ==
  LET bought == Sold(m)
      spent == Trade!Consumed(n, sell)
      got == Trade!Output(n, sell)
      has == s.wallet.has
  IN /\ t \in States
     /\ t.ok <=> /\ s.ok /\ venue = Trade!Venue /\ Trade!Fillable(n, sell)
                  /\ has["token"] >= n /\ got >= min
                  /\ has["WSOL"] + got >= m
                  /\ Reached(bought, quoted, slip)
     /\ t.ok => /\ Holds(t, has["SOL"] + has["WSOL"] + got - m, 0,
                          has["USDC"] + bought, has["token"] - spent)
                 /\ t.pool.rate = s.pool.rate /\ t.pool.migrated = s.pool.migrated
                 /\ t.pool.reserve = Filled(s.pool, spent, got, sell)

LEMMA RoutedSell ==
  ASSUME Priced, NEW s \in States, NEW venue, NEW sell \in BOOLEAN, IsSell(sell),
         NEW n \in Nat, NEW min \in Nat, NEW m \in Nat, NEW quoted \in Nat, NEW slip \in 0..100,
         NEW s1, s1 = RunStep(s, Opens),
         NEW s2, s2 = RunStep(s1, Swaps(venue, sell, n, min)),
         NEW s3, s3 = RunStep(s2, Converts("SOL", "USDC", m, quoted, slip)),
         NEW s4, s4 = RunStep(s3, Closes)
  PROVE  SellsConverted(s, s4, venue, sell, n, min, m, quoted, slip)
<1> HIDE DEF States
<1>1. /\ s1 \in States /\ s1.ok = s.ok
      /\ s.ok => s1.wallet.open /\ s1.wallet.has = s.wallet.has /\ s1.pool = s.pool
  BY StepOpens
<1>2. PICK spent \in Int, got \in Int : spent = Trade!Consumed(n, sell) /\ got = Trade!Output(n, sell)
  <2>1. Trade!Consumed(n, sell) \in Int /\ Trade!Output(n, sell) \in Int
    BY Amounted
  <2> QED BY <2>1
<1>3. /\ s2 \in States
      /\ s2.ok <=> /\ s1.ok /\ s1.wallet.open /\ venue = Trade!Venue /\ Trade!Fillable(n, sell)
                   /\ s1.wallet.has["token"] >= n /\ got >= min
      /\ s2.ok => /\ s2.wallet.open
                  /\ Holds(s2, s1.wallet.has["SOL"], s1.wallet.has["WSOL"] + got,
                           s1.wallet.has["USDC"], s1.wallet.has["token"] - spent)
                  /\ s2.pool.rate = s1.pool.rate /\ s2.pool.migrated = s1.pool.migrated
                  /\ s2.pool.reserve = Filled(s1.pool, spent, got, sell)
  <2>1. (IF sell THEN "token" ELSE "WSOL") = "token" /\ (IF sell THEN "WSOL" ELSE "token") = "WSOL"
    BY DEF IsSell
  <2> QED BY <1>1, <1>2, <2>1, StepSwaps DEF Holds
<1>4. Sold(m) \in Int
  BY MarketGives
<1>5. /\ s3 \in States
      /\ s3.ok <=> /\ s2.ok /\ s2.wallet.open /\ s2.wallet.has["WSOL"] >= m
                   /\ Reached(Sold(m), quoted, slip)
      /\ s3.ok => /\ s3.wallet.open /\ s3.pool = s2.pool
                  /\ Holds(s3, s2.wallet.has["SOL"], s2.wallet.has["WSOL"] - m,
                           s2.wallet.has["USDC"] + Sold(m), s2.wallet.has["token"])
  <2>1. SellsSolFor(s2, s3, m, quoted, slip)
    BY <1>3, SellsSol
  <2> QED BY <2>1 DEF SellsSolFor
<1>6. /\ s4 \in States
      /\ s4.ok <=> s3.ok /\ s3.wallet.open
      /\ s4.ok => /\ s4.pool = s3.pool
                  /\ Holds(s4, s3.wallet.has["SOL"] + s3.wallet.has["WSOL"], 0,
                           s3.wallet.has["USDC"], s3.wallet.has["token"])
  BY <1>5, StepCloses DEF Holds
<1>7. /\ s4.ok <=> /\ s.ok /\ venue = Trade!Venue /\ Trade!Fillable(n, sell)
                   /\ s.wallet.has["token"] >= n /\ got >= min
                   /\ s.wallet.has["WSOL"] + got >= m /\ Reached(Sold(m), quoted, slip)
  BY <1>1, <1>3, <1>5, <1>6 DEF Holds
<1>8. ASSUME s4.ok
      PROVE  /\ Holds(s4, s.wallet.has["SOL"] + s.wallet.has["WSOL"] + got - m, 0,
                      s.wallet.has["USDC"] + Sold(m), s.wallet.has["token"] - spent)
             /\ s4.pool.rate = s.pool.rate /\ s4.pool.migrated = s.pool.migrated
             /\ s4.pool.reserve = Filled(s.pool, spent, got, sell)
  <2>1. s.ok /\ s1.ok /\ s2.ok /\ s3.ok
    BY <1>1, <1>3, <1>5, <1>6, <1>8
  <2>2. s1.wallet.has = s.wallet.has /\ s1.pool = s.pool
    BY <1>1, <2>1
  <2> QED BY <1>2, <1>3, <1>4, <1>5, <1>6, <1>8, <2>1, <2>2, PurseHas DEF Holds
<1> QED BY <1>2, <1>4, <1>6, <1>7, <1>8 DEF SellsConverted

(* The states of a transaction of three, four and five instructions.       *)
ThreeSteps(tx) ==
  \E s1, s2, s3 :
    /\ s1 = RunStep(Begun, tx[1]) /\ s2 = RunStep(s1, tx[2]) /\ s3 = RunStep(s2, tx[3])
    /\ Trade!Result(tx) = s3

LEMMA ResultOfThree ==
  ASSUME NEW E, \A op \in E : IsOp(op), Priced, walletT \in Wallet, NEW tx \in Seq(E), Len(tx) = 3
  PROVE  ThreeSteps(tx)
<1>1. PICK d \in [0..Len(tx) -> States] : Runs(tx, d) /\ d[Len(tx)] = Trade!Result(tx)
  BY ResultSteps
<1>2. d[0] = Begun /\ \A i \in 1..3 : d[i] = RunStep(d[i - 1], tx[i])
  BY <1>1 DEF Runs
<1>3. d[1] = RunStep(d[0], tx[1]) /\ d[2] = RunStep(d[1], tx[2]) /\ d[3] = RunStep(d[2], tx[3])
  BY <1>2
<1>4. Trade!Result(tx) = d[3]
  BY <1>1
<1> QED BY <1>2, <1>3, <1>4 DEF ThreeSteps

FourSteps(tx) ==
  \E s1, s2, s3, s4 :
    /\ s1 = RunStep(Begun, tx[1]) /\ s2 = RunStep(s1, tx[2]) /\ s3 = RunStep(s2, tx[3])
    /\ s4 = RunStep(s3, tx[4]) /\ Trade!Result(tx) = s4

LEMMA ResultOfFour ==
  ASSUME NEW E, \A op \in E : IsOp(op), Priced, walletT \in Wallet, NEW tx \in Seq(E), Len(tx) = 4
  PROVE  FourSteps(tx)
<1>1. PICK d \in [0..Len(tx) -> States] : Runs(tx, d) /\ d[Len(tx)] = Trade!Result(tx)
  BY ResultSteps
<1>2. d[0] = Begun /\ \A i \in 1..4 : d[i] = RunStep(d[i - 1], tx[i])
  BY <1>1 DEF Runs
<1>3. /\ d[1] = RunStep(d[0], tx[1]) /\ d[2] = RunStep(d[1], tx[2]) /\ d[3] = RunStep(d[2], tx[3])
      /\ d[4] = RunStep(d[3], tx[4])
  BY <1>2
<1>4. Trade!Result(tx) = d[4]
  BY <1>1
<1> QED BY <1>2, <1>3, <1>4 DEF FourSteps

FiveSteps(tx) ==
  \E s1, s2, s3, s4, s5 :
    /\ s1 = RunStep(Begun, tx[1]) /\ s2 = RunStep(s1, tx[2]) /\ s3 = RunStep(s2, tx[3])
    /\ s4 = RunStep(s3, tx[4]) /\ s5 = RunStep(s4, tx[5]) /\ Trade!Result(tx) = s5

LEMMA ResultOfFive ==
  ASSUME NEW E, \A op \in E : IsOp(op), Priced, walletT \in Wallet, NEW tx \in Seq(E), Len(tx) = 5
  PROVE  FiveSteps(tx)
<1>1. PICK d \in [0..Len(tx) -> States] : Runs(tx, d) /\ d[Len(tx)] = Trade!Result(tx)
  BY ResultSteps
<1>2. d[0] = Begun /\ \A i \in 1..5 : d[i] = RunStep(d[i - 1], tx[i])
  BY <1>1 DEF Runs
<1>3. /\ d[1] = RunStep(d[0], tx[1]) /\ d[2] = RunStep(d[1], tx[2]) /\ d[3] = RunStep(d[2], tx[3])
      /\ d[4] = RunStep(d[3], tx[4]) /\ d[5] = RunStep(d[4], tx[5])
  BY <1>2
<1>4. Trade!Result(tx) = d[5]
  BY <1>1
<1> QED BY <1>2, <1>3, <1>4 DEF FiveSteps

(* A state that has what the chain has.                                    *)
Starts(s) == s \in States /\ s.ok /\ s.wallet.has = walletT.has /\ s.pool = pool

LEMMA BegunStarts ==
  ASSUME Priced, walletT \in Wallet
  PROVE  /\ Starts(Begun) /\ Begun.wallet = walletT
         /\ Starts(RunStep(Begun, Opens)) /\ RunStep(Begun, Opens).wallet.open
<1>1. Begun \in States /\ Begun.ok /\ Begun.wallet = walletT /\ Begun.pool = pool
  BY BegunTyped
<1> HIDE DEF States
<1>2. PICK t : t = RunStep(Begun, Opens)
  OBVIOUS
<1>3. PICK s : s = Begun
  OBVIOUS
<1>4. t \in States /\ t.ok = s.ok /\ (s.ok => t.wallet.open /\ t.wallet.has = s.wallet.has /\ t.pool = s.pool)
  BY <1>1, <1>2, <1>3, StepOpens
<1>5. Starts(s) /\ s.wallet = walletT
  BY <1>1, <1>3 DEF Starts
<1>6. Starts(t) /\ t.wallet.open
  BY <1>1, <1>3, <1>4 DEF Starts
<1> QED BY <1>2, <1>3, <1>5, <1>6

(* The instructions of a trade are what RunOp knows.                       *)
LEMMA OpsAreOps ==
  /\ IsOp(Opens) /\ IsOp(Closes)
  /\ \A n \in Nat : IsOp(Wraps(n))
  /\ \A venue, sell, n, min : sell \in BOOLEAN /\ n \in Nat /\ min \in Nat => IsOp(Swaps(venue, sell, n, min))
  /\ \A n, quoted, slip : n \in Nat /\ quoted \in Nat /\ slip \in 0..100 =>
       IsOp(Converts("USDC", "SOL", n, quoted, slip)) /\ IsOp(Converts("SOL", "USDC", n, quoted, slip))
<1>1. \A o \in {"open", "wrap", "close"}, n \in Int : IsOp(Trade!Op(o, n))
  BY DEF IsOp
<1>2. IsOp(Opens) /\ IsOp(Closes)
  BY <1>1 DEF Opens, Closes
<1>3. \A n \in Nat : IsOp(Wraps(n))
  BY <1>1 DEF Wraps
<1>4. ASSUME NEW venue, NEW sell \in BOOLEAN, NEW n \in Nat, NEW min \in Nat
      PROVE  IsOp(Swaps(venue, sell, n, min))
  <2>1. PICK op : op = Swaps(venue, sell, n, min)
    OBVIOUS
  <2>2. op.op = "pool" /\ op.sell \in BOOLEAN /\ op.amount \in Nat /\ op.min \in Nat
    BY <2>1 DEF Swaps
  <2>3. IsOp(op)
    BY <2>2 DEF IsOp
  <2> QED BY <2>1, <2>3
<1>5. ASSUME NEW n \in Nat, NEW quoted \in Nat, NEW slip \in 0..100
      PROVE  IsOp(Converts("USDC", "SOL", n, quoted, slip))
             /\ IsOp(Converts("SOL", "USDC", n, quoted, slip))
  <2>1. PICK op : op = Converts("USDC", "SOL", n, quoted, slip)
    OBVIOUS
  <2>2. /\ op.op = "route" /\ op.in = "USDC" /\ op.out = "SOL" /\ op.amount \in Nat
        /\ op.quoted \in Nat /\ op.slip \in 0..100 /\ op.fee = 0 /\ op.to = "owner"
    BY <2>1 DEF Converts
  <2>3. IsOp(op)
    BY <2>2 DEF IsOp
  <2>4. PICK p : p = Converts("SOL", "USDC", n, quoted, slip)
    OBVIOUS
  <2>5. /\ p.op = "route" /\ p.in = "SOL" /\ p.out = "USDC" /\ p.amount \in Nat
        /\ p.quoted \in Nat /\ p.slip \in 0..100 /\ p.fee = 0 /\ p.to = "owner"
    BY <2>4 DEF Converts
  <2>6. IsOp(p)
    BY <2>5 DEF IsOp
  <2> QED BY <2>1, <2>3, <2>4, <2>6
<1> QED BY <1>2, <1>3, <1>4, <1>5

(* What a direct purchase comes to.                                        *)
LEMMA DirectBuyResult ==
  ASSUME Priced, walletT \in Wallet, NEW venue, NEW sell \in BOOLEAN, ~sell,
         NEW n \in Nat, NEW min \in Nat, NEW tx,
         tx = <<Opens, Wraps(n), Swaps(venue, sell, n, min), Closes>>
  PROVE  BuysDirectly(Begun, Trade!Result(tx), venue, sell, n, min)
<1> DEFINE x == Swaps(venue, sell, n, min)
           E == {Opens, Wraps(n), x, Closes}
<1>1. \A op \in E : IsOp(op)
  BY OpsAreOps
<1> HIDE DEF x
<1>2. /\ tx \in Seq(E) /\ Len(tx) = 4
      /\ tx[1] = Opens /\ tx[2] = Wraps(n) /\ tx[3] = x /\ tx[4] = Closes
  BY DEF x
<1> HIDE DEF E
<1>3. PICK s1, s2, s3, s4 :
        /\ s1 = RunStep(Begun, tx[1]) /\ s2 = RunStep(s1, tx[2]) /\ s3 = RunStep(s2, tx[3])
        /\ s4 = RunStep(s3, tx[4]) /\ Trade!Result(tx) = s4
  <2>1. FourSteps(tx)
    BY <1>1, <1>2, ResultOfFour
  <2> QED BY <2>1 DEF FourSteps
<1>4. Begun \in States
  BY BegunTyped
<1>5. PICK s \in States : s = Begun
  BY <1>4
<1>6. /\ s1 = RunStep(s, Opens) /\ s2 = RunStep(s1, Wraps(n))
      /\ s3 = RunStep(s2, Swaps(venue, sell, n, min)) /\ s4 = RunStep(s3, Closes)
  BY <1>2, <1>3, <1>5 DEF x
<1> HIDE DEF States
<1>7. BuysDirectly(s, s4, venue, sell, n, min)
  BY <1>6, DirectBuy
<1> QED BY <1>3, <1>5, <1>7

LEMMA DirectSellResult ==
  ASSUME Priced, walletT \in Wallet, NEW venue, NEW sell \in BOOLEAN, IsSell(sell),
         NEW n \in Nat, NEW min \in Nat, NEW tx,
         tx = <<Opens, Swaps(venue, sell, n, min), Closes>>
  PROVE  SellsDirectly(Begun, Trade!Result(tx), venue, sell, n, min)
<1> DEFINE x == Swaps(venue, sell, n, min)
           E == {Opens, x, Closes}
<1>1. \A op \in E : IsOp(op)
  BY OpsAreOps
<1> HIDE DEF x
<1>2. tx \in Seq(E) /\ Len(tx) = 3 /\ tx[1] = Opens /\ tx[2] = x /\ tx[3] = Closes
  BY DEF x
<1> HIDE DEF E
<1>3. PICK s1, s2, s3 :
        /\ s1 = RunStep(Begun, tx[1]) /\ s2 = RunStep(s1, tx[2]) /\ s3 = RunStep(s2, tx[3])
        /\ Trade!Result(tx) = s3
  <2>1. ThreeSteps(tx)
    BY <1>1, <1>2, ResultOfThree
  <2> QED BY <2>1 DEF ThreeSteps
<1>4. Begun \in States
  BY BegunTyped
<1>5. PICK s \in States : s = Begun
  BY <1>4
<1>6. /\ s1 = RunStep(s, Opens) /\ s2 = RunStep(s1, Swaps(venue, sell, n, min))
      /\ s3 = RunStep(s2, Closes)
  BY <1>2, <1>3, <1>5 DEF x
<1> HIDE DEF States
<1>7. SellsDirectly(s, s3, venue, sell, n, min)
  BY <1>6, DirectSell
<1> QED BY <1>3, <1>5, <1>7

(* What a concatenation of short sequences is.                             *)
IsJoin(E, x, y, z) ==
  /\ z \in Seq(E) /\ Len(z) = Len(x) + Len(y)
  /\ \A i \in 1..Len(x) : z[i] = x[i]
  /\ \A i \in 1..Len(y) : z[Len(x) + i] = y[i]
IsOne(E, z, a) == z \in Seq(E) /\ Len(z) = 1 /\ z[1] = a
IsTwo(E, z, a, b) == z \in Seq(E) /\ Len(z) = 2 /\ z[1] = a /\ z[2] = b
IsThree(E, z, a, b, c) == z \in Seq(E) /\ Len(z) = 3 /\ z[1] = a /\ z[2] = b /\ z[3] = c
IsFour(E, z, a, b, c, d) ==
  z \in Seq(E) /\ Len(z) = 4 /\ z[1] = a /\ z[2] = b /\ z[3] = c /\ z[4] = d
IsFive(E, z, o, a, b, c, d) ==
  z \in Seq(E) /\ Len(z) = 5 /\ z[1] = o /\ z[2] = a /\ z[3] = b /\ z[4] = c /\ z[5] = d

LEMMA Joins ==
  ASSUME NEW E, NEW x \in Seq(E), NEW y \in Seq(E)
  PROVE  IsJoin(E, x, y, x \o y)
<1>0. PICK z : z = x \o y
  OBVIOUS
<1>1. /\ z \in Seq(E) /\ Len(z) = Len(x) + Len(y)
      /\ \A i \in 1..(Len(x) + Len(y)) : z[i] = IF i <= Len(x) THEN x[i] ELSE y[i - Len(x)]
  BY <1>0, ConcatProperties
<1>2. Len(x) \in Nat /\ Len(y) \in Nat
  OBVIOUS
<1>3. ASSUME NEW i \in 1..Len(x) PROVE z[i] = x[i]
  <2>1. i \in 1..(Len(x) + Len(y)) /\ i <= Len(x)
    BY <1>2
  <2> QED BY <1>1, <2>1
<1>4. ASSUME NEW i \in 1..Len(y) PROVE z[Len(x) + i] = y[i]
  <2>1. Len(x) + i \in 1..(Len(x) + Len(y)) /\ ~(Len(x) + i <= Len(x)) /\ (Len(x) + i) - Len(x) = i
    BY <1>2
  <2> QED BY <1>1, <2>1
<1>5. IsJoin(E, x, y, z)
  BY <1>1, <1>3, <1>4 DEF IsJoin
<1> QED BY <1>0, <1>5

LEMMA OneAndTwo ==
  ASSUME NEW E, NEW a \in E, NEW b \in E
  PROVE  IsOne(E, <<a>>, a) /\ IsTwo(E, <<a, b>>, a, b)
BY DEF IsOne, IsTwo

LEMMA OneThenTwo ==
  ASSUME NEW E, NEW x, NEW y, NEW z, NEW a, NEW b, NEW c,
         IsOne(E, x, a), IsTwo(E, y, b, c), IsJoin(E, x, y, z)
  PROVE  IsThree(E, z, a, b, c)
<1>1. z \in Seq(E) /\ Len(z) = 3 /\ z[1] = x[1] /\ z[1 + 1] = y[1] /\ z[1 + 2] = y[2]
  BY DEF IsJoin, IsOne, IsTwo
<1> QED BY <1>1 DEF IsOne, IsTwo, IsThree

LEMMA TwoThenOne ==
  ASSUME NEW E, NEW x, NEW y, NEW z, NEW a, NEW b, NEW c,
         IsTwo(E, x, a, b), IsOne(E, y, c), IsJoin(E, x, y, z)
  PROVE  IsThree(E, z, a, b, c)
<1>1. z \in Seq(E) /\ Len(z) = 3 /\ z[1] = x[1] /\ z[2] = x[2] /\ z[2 + 1] = y[1]
  BY DEF IsJoin, IsOne, IsTwo
<1> QED BY <1>1 DEF IsOne, IsTwo, IsThree

LEMMA ThreeThenOne ==
  ASSUME NEW E, NEW x, NEW y, NEW z, NEW a, NEW b, NEW c, NEW d,
         IsThree(E, x, a, b, c), IsOne(E, y, d), IsJoin(E, x, y, z)
  PROVE  IsFour(E, z, a, b, c, d)
<1>1. /\ z \in Seq(E) /\ Len(z) = 4
      /\ z[1] = x[1] /\ z[2] = x[2] /\ z[3] = x[3] /\ z[3 + 1] = y[1]
  BY DEF IsJoin, IsOne, IsThree
<1> QED BY <1>1 DEF IsOne, IsThree, IsFour

LEMMA OneThenThree ==
  ASSUME NEW E, NEW x, NEW y, NEW z, NEW a, NEW b, NEW c, NEW d,
         IsOne(E, x, a), IsThree(E, y, b, c, d), IsJoin(E, x, y, z)
  PROVE  IsFour(E, z, a, b, c, d)
<1>1. /\ z \in Seq(E) /\ Len(z) = 4
      /\ z[1] = x[1] /\ z[1 + 1] = y[1] /\ z[1 + 2] = y[2] /\ z[1 + 3] = y[3]
  BY DEF IsJoin, IsOne, IsThree
<1> QED BY <1>1 DEF IsOne, IsThree, IsFour

LEMMA FourThenOne ==
  ASSUME NEW E, NEW x, NEW y, NEW z, NEW o, NEW a, NEW b, NEW c, NEW d,
         IsFour(E, x, o, a, b, c), IsOne(E, y, d), IsJoin(E, x, y, z)
  PROVE  IsFive(E, z, o, a, b, c, d)
<1>1. /\ z \in Seq(E) /\ Len(z) = 5
      /\ z[1] = x[1] /\ z[2] = x[2] /\ z[3] = x[3] /\ z[4] = x[4] /\ z[4 + 1] = y[1]
  BY DEF IsJoin, IsOne, IsFour
<1> QED BY <1>1 DEF IsOne, IsFour, IsFive

(* The legs of a conversion between what comes before and after them.      *)
LEMMA LegsJoin ==
  ASSUME NEW E, NEW a \in E, NEW b \in E, NEW c \in E
  PROVE  IsThree(E, <<a>> \o <<b, c>>, a, b, c) /\ IsThree(E, <<b, c>> \o <<a>>, b, c, a)
<1>1. PICK x, y : x = <<a>> /\ y = <<b, c>>
  OBVIOUS
<1>2. IsOne(E, x, a) /\ IsTwo(E, y, b, c)
  BY <1>1, OneAndTwo
<1>3. x \in Seq(E) /\ y \in Seq(E)
  BY <1>2 DEF IsOne, IsTwo
<1>4. IsJoin(E, x, y, x \o y) /\ IsJoin(E, y, x, y \o x)
  BY <1>3, Joins
<1>5. IsThree(E, x \o y, a, b, c)
  BY <1>2, <1>4, OneThenTwo
<1>6. IsThree(E, y \o x, b, c, a)
  BY <1>2, <1>4, TwoThenOne
<1> QED BY <1>1, <1>5, <1>6

LEMMA LegsAlone ==
  ASSUME NEW E, NEW x, NEW a, NEW b, NEW c, IsThree(E, x, a, b, c), NEW d \in E
  PROVE  IsFour(E, (<<>> \o x) \o <<d>>, a, b, c, d)
<1>1. x \in Seq(E)
  BY DEF IsThree
<1>2. <<>> \o x = x
  BY <1>1, ConcatEmptySeq
<1>3. PICK z : z = <<d>>
  OBVIOUS
<1>4. IsOne(E, z, d)
  BY <1>3, OneAndTwo
<1>5. z \in Seq(E)
  BY <1>4 DEF IsOne
<1>6. IsJoin(E, x, z, x \o z)
  BY <1>1, <1>5, Joins
<1>7. IsFour(E, x \o z, a, b, c, d)
  BY <1>4, <1>6, ThreeThenOne
<1> QED BY <1>2, <1>3, <1>7

LEMMA LegsAfter ==
  ASSUME NEW E, NEW x, NEW a, NEW b, NEW c, IsThree(E, x, a, b, c), NEW d \in E, NEW o \in E
  PROVE  IsFive(E, (<<o>> \o x) \o <<d>>, o, a, b, c, d)
<1>1. x \in Seq(E)
  BY DEF IsThree
<1>2. PICK z, y : z = <<d>> /\ y = <<o>>
  OBVIOUS
<1>3. IsOne(E, z, d) /\ IsOne(E, y, o)
  BY <1>2, OneAndTwo
<1>4. z \in Seq(E) /\ y \in Seq(E)
  BY <1>3 DEF IsOne
<1>5. PICK w : w = y \o x
  OBVIOUS
<1>6. IsJoin(E, y, x, w)
  BY <1>1, <1>4, <1>5, Joins
<1>7. IsFour(E, w, o, a, b, c)
  BY <1>3, <1>6, OneThenThree
<1>8. w \in Seq(E)
  BY <1>7 DEF IsFour
<1>9. IsJoin(E, w, z, w \o z)
  BY <1>4, <1>8, Joins
<1>10. IsFive(E, w \o z, o, a, b, c, d)
  BY <1>3, <1>7, <1>9, FourThenOne
<1> QED BY <1>2, <1>5, <1>10

(* The transaction of a converted trade, and what its result comes from.   *)
BuyTx(tx, setup, route, swap) == tx = (setup \o (<<route>> \o <<Opens, swap>>)) \o <<Closes>>
SellTx(tx, setup, swap, route) == tx = (setup \o (<<Opens, swap>> \o <<route>>)) \o <<Closes>>
BuysFrom(setup, t, venue, sell, n, quoted, slip, m, min) ==
  \E s : /\ Starts(s) /\ (setup = <<Opens>> => s.wallet.open)
         /\ BuysConverted(s, t, venue, sell, n, quoted, slip, m, min)
SellsFrom(t, venue, sell, n, min, m, quoted, slip) ==
  \E s : Starts(s) /\ SellsConverted(s, t, venue, sell, n, min, m, quoted, slip)

LEMMA RoutedBuyResult ==
  ASSUME Priced, walletT \in Wallet, NEW venue, NEW sell \in BOOLEAN, ~sell,
         NEW n \in Nat, NEW quoted \in Nat, NEW slip \in 0..100, NEW m \in Nat, NEW min \in Nat,
         NEW setup \in {<<>>, <<Opens>>}, NEW tx,
         BuyTx(tx, setup, Converts("USDC", "SOL", n, quoted, slip), Swaps(venue, sell, m, min))
  PROVE  BuysFrom(setup, Trade!Result(tx), venue, sell, n, quoted, slip, m, min)
<1> DEFINE x == Swaps(venue, sell, m, min)
           r == Converts("USDC", "SOL", n, quoted, slip)
           E == {Opens, r, x, Closes}
<1>1. \A op \in E : IsOp(op)
  BY OpsAreOps
<1> HIDE DEF x, r
<1>2. r \in E /\ x \in E /\ Opens \in E /\ Closes \in E
  OBVIOUS
<1> HIDE DEF E
<1>3. PICK legs : legs = <<r>> \o <<Opens, x>>
  OBVIOUS
<1>4. IsThree(E, legs, r, Opens, x)
  BY <1>2, <1>3, LegsJoin
<1>5. tx = (setup \o legs) \o <<Closes>>
  BY <1>3 DEF x, r, BuyTx
<1>6. Starts(Begun) /\ Starts(RunStep(Begun, Opens)) /\ RunStep(Begun, Opens).wallet.open
  BY BegunStarts
<1>7. <<>> # <<Opens>>
  OBVIOUS
<1>8. CASE setup = <<>>
  <2>1. tx = (<<>> \o legs) \o <<Closes>>
    BY <1>5, <1>8
  <2>2. IsFour(E, tx, r, Opens, x, Closes)
    BY <1>2, <1>4, <2>1, LegsAlone
  <2>3. FourSteps(tx)
    BY <1>1, <2>2, ResultOfFour DEF IsFour
  <2>4. PICK s1, s2, s3, s4 :
          /\ s1 = RunStep(Begun, tx[1]) /\ s2 = RunStep(s1, tx[2]) /\ s3 = RunStep(s2, tx[3])
          /\ s4 = RunStep(s3, tx[4]) /\ Trade!Result(tx) = s4
    BY <2>3 DEF FourSteps
  <2>5. PICK s \in States : s = Begun
    BY <1>6 DEF Starts
  <2>6. /\ s1 = RunStep(s, Converts("USDC", "SOL", n, quoted, slip)) /\ s2 = RunStep(s1, Opens)
        /\ s3 = RunStep(s2, Swaps(venue, sell, m, min)) /\ s4 = RunStep(s3, Closes)
    BY <2>2, <2>4, <2>5 DEF x, r, IsFour
  <2> HIDE DEF States
  <2>7. BuysConverted(s, s4, venue, sell, n, quoted, slip, m, min)
    BY <2>6, RoutedBuy
  <2> QED BY <1>6, <1>7, <1>8, <2>4, <2>5, <2>7 DEF BuysFrom
<1>9. CASE setup = <<Opens>>
  <2>1. tx = (<<Opens>> \o legs) \o <<Closes>>
    BY <1>5, <1>9
  <2>2. IsFive(E, tx, Opens, r, Opens, x, Closes)
    BY <1>2, <1>4, <2>1, LegsAfter
  <2>3. FiveSteps(tx)
    BY <1>1, <2>2, ResultOfFive DEF IsFive
  <2>4. PICK s1, s2, s3, s4, s5 :
          /\ s1 = RunStep(Begun, tx[1]) /\ s2 = RunStep(s1, tx[2]) /\ s3 = RunStep(s2, tx[3])
          /\ s4 = RunStep(s3, tx[4]) /\ s5 = RunStep(s4, tx[5]) /\ Trade!Result(tx) = s5
    BY <2>3 DEF FiveSteps
  <2>5. PICK s \in States : s = RunStep(Begun, Opens)
    BY <1>6 DEF Starts
  <2>6. /\ s2 = RunStep(s, Converts("USDC", "SOL", n, quoted, slip)) /\ s3 = RunStep(s2, Opens)
        /\ s4 = RunStep(s3, Swaps(venue, sell, m, min)) /\ s5 = RunStep(s4, Closes)
    BY <2>2, <2>4, <2>5 DEF x, r, IsFive
  <2> HIDE DEF States
  <2>7. BuysConverted(s, s5, venue, sell, n, quoted, slip, m, min)
    BY <2>6, RoutedBuy
  <2> QED BY <1>6, <1>9, <2>4, <2>5, <2>7 DEF BuysFrom
<1> QED BY <1>8, <1>9

LEMMA RoutedSellResult ==
  ASSUME Priced, walletT \in Wallet, NEW venue, NEW sell \in BOOLEAN, IsSell(sell),
         NEW n \in Nat, NEW min \in Nat, NEW m \in Nat, NEW quoted \in Nat, NEW slip \in 0..100,
         NEW setup \in {<<>>, <<Opens>>}, NEW tx,
         SellTx(tx, setup, Swaps(venue, sell, n, min), Converts("SOL", "USDC", m, quoted, slip))
  PROVE  SellsFrom(Trade!Result(tx), venue, sell, n, min, m, quoted, slip)
<1> DEFINE x == Swaps(venue, sell, n, min)
           r == Converts("SOL", "USDC", m, quoted, slip)
           E == {Opens, r, x, Closes}
<1>1. \A op \in E : IsOp(op)
  BY OpsAreOps
<1> HIDE DEF x, r
<1>2. r \in E /\ x \in E /\ Opens \in E /\ Closes \in E
  OBVIOUS
<1> HIDE DEF E
<1>3. PICK legs : legs = <<Opens, x>> \o <<r>>
  OBVIOUS
<1>4. IsThree(E, legs, Opens, x, r)
  BY <1>2, <1>3, LegsJoin
<1>5. tx = (setup \o legs) \o <<Closes>>
  BY <1>3 DEF x, r, SellTx
<1>6. Starts(Begun) /\ Starts(RunStep(Begun, Opens))
  BY BegunStarts
<1>8. CASE setup = <<>>
  <2>1. tx = (<<>> \o legs) \o <<Closes>>
    BY <1>5, <1>8
  <2>2. IsFour(E, tx, Opens, x, r, Closes)
    BY <1>2, <1>4, <2>1, LegsAlone
  <2>3. FourSteps(tx)
    BY <1>1, <2>2, ResultOfFour DEF IsFour
  <2>4. PICK s1, s2, s3, s4 :
          /\ s1 = RunStep(Begun, tx[1]) /\ s2 = RunStep(s1, tx[2]) /\ s3 = RunStep(s2, tx[3])
          /\ s4 = RunStep(s3, tx[4]) /\ Trade!Result(tx) = s4
    BY <2>3 DEF FourSteps
  <2>5. PICK s \in States : s = Begun
    BY <1>6 DEF Starts
  <2>6. /\ s1 = RunStep(s, Opens) /\ s2 = RunStep(s1, Swaps(venue, sell, n, min))
        /\ s3 = RunStep(s2, Converts("SOL", "USDC", m, quoted, slip)) /\ s4 = RunStep(s3, Closes)
    BY <2>2, <2>4, <2>5 DEF x, r, IsFour
  <2> HIDE DEF States
  <2>7. SellsConverted(s, s4, venue, sell, n, min, m, quoted, slip)
    BY <2>6, RoutedSell
  <2> QED BY <1>6, <2>4, <2>5, <2>7 DEF SellsFrom
<1>9. CASE setup = <<Opens>>
  <2>1. tx = (<<Opens>> \o legs) \o <<Closes>>
    BY <1>5, <1>9
  <2>2. IsFive(E, tx, Opens, Opens, x, r, Closes)
    BY <1>2, <1>4, <2>1, LegsAfter
  <2>3. FiveSteps(tx)
    BY <1>1, <2>2, ResultOfFive DEF IsFive
  <2>4. PICK s1, s2, s3, s4, s5 :
          /\ s1 = RunStep(Begun, tx[1]) /\ s2 = RunStep(s1, tx[2]) /\ s3 = RunStep(s2, tx[3])
          /\ s4 = RunStep(s3, tx[4]) /\ s5 = RunStep(s4, tx[5]) /\ Trade!Result(tx) = s5
    BY <2>3 DEF FiveSteps
  <2>5. PICK s \in States : s = RunStep(Begun, Opens)
    BY <1>6 DEF Starts
  <2>6. /\ s2 = RunStep(s, Opens) /\ s3 = RunStep(s2, Swaps(venue, sell, n, min))
        /\ s4 = RunStep(s3, Converts("SOL", "USDC", m, quoted, slip)) /\ s5 = RunStep(s4, Closes)
    BY <2>2, <2>4, <2>5 DEF x, r, IsFive
  <2> HIDE DEF States
  <2>7. SellsConverted(s, s5, venue, sell, n, min, m, quoted, slip)
    BY <2>6, RoutedSell
  <2> QED BY <1>6, <2>4, <2>5, <2>7 DEF SellsFrom
<1> QED BY <1>8, <1>9

(* What is kept of the instructions of a leg.                              *)
LEMMA KeepsFirstOfTwo ==
  ASSUME NEW E, NEW s \in Seq(E), NEW S, Len(s) = 2, s[1] \in S, s[2] \notin S
  PROVE  Trade!Kept(s, S) = <<s[1]>>
<1>1. PICK d \in [0..Len(s) -> Seq(E)] : Keeps(s, S, d) /\ d[Len(s)] = Trade!Kept(s, S)
  BY KeptSteps
<1>2. d[0] = <<>> /\ \A i \in 1..2 : d[i] = IF s[i] \in S THEN Append(d[i - 1], s[i]) ELSE d[i - 1]
  BY <1>1 DEF Keeps
<1>3. d[1] = Append(d[0], s[1]) /\ d[2] = d[1]
  BY <1>2
<1>4. Append(<<>>, s[1]) = <<s[1]>>
  OBVIOUS
<1>5. d[2] = <<s[1]>>
  BY <1>2, <1>3, <1>4
<1>6. d[2] = Trade!Kept(s, S)
  BY <1>1
<1> QED BY <1>5, <1>6

LEMMA KeepsFirstOfThree ==
  ASSUME NEW E, NEW s \in Seq(E), NEW S, Len(s) = 3, s[1] \in S, s[2] \notin S, s[3] \notin S
  PROVE  Trade!Kept(s, S) = <<s[1]>>
<1>1. PICK d \in [0..Len(s) -> Seq(E)] : Keeps(s, S, d) /\ d[Len(s)] = Trade!Kept(s, S)
  BY KeptSteps
<1>2. d[0] = <<>> /\ \A i \in 1..3 : d[i] = IF s[i] \in S THEN Append(d[i - 1], s[i]) ELSE d[i - 1]
  BY <1>1 DEF Keeps
<1>3. d[1] = Append(d[0], s[1]) /\ d[2] = d[1] /\ d[3] = d[2]
  BY <1>2
<1>4. Append(<<>>, s[1]) = <<s[1]>>
  OBVIOUS
<1>5. d[3] = <<s[1]>>
  BY <1>2, <1>3, <1>4
<1>6. d[3] = Trade!Kept(s, S)
  BY <1>1
<1> QED BY <1>5, <1>6

LEMMA KeepsTwoOfThree ==
  ASSUME NEW E, NEW s \in Seq(E), NEW S, Len(s) = 3, s[1] \in S, s[2] \in S, s[3] \notin S
  PROVE  Trade!Kept(s, S) = <<s[1], s[2]>>
<1>1. PICK d \in [0..Len(s) -> Seq(E)] : Keeps(s, S, d) /\ d[Len(s)] = Trade!Kept(s, S)
  BY KeptSteps
<1>2. d[0] = <<>> /\ \A i \in 1..3 : d[i] = IF s[i] \in S THEN Append(d[i - 1], s[i]) ELSE d[i - 1]
  BY <1>1 DEF Keeps
<1>3. d[1] = Append(d[0], s[1]) /\ d[2] = Append(d[1], s[2]) /\ d[3] = d[2]
  BY <1>2
<1>4. Append(<<>>, s[1]) = <<s[1]>>
  OBVIOUS
<1>5. s[1] \in E /\ s[2] \in E
  <2>1. 1 \in 1..Len(s) /\ 2 \in 1..Len(s)
    OBVIOUS
  <2> QED BY <2>1, ElementIn
<1>6. Append(<<s[1]>>, s[2]) = <<s[1], s[2]>>
  BY <1>5, AppendOne
<1>7. d[3] = <<s[1], s[2]>>
  BY <1>2, <1>3, <1>4, <1>6
<1>8. d[3] = Trade!Kept(s, S)
  BY <1>1
<1> QED BY <1>7, <1>8

LEMMA KeepsTwoOfFour ==
  ASSUME NEW E, NEW s \in Seq(E), NEW S, Len(s) = 4, s[1] \in S, s[2] \notin S, s[3] \in S, s[4] \notin S
  PROVE  Trade!Kept(s, S) = <<s[1], s[3]>>
<1>1. PICK d \in [0..Len(s) -> Seq(E)] : Keeps(s, S, d) /\ d[Len(s)] = Trade!Kept(s, S)
  BY KeptSteps
<1>2. d[0] = <<>> /\ \A i \in 1..4 : d[i] = IF s[i] \in S THEN Append(d[i - 1], s[i]) ELSE d[i - 1]
  BY <1>1 DEF Keeps
<1>3. d[1] = Append(d[0], s[1]) /\ d[2] = d[1] /\ d[3] = Append(d[2], s[3]) /\ d[4] = d[3]
  BY <1>2
<1>4. Append(<<>>, s[1]) = <<s[1]>>
  OBVIOUS
<1>5. s[1] \in E /\ s[3] \in E
  <2>1. 1 \in 1..Len(s) /\ 3 \in 1..Len(s)
    OBVIOUS
  <2> QED BY <2>1, ElementIn
<1>6. Append(<<s[1]>>, s[3]) = <<s[1], s[3]>>
  BY <1>5, AppendOne
<1>7. d[4] = <<s[1], s[3]>>
  BY <1>2, <1>3, <1>4, <1>6
<1>8. d[4] = Trade!Kept(s, S)
  BY <1>1
<1> QED BY <1>7, <1>8

LEMMA OpsHave ==
  /\ Opens.op = "open" /\ Closes.op = "close"
  /\ \A n : Wraps(n).op = "wrap"
  /\ \A venue, sell, n, min : Swaps(venue, sell, n, min).op = "pool"
BY DEF Opens, Closes, Wraps, Swaps, Trade!Op

LEMMA IntermediateOps ==
  ASSUME NEW venue, NEW sell, NEW n, NEW min, NEW k, NEW j
  PROVE  LET x == Swaps(venue, sell, n, min) IN
         /\ Trade!IntermediateSol(<<Opens, Wraps(k), x, Closes>>) = <<Opens, x>>
         /\ Trade!IntermediateSol(<<Opens, x, Closes>>) = <<Opens, x>>
         /\ Trade!IntermediateSol(<<Opens, Wraps(k)>>) = <<Opens>>
         /\ Trade!IntermediateSol(<<Opens, Wraps(k), Wraps(j)>>) = <<Opens>>
         /\ Trade!IntermediateSol(<<>>) = <<>>
<1>1. PICK x, o, w, v, c :
        /\ x = Swaps(venue, sell, n, min) /\ o = Opens /\ w = Wraps(k) /\ v = Wraps(j) /\ c = Closes
  OBVIOUS
<1>2. /\ x.op = "pool" /\ o.op = "open" /\ w.op = "wrap" /\ v.op = "wrap" /\ c.op = "close"
  BY <1>1, OpsHave
<1> DEFINE S(s) == {op \in Range(s) : op.op \notin {"wrap", "close"}}
           E == {x, o, w, v, c}
<1>3. \A s : Trade!IntermediateSol(s) = Trade!Kept(s, S(s))
  BY DEF Trade!IntermediateSol, Trade!Range, Range
<1>4. Trade!IntermediateSol(<<o, w, x, c>>) = <<o, x>>
  <2>1. PICK s : s = <<o, w, x, c>>
    OBVIOUS
  <2>2. s \in Seq(E) /\ Len(s) = 4 /\ s[1] = o /\ s[2] = w /\ s[3] = x /\ s[4] = c
    BY <2>1
  <2>3. s[1] \in S(s) /\ s[2] \notin S(s) /\ s[3] \in S(s) /\ s[4] \notin S(s)
    BY <1>2, <2>2 DEF Range
  <2> HIDE DEF S, E
  <2>4. Trade!Kept(s, S(s)) = <<s[1], s[3]>>
    BY <2>2, <2>3, KeepsTwoOfFour
  <2> QED BY <1>3, <2>1, <2>2, <2>4
<1>5. Trade!IntermediateSol(<<o, x, c>>) = <<o, x>>
  <2>1. PICK s : s = <<o, x, c>>
    OBVIOUS
  <2>2. s \in Seq(E) /\ Len(s) = 3 /\ s[1] = o /\ s[2] = x /\ s[3] = c
    BY <2>1
  <2>3. s[1] \in S(s) /\ s[2] \in S(s) /\ s[3] \notin S(s)
    BY <1>2, <2>2 DEF Range
  <2> HIDE DEF S, E
  <2>4. Trade!Kept(s, S(s)) = <<s[1], s[2]>>
    BY <2>2, <2>3, KeepsTwoOfThree
  <2> QED BY <1>3, <2>1, <2>2, <2>4
<1>6. Trade!IntermediateSol(<<o, w>>) = <<o>>
  <2>1. PICK s : s = <<o, w>>
    OBVIOUS
  <2>2. s \in Seq(E) /\ Len(s) = 2 /\ s[1] = o /\ s[2] = w
    BY <2>1
  <2>3. s[1] \in S(s) /\ s[2] \notin S(s)
    BY <1>2, <2>2 DEF Range
  <2> HIDE DEF S, E
  <2>4. Trade!Kept(s, S(s)) = <<s[1]>>
    BY <2>2, <2>3, KeepsFirstOfTwo
  <2> QED BY <1>3, <2>1, <2>2, <2>4
<1>7. Trade!IntermediateSol(<<o, w, v>>) = <<o>>
  <2>1. PICK s : s = <<o, w, v>>
    OBVIOUS
  <2>2. s \in Seq(E) /\ Len(s) = 3 /\ s[1] = o /\ s[2] = w /\ s[3] = v
    BY <2>1
  <2>3. s[1] \in S(s) /\ s[2] \notin S(s) /\ s[3] \notin S(s)
    BY <1>2, <2>2 DEF Range
  <2> HIDE DEF S, E
  <2>4. Trade!Kept(s, S(s)) = <<s[1]>>
    BY <2>2, <2>3, KeepsFirstOfThree
  <2> QED BY <1>3, <2>1, <2>2, <2>4
<1>8. Trade!IntermediateSol(<<>>) = <<>>
  <2>1. PICK s : s = <<>>
    OBVIOUS
  <2>2. Trade!Kept(<<>>, S(s)) = <<>>
    BY KeptOfNothing
  <2>3. Trade!IntermediateSol(s) = Trade!Kept(s, S(s))
    BY <1>3
  <2> QED BY <2>1, <2>2, <2>3
<1> QED BY <1>1, <1>4, <1>5, <1>6, <1>7, <1>8

LEMMA IntermediateBuy ==
  ASSUME NEW venue, NEW sell, NEW n, NEW min, NEW k
  PROVE  Trade!IntermediateSol(<<Opens, Wraps(k), Swaps(venue, sell, n, min), Closes>>)
           = <<Opens, Swaps(venue, sell, n, min)>>
BY IntermediateOps

LEMMA IntermediateSell ==
  ASSUME NEW venue, NEW sell, NEW n, NEW min
  PROVE  Trade!IntermediateSol(<<Opens, Swaps(venue, sell, n, min), Closes>>)
           = <<Opens, Swaps(venue, sell, n, min)>>
<1>1. PICK k, j : k = 0 /\ j = 0
  OBVIOUS
<1> QED BY <1>1, IntermediateOps

LEMMA IntermediateSetup ==
  ASSUME NEW k, NEW s \in {<<>>, <<Opens, Wraps(k)>>, <<Opens, Wraps(k), Wraps(1)>>}
  PROVE  Trade!IntermediateSol(s) \in {<<>>, <<Opens>>}
<1>1. /\ Trade!IntermediateSol(<<Opens, Wraps(k)>>) = <<Opens>>
      /\ Trade!IntermediateSol(<<Opens, Wraps(k), Wraps(1)>>) = <<Opens>>
      /\ Trade!IntermediateSol(<<>>) = <<>>
  BY IntermediateOps
<1> QED BY <1>1

(* What a trade is at its stages: a quote prices what the request or the   *)
(* conversion asks, a conversion was accepted, and the transaction is      *)
(* composed of both.                                                       *)
Funded == [has : [Purse -> Nat], open : BOOLEAN]
TradeRequests == [sell : BOOLEAN, routed : BOOLEAN, amount : Amounts, slip : Tolerances]

SwapOps(quote, sell) ==
  LET swap == Swaps(quote.venue, sell, quote.amount, quote.min) IN
  IF sell THEN <<Opens, swap, Closes>> ELSE <<Opens, Wraps(quote.amount), swap, Closes>>

QuoteHolds(f) ==
  /\ f.quote.amount = IF f.request.routed /\ ~f.request.sell THEN f.route.min
                      ELSE f.request.amount
  /\ f.quote.amount \in Nat /\ f.quote.min \in Nat

QuoteFits(f) ==
  /\ f.quote.venue = Trade!Venue
  /\ Trade!Fillable(f.quote.amount, f.request.sell)
  /\ Trade!Output(f.quote.amount, f.request.sell) >= f.quote.min

RouteHolds(f) ==
  LET r == f.request
      a == f.route
      n == IF r.sell THEN f.quote.min ELSE r.amount
  IN /\ a.amount = n /\ a.expected \in Nat
     /\ a.min = Trade!MinimumOf(a.expected, r.slip \div 2)
     /\ a.swap = IF r.sell THEN Converts("SOL", "USDC", n, a.expected, r.slip \div 2)
                 ELSE Converts("USDC", "SOL", n, a.expected, r.slip \div 2)
     /\ a.setup \in IF r.sell THEN {<<>>, <<Opens, Wraps(n)>>, <<Opens, Wraps(n), Wraps(1)>>}
                    ELSE {<<>>, <<Opens>>}
     /\ a.cleanup = <<Closes>>

TxHolds(f) ==
  f.tx = IF f.request.routed
           THEN Trade!Compose(f.request, f.route, SwapOps(f.quote, f.request.sell))
         ELSE SwapOps(f.quote, f.request.sell)

LEMMA ComposedBuy ==
  ASSUME NEW r, NEW sell \in BOOLEAN, ~sell, r.sell = sell, NEW a, a.cleanup = <<Closes>>, NEW quote
  PROVE  BuyTx(Trade!Compose(r, a, SwapOps(quote, sell)), a.setup, a.swap,
               Swaps(quote.venue, sell, quote.amount, quote.min))
<1>1. PICK x, ops :
        x = Swaps(quote.venue, sell, quote.amount, quote.min) /\ ops = SwapOps(quote, sell)
  OBVIOUS
<1>2. ops = <<Opens, Wraps(quote.amount), x, Closes>>
  BY <1>1 DEF SwapOps
<1>3. Trade!IntermediateSol(ops) = <<Opens, x>>
  BY <1>1, <1>2, IntermediateBuy
<1>4. Trade!Compose(r, a, ops)
        = (a.setup \o Trade!Legs(r, a.swap, Trade!IntermediateSol(ops))) \o a.cleanup
  BY DEF Trade!Compose
<1>5. Trade!Legs(r, a.swap, <<Opens, x>>) = <<a.swap>> \o <<Opens, x>>
  BY DEF Trade!Legs
<1> QED BY <1>1, <1>3, <1>4, <1>5 DEF BuyTx

SoldBy(tx, swap, route) == \E setup \in {<<>>, <<Opens>>} : SellTx(tx, setup, swap, route)

LEMMA ComposedSell ==
  ASSUME NEW r, NEW sell \in BOOLEAN, IsSell(sell), r.sell = sell, NEW a, a.cleanup = <<Closes>>,
         NEW quote, NEW n,
         a.setup \in {<<>>, <<Opens, Wraps(n)>>, <<Opens, Wraps(n), Wraps(1)>>}
  PROVE  SoldBy(Trade!Compose(r, a, SwapOps(quote, sell)),
                Swaps(quote.venue, sell, quote.amount, quote.min), a.swap)
<1>1. PICK x, ops, setup :
        /\ x = Swaps(quote.venue, sell, quote.amount, quote.min) /\ ops = SwapOps(quote, sell)
        /\ setup = Trade!IntermediateSol(a.setup)
  OBVIOUS
<1>2. ops = <<Opens, x, Closes>>
  BY <1>1 DEF SwapOps, IsSell
<1>3. Trade!IntermediateSol(ops) = <<Opens, x>>
  BY <1>1, <1>2, IntermediateSell
<1>4. setup \in {<<>>, <<Opens>>}
  BY <1>1, IntermediateSetup
<1>5. Trade!Compose(r, a, ops)
        = (setup \o Trade!Legs(r, a.swap, Trade!IntermediateSol(ops))) \o a.cleanup
  BY <1>1 DEF Trade!Compose, IsSell
<1>6. Trade!Legs(r, a.swap, <<Opens, x>>) = <<Opens, x>> \o <<a.swap>>
  BY DEF Trade!Legs, IsSell
<1> QED BY <1>1, <1>3, <1>4, <1>5, <1>6 DEF SoldBy, SellTx

(* What is left of the wallet and of the pool.                             *)
Left(t) ==
  /\ t.wallet \in Funded /\ t.pool \in PoolState
  /\ t.pool.rate = pool.rate /\ t.pool.migrated = pool.migrated
  /\ t.pool.reserve \in 0..Threshold

PaysShown(t, in, amount, out, shown) ==
  /\ \A a \in Trade!Assets :
       Trade!Held(t.wallet, a) + (IF a = in THEN amount ELSE 0) >= Trade!Held(walletT, a)
  /\ Trade!Held(t.wallet, out) >= Trade!Held(walletT, out) + shown

LEMMA FundedHas ==
  ASSUME walletT \in Funded
  PROVE  /\ walletT \in Wallet
         /\ walletT.has["SOL"] \in Nat /\ walletT.has["WSOL"] \in Nat
         /\ walletT.has["USDC"] \in Nat /\ walletT.has["token"] \in Nat
<1>1. walletT.has \in [Purse -> Nat] /\ walletT.open \in BOOLEAN
      /\ walletT = [has |-> walletT.has, open |-> walletT.open]
  BY DEF Funded
<1>2. \A a \in Purse : walletT.has[a] \in Nat /\ walletT.has[a] \in Int
  BY <1>1
<1>3. walletT.has \in [Purse -> Int]
  <2> HIDE DEF Purse
  <2> QED BY <1>1, <1>2
<1>4. walletT \in Wallet
  BY <1>1, <1>3 DEF Wallet
<1> QED BY <1>2, <1>4 DEF Purse

LEMMA HoldsFunded ==
  ASSUME NEW t \in States, NEW p \in Nat, NEW q \in Nat, NEW u \in Nat, NEW k \in Nat,
         Holds(t, p, q, u, k)
  PROVE  t.wallet \in Funded
<1>1. t.wallet \in Wallet
  BY StatesHave
<1>2. t.wallet.has \in [Purse -> Int] /\ t.wallet.open \in BOOLEAN
      /\ t.wallet = [has |-> t.wallet.has, open |-> t.wallet.open]
  BY <1>1 DEF Wallet
<1>3. \A a \in Purse : t.wallet.has[a] \in Nat
  BY DEF Purse, Holds
<1>4. t.wallet.has \in [Purse -> Nat]
  <2> HIDE DEF Purse
  <2> QED BY <1>2, <1>3
<1> QED BY <1>2, <1>4 DEF Funded

LEMMA HoldsPays ==
  ASSUME walletT \in Funded, NEW t, NEW p \in Nat, NEW u \in Nat, NEW k \in Nat,
         Holds(t, p, 0, u, k), NEW in \in Trade!Assets, NEW out \in Trade!Assets,
         NEW amount \in Nat, NEW shown \in Nat,
         p + (IF in = "SOL" THEN amount ELSE 0)
           >= walletT.has["SOL"] + walletT.has["WSOL"] + (IF out = "SOL" THEN shown ELSE 0),
         u + (IF in = "USDC" THEN amount ELSE 0)
           >= walletT.has["USDC"] + (IF out = "USDC" THEN shown ELSE 0),
         k + (IF in = "token" THEN amount ELSE 0)
           >= walletT.has["token"] + (IF out = "token" THEN shown ELSE 0),
         in # out
  PROVE  PaysShown(t, in, amount, out, shown)
<1>1. /\ walletT.has["SOL"] \in Nat /\ walletT.has["WSOL"] \in Nat
      /\ walletT.has["USDC"] \in Nat /\ walletT.has["token"] \in Nat
  BY FundedHas
<1>2. /\ Trade!Held(t.wallet, "SOL") = p /\ Trade!Held(t.wallet, "USDC") = u
      /\ Trade!Held(t.wallet, "token") = k
  BY DEF Trade!Held, Holds
<1>3. /\ Trade!Held(walletT, "SOL") = walletT.has["SOL"] + walletT.has["WSOL"]
      /\ Trade!Held(walletT, "USDC") = walletT.has["USDC"]
      /\ Trade!Held(walletT, "token") = walletT.has["token"]
  BY <1>1 DEF Trade!Held
<1>4. ASSUME NEW a \in Trade!Assets
      PROVE  Trade!Held(t.wallet, a) + (IF a = in THEN amount ELSE 0) >= Trade!Held(walletT, a)
  <2>1. CASE a = "SOL"
    BY <1>1, <1>2, <1>3, <2>1
  <2>2. CASE a = "USDC"
    BY <1>1, <1>2, <1>3, <2>2
  <2>3. CASE a = "token"
    BY <1>1, <1>2, <1>3, <2>3
  <2> QED BY <2>1, <2>2, <2>3 DEF Trade!Assets
<1>5. Trade!Held(t.wallet, out) >= Trade!Held(walletT, out) + shown
  <2>1. CASE out = "SOL"
    BY <1>1, <1>2, <1>3, <2>1
  <2>2. CASE out = "USDC"
    BY <1>1, <1>2, <1>3, <2>2
  <2>3. CASE out = "token"
    BY <1>1, <1>2, <1>3, <2>3
  <2> QED BY <2>1, <2>2, <2>3 DEF Trade!Assets
<1> QED BY <1>4, <1>5 DEF PaysShown

LEMMA PoolLeft ==
  ASSUME Priced, NEW t \in States, NEW s, Starts(s), NEW n \in Nat, NEW sell \in BOOLEAN,
         Trade!Fillable(n, sell), t.wallet \in Funded,
         t.pool.rate = s.pool.rate, t.pool.migrated = s.pool.migrated,
         t.pool.reserve = Filled(s.pool, Trade!Consumed(n, sell), Trade!Output(n, sell), sell)
  PROVE  Left(t)
<1>1. t.pool \in PoolState
  BY StatesHave
<1>2. s.pool = pool
  BY DEF Starts
<1>3. t.pool.reserve \in 0..Threshold
  BY <1>2, FilledTyped
<1> QED BY <1>1, <1>2, <1>3 DEF Left

(* What each form of a trade leaves and pays when it runs, and when it     *)
(* runs.                                                                   *)
LEMMA StartsHas ==
  ASSUME walletT \in Funded, NEW s, Starts(s)
  PROVE  /\ s.ok /\ s.wallet.has = walletT.has
         /\ s.wallet.has["SOL"] \in Nat /\ s.wallet.has["WSOL"] \in Nat
         /\ s.wallet.has["USDC"] \in Nat /\ s.wallet.has["token"] \in Nat
BY FundedHas DEF Starts

LEMMA DirectBuyEnds ==
  ASSUME Priced, walletT \in Funded, NEW sell \in BOOLEAN, ~sell, NEW venue,
         NEW n \in Nat, NEW min \in Nat, NEW s, Starts(s),
         NEW t, BuysDirectly(s, t, venue, sell, n, min), t.ok
  PROVE  Left(t) /\ venue = Trade!Venue /\ PaysShown(t, "SOL", n, "token", min)
<1>1. /\ Trade!Consumed(n, sell) \in Nat /\ Trade!Consumed(n, sell) <= n
      /\ Trade!Output(n, sell) \in Nat
  BY Amounted
<1>2. PICK spent \in Nat, got \in Nat :
        spent = Trade!Consumed(n, sell) /\ got = Trade!Output(n, sell) /\ spent <= n
  BY <1>1
<1>3. /\ s.ok /\ s.wallet.has = walletT.has
      /\ s.wallet.has["SOL"] \in Nat /\ s.wallet.has["WSOL"] \in Nat
      /\ s.wallet.has["USDC"] \in Nat /\ s.wallet.has["token"] \in Nat
  BY StartsHas
<1> HIDE DEF States
<1>4. /\ t \in States /\ s.wallet.has["SOL"] >= n /\ venue = Trade!Venue
      /\ Trade!Fillable(n, sell) /\ got >= min
      /\ Holds(t, s.wallet.has["SOL"] + s.wallet.has["WSOL"] - spent, 0,
               s.wallet.has["USDC"], s.wallet.has["token"] + got)
      /\ t.pool.rate = s.pool.rate /\ t.pool.migrated = s.pool.migrated
      /\ t.pool.reserve = Filled(s.pool, Trade!Consumed(n, sell), Trade!Output(n, sell), sell)
  BY <1>2 DEF BuysDirectly
<1>5. PICK p \in Nat, u \in Nat, k \in Nat :
        /\ p = s.wallet.has["SOL"] + s.wallet.has["WSOL"] - spent
        /\ u = s.wallet.has["USDC"] /\ k = s.wallet.has["token"] + got
  BY <1>2, <1>3, <1>4
<1>6. Holds(t, p, 0, u, k)
  BY <1>4, <1>5
<1>7. t.wallet \in Funded
  <2>1. 0 \in Nat
    OBVIOUS
  <2> QED BY <1>4, <1>6, <2>1, HoldsFunded
<1>8. Left(t)
  BY <1>4, <1>7, PoolLeft
<1>9. /\ p + n >= walletT.has["SOL"] + walletT.has["WSOL"] + 0
      /\ u + 0 >= walletT.has["USDC"] + 0 /\ k + 0 >= walletT.has["token"] + min
  BY <1>2, <1>3, <1>4, <1>5
<1>10. PaysShown(t, "SOL", n, "token", min)
  <2>1. "SOL" \in Trade!Assets /\ "token" \in Trade!Assets
    BY DEF Trade!Assets
  <2> QED BY <1>6, <1>9, <2>1, HoldsPays
<1> QED BY <1>4, <1>8, <1>10

LEMMA DirectSellEnds ==
  ASSUME Priced, walletT \in Funded, NEW sell \in BOOLEAN, NEW venue,
         NEW n \in Nat, NEW min \in Nat, NEW s, Starts(s),
         NEW t, SellsDirectly(s, t, venue, sell, n, min), t.ok
  PROVE  Left(t) /\ venue = Trade!Venue /\ PaysShown(t, "token", n, "SOL", min)
<1>1. /\ Trade!Consumed(n, sell) \in Nat /\ Trade!Consumed(n, sell) <= n
      /\ Trade!Output(n, sell) \in Nat
  BY Amounted
<1>2. PICK spent \in Nat, got \in Nat :
        spent = Trade!Consumed(n, sell) /\ got = Trade!Output(n, sell) /\ spent <= n
  BY <1>1
<1>3. /\ s.ok /\ s.wallet.has = walletT.has
      /\ s.wallet.has["SOL"] \in Nat /\ s.wallet.has["WSOL"] \in Nat
      /\ s.wallet.has["USDC"] \in Nat /\ s.wallet.has["token"] \in Nat
  BY StartsHas
<1> HIDE DEF States
<1>4. /\ t \in States /\ s.wallet.has["token"] >= n /\ venue = Trade!Venue
      /\ Trade!Fillable(n, sell) /\ got >= min
      /\ Holds(t, s.wallet.has["SOL"] + s.wallet.has["WSOL"] + got, 0,
               s.wallet.has["USDC"], s.wallet.has["token"] - spent)
      /\ t.pool.rate = s.pool.rate /\ t.pool.migrated = s.pool.migrated
      /\ t.pool.reserve = Filled(s.pool, Trade!Consumed(n, sell), Trade!Output(n, sell), sell)
  BY <1>2 DEF SellsDirectly
<1>5. PICK p \in Nat, u \in Nat, k \in Nat :
        /\ p = s.wallet.has["SOL"] + s.wallet.has["WSOL"] + got
        /\ u = s.wallet.has["USDC"] /\ k = s.wallet.has["token"] - spent
  BY <1>2, <1>3, <1>4
<1>6. Holds(t, p, 0, u, k)
  BY <1>4, <1>5
<1>7. t.wallet \in Funded
  <2>1. 0 \in Nat
    OBVIOUS
  <2> QED BY <1>4, <1>6, <2>1, HoldsFunded
<1>8. Left(t)
  BY <1>4, <1>7, PoolLeft
<1>9. /\ p + 0 >= walletT.has["SOL"] + walletT.has["WSOL"] + min
      /\ u + 0 >= walletT.has["USDC"] + 0 /\ k + n >= walletT.has["token"] + 0
  BY <1>2, <1>3, <1>4, <1>5
<1>10. PaysShown(t, "token", n, "SOL", min)
  <2>1. "SOL" \in Trade!Assets /\ "token" \in Trade!Assets
    BY DEF Trade!Assets
  <2> QED BY <1>6, <1>9, <2>1, HoldsPays
<1> QED BY <1>4, <1>8, <1>10

LEMMA RoutedBuyEnds ==
  ASSUME Priced, walletT \in Funded, NEW sell \in BOOLEAN, ~sell, NEW venue,
         NEW n \in Nat, NEW quoted \in Nat, NEW slip \in 0..100,
         NEW m \in Nat, m = Trade!MinimumOf(quoted, slip), NEW min \in Nat, NEW s, Starts(s),
         NEW t, BuysConverted(s, t, venue, sell, n, quoted, slip, m, min), t.ok
  PROVE  Left(t) /\ venue = Trade!Venue /\ PaysShown(t, "USDC", n, "token", min)
<1>1. /\ Trade!Consumed(m, sell) \in Nat /\ Trade!Consumed(m, sell) <= m
      /\ Trade!Output(m, sell) \in Nat
  BY Amounted
<1>2. PICK spent \in Nat, got \in Nat :
        spent = Trade!Consumed(m, sell) /\ got = Trade!Output(m, sell) /\ spent <= m
  BY <1>1
<1>3. /\ s.ok /\ s.wallet.has = walletT.has
      /\ s.wallet.has["SOL"] \in Nat /\ s.wallet.has["WSOL"] \in Nat
      /\ s.wallet.has["USDC"] \in Nat /\ s.wallet.has["token"] \in Nat
  BY StartsHas
<1>b. Bought(n) \in Nat
  BY MarketGives
<1>4. PICK b \in Nat : b = Bought(n)
  BY <1>b
<1> HIDE DEF States
<1>5. /\ t \in States /\ s.wallet.has["USDC"] >= n /\ venue = Trade!Venue
      /\ Trade!Fillable(m, sell) /\ got >= min /\ Reached(b, quoted, slip)
      /\ Holds(t, s.wallet.has["SOL"] + s.wallet.has["WSOL"] + b - spent, 0,
               s.wallet.has["USDC"] - n, s.wallet.has["token"] + got)
      /\ t.pool.rate = s.pool.rate /\ t.pool.migrated = s.pool.migrated
      /\ t.pool.reserve = Filled(s.pool, Trade!Consumed(m, sell), Trade!Output(m, sell), sell)
  BY <1>2, <1>4 DEF BuysConverted
<1>6. b >= spent
  BY <1>2, <1>5 DEF Reached
<1>7. PICK p \in Nat, u \in Nat, k \in Nat :
        /\ p = s.wallet.has["SOL"] + s.wallet.has["WSOL"] + b - spent
        /\ u = s.wallet.has["USDC"] - n /\ k = s.wallet.has["token"] + got
  BY <1>2, <1>3, <1>4, <1>5, <1>6
<1>8. Holds(t, p, 0, u, k)
  BY <1>5, <1>7
<1>9. t.wallet \in Funded
  <2>1. 0 \in Nat
    OBVIOUS
  <2> QED BY <1>5, <1>8, <2>1, HoldsFunded
<1>10. Left(t)
  BY <1>5, <1>9, PoolLeft
<1>11. /\ p + 0 >= walletT.has["SOL"] + walletT.has["WSOL"] + 0
       /\ u + n >= walletT.has["USDC"] + 0 /\ k + 0 >= walletT.has["token"] + min
  BY <1>2, <1>3, <1>4, <1>5, <1>6, <1>7
<1>12. PaysShown(t, "USDC", n, "token", min)
  <2>1. "USDC" \in Trade!Assets /\ "token" \in Trade!Assets
    BY DEF Trade!Assets
  <2> QED BY <1>8, <1>11, <2>1, HoldsPays
<1> QED BY <1>5, <1>10, <1>12

LEMMA RoutedSellEnds ==
  ASSUME Priced, walletT \in Funded, NEW sell \in BOOLEAN, NEW venue,
         NEW n \in Nat, NEW m \in Nat, NEW quoted \in Nat, NEW slip \in 0..100,
         NEW s, Starts(s),
         NEW t, SellsConverted(s, t, venue, sell, n, m, m, quoted, slip), t.ok
  PROVE  /\ Left(t) /\ venue = Trade!Venue
         /\ PaysShown(t, "token", n, "USDC", Trade!MinimumOf(quoted, slip))
<1>1. /\ Trade!Consumed(n, sell) \in Nat /\ Trade!Consumed(n, sell) <= n
      /\ Trade!Output(n, sell) \in Nat
  BY Amounted
<1>2. PICK spent \in Nat, got \in Nat :
        spent = Trade!Consumed(n, sell) /\ got = Trade!Output(n, sell) /\ spent <= n
  BY <1>1
<1>3. /\ s.ok /\ s.wallet.has = walletT.has
      /\ s.wallet.has["SOL"] \in Nat /\ s.wallet.has["WSOL"] \in Nat
      /\ s.wallet.has["USDC"] \in Nat /\ s.wallet.has["token"] \in Nat
  BY StartsHas
<1>b. Sold(m) \in Nat
  BY MarketGives
<1>4. PICK b \in Nat : b = Sold(m)
  BY <1>b
<1>c. Trade!MinimumOf(quoted, slip) \in Nat
  BY MinimumIsLess
<1>d. PICK shown \in Nat : shown = Trade!MinimumOf(quoted, slip)
  BY <1>c
<1> HIDE DEF States
<1>5. /\ t \in States /\ s.wallet.has["token"] >= n /\ venue = Trade!Venue
      /\ Trade!Fillable(n, sell) /\ got >= m /\ Reached(b, quoted, slip)
      /\ Holds(t, s.wallet.has["SOL"] + s.wallet.has["WSOL"] + got - m, 0,
               s.wallet.has["USDC"] + b, s.wallet.has["token"] - spent)
      /\ t.pool.rate = s.pool.rate /\ t.pool.migrated = s.pool.migrated
      /\ t.pool.reserve = Filled(s.pool, Trade!Consumed(n, sell), Trade!Output(n, sell), sell)
  BY <1>2, <1>4 DEF SellsConverted
<1>6. b >= shown
  BY <1>d, <1>5 DEF Reached
<1>7. PICK p \in Nat, u \in Nat, k \in Nat :
        /\ p = s.wallet.has["SOL"] + s.wallet.has["WSOL"] + got - m
        /\ u = s.wallet.has["USDC"] + b /\ k = s.wallet.has["token"] - spent
  BY <1>2, <1>3, <1>4, <1>5
<1>8. Holds(t, p, 0, u, k)
  BY <1>5, <1>7
<1>9. t.wallet \in Funded
  <2>1. 0 \in Nat
    OBVIOUS
  <2> QED BY <1>5, <1>8, <2>1, HoldsFunded
<1>10. Left(t)
  BY <1>5, <1>9, PoolLeft
<1>11. /\ p + 0 >= walletT.has["SOL"] + walletT.has["WSOL"] + 0
       /\ u + 0 >= walletT.has["USDC"] + shown /\ k + n >= walletT.has["token"] + 0
  BY <1>2, <1>3, <1>5, <1>6, <1>7
<1>12. PaysShown(t, "token", n, "USDC", shown)
  <2>1. "USDC" \in Trade!Assets /\ "token" \in Trade!Assets
    BY DEF Trade!Assets
  <2> QED BY <1>8, <1>11, <2>1, HoldsPays
<1> QED BY <1>d, <1>5, <1>10, <1>12

LEMMA DirectBuyRuns ==
  ASSUME walletT \in Funded, NEW sell \in BOOLEAN, NEW venue,
         NEW n \in Nat, NEW min \in Nat, NEW s, Starts(s),
         NEW t, BuysDirectly(s, t, venue, sell, n, min),
         venue = Trade!Venue, Trade!Fillable(n, sell), Trade!Output(n, sell) >= min,
         walletT.has["SOL"] >= n
  PROVE  t.ok
<1>1. /\ s.ok /\ s.wallet.has = walletT.has
      /\ s.wallet.has["SOL"] \in Nat /\ s.wallet.has["WSOL"] \in Nat
      /\ s.wallet.has["USDC"] \in Nat /\ s.wallet.has["token"] \in Nat
  BY StartsHas
<1> HIDE DEF States
<1>2. s.wallet.has["WSOL"] + n >= n /\ s.wallet.has["SOL"] >= n
  BY <1>1
<1> QED BY <1>1, <1>2 DEF BuysDirectly

LEMMA DirectSellRuns ==
  ASSUME walletT \in Funded, NEW sell \in BOOLEAN, NEW venue,
         NEW n \in Nat, NEW min \in Nat, NEW s, Starts(s),
         NEW t, SellsDirectly(s, t, venue, sell, n, min),
         venue = Trade!Venue, Trade!Fillable(n, sell), Trade!Output(n, sell) >= min,
         walletT.has["token"] >= n
  PROVE  t.ok
<1>1. s.ok /\ s.wallet.has = walletT.has
  BY StartsHas
<1> QED BY <1>1 DEF SellsDirectly

LEMMA RoutedBuyRuns ==
  ASSUME Priced, walletT \in Funded, NEW sell \in BOOLEAN, NEW venue,
         NEW n \in Nat, NEW quoted \in Nat, quoted = Bought(n), NEW slip \in 0..100,
         NEW m \in Nat, m = Trade!MinimumOf(quoted, slip), NEW min \in Nat,
         NEW s, Starts(s), s.wallet.open,
         NEW t, BuysConverted(s, t, venue, sell, n, quoted, slip, m, min),
         venue = Trade!Venue, Trade!Fillable(m, sell), Trade!Output(m, sell) >= min,
         walletT.has["USDC"] >= n
  PROVE  t.ok
<1>1. /\ s.ok /\ s.wallet.has = walletT.has
      /\ s.wallet.has["SOL"] \in Nat /\ s.wallet.has["WSOL"] \in Nat
      /\ s.wallet.has["USDC"] \in Nat /\ s.wallet.has["token"] \in Nat
  BY StartsHas
<1>2. m <= quoted
  BY MinimumIsLess
<1>3. Reached(quoted, quoted, slip) /\ s.wallet.has["WSOL"] + quoted >= m
  BY <1>1, <1>2 DEF Reached
<1> HIDE DEF States
<1> QED BY <1>1, <1>3 DEF BuysConverted

LEMMA RoutedSellRuns ==
  ASSUME Priced, walletT \in Funded, NEW sell \in BOOLEAN, NEW venue,
         NEW n \in Nat, NEW m \in Nat, NEW quoted \in Nat, quoted = Sold(m), NEW slip \in 0..100,
         NEW s, Starts(s),
         NEW t, SellsConverted(s, t, venue, sell, n, m, m, quoted, slip),
         venue = Trade!Venue, Trade!Fillable(n, sell), Trade!Output(n, sell) >= m,
         walletT.has["token"] >= n
  PROVE  t.ok
<1>1. /\ s.ok /\ s.wallet.has = walletT.has
      /\ s.wallet.has["SOL"] \in Nat /\ s.wallet.has["WSOL"] \in Nat
      /\ s.wallet.has["USDC"] \in Nat /\ s.wallet.has["token"] \in Nat
  BY StartsHas
<1>2. Trade!MinimumOf(quoted, slip) <= quoted /\ Trade!Output(n, sell) \in Nat
  BY MinimumIsLess, Amounted
<1>3. Reached(quoted, quoted, slip) /\ s.wallet.has["WSOL"] + Trade!Output(n, sell) >= m
  BY <1>1, <1>2 DEF Reached
<1> HIDE DEF States
<1> QED BY <1>1, <1>3 DEF SellsConverted

(* The honest answer of the provider.                                      *)
LEMMA HonestBuy ==
  ASSUME NEW r, NEW sell \in BOOLEAN, ~sell, r.sell = sell, NEW n, NEW a,
         a = Trade!Answer(Trade!Asked(r, n))
  PROVE  a.expected = Bought(n) /\ a.setup = <<Opens>>
<1>1. PICK q : q = Trade!Asked(r, n)
  OBVIOUS
<1>2. q.in = "USDC" /\ q.out = "SOL" /\ q.amount = n
  BY <1>1 DEF Trade!Asked
<1>3. a.expected = Trade!RouteOut(q)
  BY <1>1 DEF Trade!Answer
<1>4. Trade!RouteOut(q) = Bought(n)
  BY <1>2 DEF Trade!RouteOut, Bought
<1>5. a.setup = <<Opens>> \o <<>>
  BY <1>1, <1>2 DEF Trade!Answer, Opens
<1>6. <<Opens>> \o <<>> = <<Opens>>
  <2>1. PICK x : x = <<Opens>>
    OBVIOUS
  <2>2. x \in Seq({Opens})
    BY <2>1
  <2> QED BY <2>1, <2>2, ConcatEmptySeq
<1> QED BY <1>3, <1>4, <1>5, <1>6

LEMMA HonestSell ==
  ASSUME NEW r, NEW sell \in BOOLEAN, IsSell(sell), r.sell = sell, NEW n, NEW a,
         a = Trade!Answer(Trade!Asked(r, n))
  PROVE  a.expected = Sold(n)
<1>1. PICK q : q = Trade!Asked(r, n)
  OBVIOUS
<1>2. q.in = "SOL" /\ q.amount = n
  BY <1>1 DEF Trade!Asked, IsSell
<1>3. a.expected = Trade!RouteOut(q)
  BY <1>1 DEF Trade!Answer
<1>4. Trade!RouteOut(q) = Sold(n)
  BY <1>2 DEF Trade!RouteOut, Sold
<1> QED BY <1>3, <1>4

(* A trade whose transaction runs, and one that nothing has disturbed.     *)
Settles(f, t) ==
  /\ Left(t) /\ f.quote.venue = Trade!Venue
  /\ PaysShown(t, Trade!InputOf(f.request), f.request.amount, Trade!OutputOf(f.request),
          Trade!ShownMinimum(f))
Undisturbed(f) ==
  /\ QuoteFits(f)
  /\ walletT.has[Trade!InputOf(f.request)] >= f.request.amount
  /\ f.request.routed => f.route = Trade!Answer(Trade!Asked(f.request, f.route.amount))

LEMMA RequestHas ==
  ASSUME NEW r \in TradeRequests
  PROVE  /\ r.sell \in BOOLEAN /\ r.routed \in BOOLEAN
         /\ r.amount \in Nat /\ r.slip \in 0..100 /\ r.slip \div 2 \in 0..100
<1>1. r.sell \in BOOLEAN /\ r.routed \in BOOLEAN /\ r.amount \in Amounts /\ r.slip \in Tolerances
  BY DEF TradeRequests
<1>2. r.amount \in Nat /\ r.slip \in 0..100
  BY <1>1, TradeAssumption
<1> QED BY <1>1, <1>2

LEMMA DirectBuySettles ==
  ASSUME Priced, walletT \in Funded, NEW f, f.request \in TradeRequests, QuoteHolds(f), TxHolds(f),
         ~f.request.routed, NEW sell \in BOOLEAN, ~sell, f.request.sell = sell,
         NEW t, t = Trade!Result(f.tx)
  PROVE  (t.ok => Settles(f, t)) /\ (Undisturbed(f) => t.ok)
<1>1. PICK n, min, venue : n = f.quote.amount /\ min = f.quote.min /\ venue = f.quote.venue
  OBVIOUS
<1>2. n \in Nat /\ min \in Nat /\ n = f.request.amount
  BY <1>1 DEF QuoteHolds
<1>3. f.tx = <<Opens, Wraps(n), Swaps(venue, sell, n, min), Closes>>
  BY <1>1 DEF TxHolds, SwapOps
<1>4. PICK s : s = Begun
  OBVIOUS
<1>5. walletT \in Wallet
  BY FundedHas
<1>6. BuysDirectly(s, t, venue, sell, n, min)
  BY <1>2, <1>3, <1>4, <1>5, DirectBuyResult
<1>7. Starts(s)
  BY <1>4, <1>5, BegunStarts
<1>8. /\ Trade!InputOf(f.request) = "SOL" /\ Trade!OutputOf(f.request) = "token"
      /\ Trade!ShownMinimum(f) = min
  BY <1>1 DEF Trade!InputOf, Trade!OutputOf, Trade!ShownMinimum
<1>9. ASSUME t.ok PROVE Settles(f, t)
  <2>1. Left(t) /\ venue = Trade!Venue /\ PaysShown(t, "SOL", n, "token", min)
    BY <1>2, <1>6, <1>7, <1>9, DirectBuyEnds
  <2> QED BY <1>1, <1>2, <1>8, <2>1 DEF Settles
<1>10. ASSUME Undisturbed(f) PROVE t.ok
  <2>1. /\ venue = Trade!Venue /\ Trade!Fillable(n, sell) /\ Trade!Output(n, sell) >= min
        /\ walletT.has["SOL"] >= n
    BY <1>1, <1>2, <1>8, <1>10 DEF Undisturbed, QuoteFits
  <2> QED BY <1>2, <1>6, <1>7, <2>1, DirectBuyRuns
<1> QED BY <1>9, <1>10

LEMMA DirectSellSettles ==
  ASSUME Priced, walletT \in Funded, NEW f, f.request \in TradeRequests, QuoteHolds(f), TxHolds(f),
         ~f.request.routed, NEW sell \in BOOLEAN, IsSell(sell), f.request.sell = sell,
         NEW t, t = Trade!Result(f.tx)
  PROVE  (t.ok => Settles(f, t)) /\ (Undisturbed(f) => t.ok)
<1>1. PICK n, min, venue : n = f.quote.amount /\ min = f.quote.min /\ venue = f.quote.venue
  OBVIOUS
<1>2. n \in Nat /\ min \in Nat /\ n = f.request.amount
  BY <1>1 DEF QuoteHolds
<1>3. f.tx = <<Opens, Swaps(venue, sell, n, min), Closes>>
  BY <1>1 DEF TxHolds, SwapOps, IsSell
<1>4. PICK s : s = Begun
  OBVIOUS
<1>5. walletT \in Wallet
  BY FundedHas
<1>6. SellsDirectly(s, t, venue, sell, n, min)
  BY <1>2, <1>3, <1>4, <1>5, DirectSellResult
<1>7. Starts(s)
  BY <1>4, <1>5, BegunStarts
<1>8. /\ Trade!InputOf(f.request) = "token" /\ Trade!OutputOf(f.request) = "SOL"
      /\ Trade!ShownMinimum(f) = min
  BY <1>1 DEF Trade!InputOf, Trade!OutputOf, Trade!ShownMinimum, IsSell
<1>9. ASSUME t.ok PROVE Settles(f, t)
  <2>1. Left(t) /\ venue = Trade!Venue /\ PaysShown(t, "token", n, "SOL", min)
    BY <1>2, <1>6, <1>7, <1>9, DirectSellEnds
  <2> QED BY <1>1, <1>2, <1>8, <2>1 DEF Settles
<1>10. ASSUME Undisturbed(f) PROVE t.ok
  <2>1. /\ venue = Trade!Venue /\ Trade!Fillable(n, sell) /\ Trade!Output(n, sell) >= min
        /\ walletT.has["token"] >= n
    BY <1>1, <1>2, <1>8, <1>10 DEF Undisturbed, QuoteFits
  <2> QED BY <1>2, <1>6, <1>7, <2>1, DirectSellRuns
<1> QED BY <1>9, <1>10

LEMMA RoutedBuySettles ==
  ASSUME Priced, walletT \in Funded, NEW f, f.request \in TradeRequests, QuoteHolds(f), TxHolds(f),
         f.request.routed, RouteHolds(f), NEW sell \in BOOLEAN, ~sell, f.request.sell = sell,
         NEW t, t = Trade!Result(f.tx)
  PROVE  (t.ok => Settles(f, t)) /\ (Undisturbed(f) => t.ok)
<1>1. PICK n, m, min, venue, quoted, slip, setup :
        /\ n = f.request.amount /\ m = f.quote.amount /\ min = f.quote.min
        /\ venue = f.quote.venue /\ quoted = f.route.expected /\ slip = f.request.slip \div 2
        /\ setup = f.route.setup
  OBVIOUS
<1>2. /\ n \in Nat /\ m \in Nat /\ min \in Nat /\ quoted \in Nat /\ slip \in 0..100
      /\ m = Trade!MinimumOf(quoted, slip) /\ setup \in {<<>>, <<Opens>>}
      /\ f.route.swap = Converts("USDC", "SOL", n, quoted, slip)
      /\ f.route.cleanup = <<Closes>> /\ f.route.amount = n
  BY <1>1, RequestHas DEF QuoteHolds, RouteHolds
<1>3. BuyTx(f.tx, setup, Converts("USDC", "SOL", n, quoted, slip), Swaps(venue, sell, m, min))
  <2>1. f.tx = Trade!Compose(f.request, f.route, SwapOps(f.quote, sell))
    BY DEF TxHolds
  <2>2. PICK r, a, quote : r = f.request /\ a = f.route /\ quote = f.quote
    OBVIOUS
  <2>3. a.cleanup = <<Closes>> /\ r.sell = sell
    BY <1>2, <2>2
  <2>4. BuyTx(Trade!Compose(r, a, SwapOps(quote, sell)), a.setup, a.swap,
              Swaps(quote.venue, sell, quote.amount, quote.min))
    BY <2>3, ComposedBuy
  <2> QED BY <1>1, <1>2, <2>1, <2>2, <2>4
<1>5. walletT \in Wallet
  BY FundedHas
<1>4. BuysFrom(setup, t, venue, sell, n, quoted, slip, m, min)
  <2>1. PICK tx, r, x :
          /\ tx = f.tx /\ r = Converts("USDC", "SOL", n, quoted, slip)
          /\ x = Swaps(venue, sell, m, min)
    OBVIOUS
  <2>2. BuyTx(tx, setup, Converts("USDC", "SOL", n, quoted, slip), Swaps(venue, sell, m, min))
    BY <1>3, <2>1
  <2>3. /\ n \in Nat /\ m \in Nat /\ min \in Nat /\ quoted \in Nat /\ slip \in 0..100
        /\ setup \in {<<>>, <<Opens>>}
    BY <1>2
  <2>4. BuysFrom(setup, Trade!Result(tx), venue, sell, n, quoted, slip, m, min)
    BY <1>5, <2>2, <2>3, RoutedBuyResult, ZenonT(30)
  <2> QED BY <2>1, <2>4
<1>6. PICK s : /\ Starts(s) /\ (setup = <<Opens>> => s.wallet.open)
               /\ BuysConverted(s, t, venue, sell, n, quoted, slip, m, min)
  BY <1>4 DEF BuysFrom
<1>8. /\ Trade!InputOf(f.request) = "USDC" /\ Trade!OutputOf(f.request) = "token"
      /\ Trade!ShownMinimum(f) = min
  BY <1>1 DEF Trade!InputOf, Trade!OutputOf, Trade!ShownMinimum
<1>9. ASSUME t.ok PROVE Settles(f, t)
  <2>1. Left(t) /\ venue = Trade!Venue /\ PaysShown(t, "USDC", n, "token", min)
    BY <1>2, <1>6, <1>9, RoutedBuyEnds, ZenonT(30)
  <2> QED BY <1>1, <1>8, <2>1 DEF Settles
<1>10. ASSUME Undisturbed(f) PROVE t.ok
  <2>1. /\ venue = Trade!Venue /\ Trade!Fillable(m, sell) /\ Trade!Output(m, sell) >= min
        /\ walletT.has["USDC"] >= n
    BY <1>1, <1>8, <1>10 DEF Undisturbed, QuoteFits
  <2>2. quoted = Bought(n) /\ setup = <<Opens>>
    <3>1. PICK a, r : a = f.route /\ r = f.request
      OBVIOUS
    <3>2. a = Trade!Answer(Trade!Asked(r, n)) /\ r.sell = sell
      BY <1>2, <1>10, <3>1 DEF Undisturbed
    <3>3. a.expected = Bought(n) /\ a.setup = <<Opens>>
      BY <3>2, HonestBuy
    <3> QED BY <1>1, <3>1, <3>3
  <2> QED BY <1>2, <1>6, <2>1, <2>2, RoutedBuyRuns
<1> QED BY <1>9, <1>10

LEMMA RoutedSellSettles ==
  ASSUME Priced, walletT \in Funded, NEW f, f.request \in TradeRequests, QuoteHolds(f), TxHolds(f),
         f.request.routed, RouteHolds(f), NEW sell \in BOOLEAN, IsSell(sell), f.request.sell = sell,
         NEW t, t = Trade!Result(f.tx)
  PROVE  (t.ok => Settles(f, t)) /\ (Undisturbed(f) => t.ok)
<1>1. PICK n, m, venue, quoted, slip :
        /\ n = f.request.amount /\ m = f.quote.min
        /\ venue = f.quote.venue /\ quoted = f.route.expected /\ slip = f.request.slip \div 2
  OBVIOUS
<1>2. /\ n \in Nat /\ m \in Nat /\ quoted \in Nat /\ slip \in 0..100 /\ f.quote.amount = n
      /\ f.route.min = Trade!MinimumOf(quoted, slip)
      /\ f.route.setup \in {<<>>, <<Opens, Wraps(m)>>, <<Opens, Wraps(m), Wraps(1)>>}
      /\ f.route.swap = Converts("SOL", "USDC", m, quoted, slip)
      /\ f.route.cleanup = <<Closes>> /\ f.route.amount = m
  BY <1>1, RequestHas DEF QuoteHolds, RouteHolds, IsSell
<1>3. PICK setup \in {<<>>, <<Opens>>} :
        SellTx(f.tx, setup, Swaps(venue, sell, n, m), Converts("SOL", "USDC", m, quoted, slip))
  <2>1. f.tx = Trade!Compose(f.request, f.route, SwapOps(f.quote, sell))
    BY DEF TxHolds
  <2>2. PICK r, a, quote : r = f.request /\ a = f.route /\ quote = f.quote
    OBVIOUS
  <2>3. /\ a.cleanup = <<Closes>> /\ r.sell = sell
        /\ a.setup \in {<<>>, <<Opens, Wraps(m)>>, <<Opens, Wraps(m), Wraps(1)>>}
    BY <1>2, <2>2
  <2>4. SoldBy(Trade!Compose(r, a, SwapOps(quote, sell)),
               Swaps(quote.venue, sell, quote.amount, quote.min), a.swap)
    BY <2>3, ComposedSell
  <2>5. /\ quote.venue = venue /\ quote.amount = n /\ quote.min = m
        /\ a.swap = Converts("SOL", "USDC", m, quoted, slip)
        /\ f.tx = Trade!Compose(r, a, SwapOps(quote, sell))
    BY <1>1, <1>2, <2>1, <2>2
  <2>6. SoldBy(f.tx, Swaps(venue, sell, n, m), Converts("SOL", "USDC", m, quoted, slip))
    BY <2>4, <2>5
  <2> QED BY <2>6 DEF SoldBy
<1>5. walletT \in Wallet
  BY FundedHas
<1>4. SellsFrom(t, venue, sell, n, m, m, quoted, slip)
  <2>1. PICK tx : tx = f.tx
    OBVIOUS
  <2>2. SellTx(tx, setup, Swaps(venue, sell, n, m), Converts("SOL", "USDC", m, quoted, slip))
    BY <1>3, <2>1
  <2>3. n \in Nat /\ m \in Nat /\ quoted \in Nat /\ slip \in 0..100
    BY <1>2
  <2>4. SellsFrom(Trade!Result(tx), venue, sell, n, m, m, quoted, slip)
    BY <1>5, <2>2, <2>3, RoutedSellResult
  <2> QED BY <2>1, <2>4
<1>6. PICK s : Starts(s) /\ SellsConverted(s, t, venue, sell, n, m, m, quoted, slip)
  BY <1>4 DEF SellsFrom
<1>8. /\ Trade!InputOf(f.request) = "token" /\ Trade!OutputOf(f.request) = "USDC"
      /\ Trade!ShownMinimum(f) = Trade!MinimumOf(quoted, slip)
  BY <1>2 DEF Trade!InputOf, Trade!OutputOf, Trade!ShownMinimum, IsSell
<1>9. ASSUME t.ok PROVE Settles(f, t)
  <2>1. /\ Left(t) /\ venue = Trade!Venue
        /\ PaysShown(t, "token", n, "USDC", Trade!MinimumOf(quoted, slip))
    <3>1. n \in Nat /\ m \in Nat /\ quoted \in Nat /\ slip \in 0..100
      BY <1>2
    <3> QED BY <1>6, <1>9, <3>1, RoutedSellEnds, ZenonT(30)
  <2> QED BY <1>1, <1>8, <2>1 DEF Settles
<1>10. ASSUME Undisturbed(f) PROVE t.ok
  <2>1. /\ venue = Trade!Venue /\ Trade!Fillable(n, sell) /\ Trade!Output(n, sell) >= m
        /\ walletT.has["token"] >= n
    BY <1>1, <1>2, <1>8, <1>10 DEF Undisturbed, QuoteFits
  <2>2. quoted = Sold(m)
    <3>1. PICK a, r : a = f.route /\ r = f.request
      OBVIOUS
    <3>2. a = Trade!Answer(Trade!Asked(r, m)) /\ r.sell = sell
      BY <1>2, <1>10, <3>1 DEF Undisturbed
    <3>3. a.expected = Sold(m)
      BY <3>2, HonestSell
    <3> QED BY <1>1, <3>1, <3>3
  <2> QED BY <1>2, <1>6, <2>1, <2>2, RoutedSellRuns
<1> QED BY <1>9, <1>10

LEMMA TradeSettles ==
  ASSUME Priced, walletT \in Funded, NEW f, f.request \in TradeRequests, QuoteHolds(f), TxHolds(f),
         f.request.routed => RouteHolds(f), NEW t, t = Trade!Result(f.tx)
  PROVE  (t.ok => Settles(f, t)) /\ (Undisturbed(f) => t.ok)
<1>1. PICK sell \in BOOLEAN : f.request.sell = sell
  BY RequestHas
<1>2. ~sell \/ IsSell(sell)
  BY DEF IsSell
<1>3. CASE f.request.routed /\ ~sell
  BY <1>1, <1>3, RoutedBuySettles
<1>4. CASE f.request.routed /\ IsSell(sell)
  BY <1>1, <1>4, RoutedSellSettles
<1>5. CASE ~f.request.routed /\ ~sell
  BY <1>1, <1>5, DirectBuySettles
<1>6. CASE ~f.request.routed /\ IsSell(sell)
  BY <1>1, <1>6, DirectSellSettles
<1> QED BY <1>2, <1>3, <1>4, <1>5, <1>6

-----------------------------------------------------------------------------
(* Every stage of a trade *)

(* What holds of a trade at each of its stages, for a wallet w and after n *)
(* moves of the others, and of one that ran.                               *)
Before == {"pool", "route", "quoted", "simulate", "prepared"}
Ready == {"quoted", "simulate", "prepared"}
IsFlow(f) ==
  f = [stage |-> f.stage, request |-> f.request, route |-> f.route, quote |-> f.quote,
       tx |-> f.tx, seen |-> f.seen, start |-> f.start, ranOn |-> f.ranOn]
HasRoute(f) == f.request.routed /\ (f.stage \in Ready \/ (f.stage = "pool" /\ ~f.request.sell))
HasQuote(f) == f.stage \in Ready \/ (f.stage = "route" /\ f.request.sell)

FlowHolds(f, w, n) ==
  f.stage \in Before =>
    /\ f.request \in TradeRequests /\ f.start = w /\ f.seen \in Nat /\ f.seen <= n
    /\ f.stage \in {"route", "simulate"} => f.request.routed
    /\ HasRoute(f) => RouteHolds(f)
    /\ HasQuote(f) => QuoteHolds(f)
    /\ f.stage \in {"simulate", "prepared"} => TxHolds(f)
FlowFits(f, n) == f.stage \in Before /\ HasQuote(f) /\ f.seen = n => QuoteFits(f)
FlowRan(f, w) ==
  f.stage = "ran" =>
    /\ \A a \in Trade!Assets :
         Trade!Held(w, a) + (IF a = Trade!InputOf(f.request) THEN f.request.amount ELSE 0)
           >= Trade!Held(f.start, a)
    /\ Trade!Held(w, Trade!OutputOf(f.request))
         >= Trade!Held(f.start, Trade!OutputOf(f.request)) + Trade!ShownMinimum(f)
    /\ f.ranOn = f.quote.venue

TradeInv ==
  /\ pool \in [rate : Rates \cup {1}, reserve : 0..Threshold, migrated : BOOLEAN]
  /\ market \in Rates /\ walletT \in Funded /\ moves \in 0..MaxMoves /\ receiptT \in Receipts
  /\ IsFlow(flowT) /\ flowT.stage \in Trade!Stages
  /\ FlowHolds(flowT, walletT, moves) /\ FlowFits(flowT, moves) /\ FlowRan(flowT, walletT)

LEMMA TradePriced == TradeInv => Priced
<1> SUFFICES ASSUME TradeInv PROVE Priced
  OBVIOUS
<1>1. Rates \cup {1} \subseteq Nat \ {0} /\ market \in Nat \ {0}
  BY TradeAssumption DEF TradeInv
<1>2. pool \in [rate : Nat \ {0}, reserve : 0..Threshold, migrated : BOOLEAN]
  BY <1>1 DEF TradeInv
<1> QED BY <1>1, <1>2 DEF Priced

LEMMA TradeInit == Trade!Init => TradeInv
<1> SUFFICES ASSUME Trade!Init PROVE TradeInv
  OBVIOUS
<1>1. /\ pool = [rate |-> 1, reserve |-> 1, migrated |-> FALSE] /\ market \in Rates
      /\ walletT \in Funds /\ flowT = Trade!NoTrade /\ moves = 0
      /\ receiptT = [inner |-> <<>>, logs |-> <<>>, swaps |-> 0]
  BY DEF Trade!Init
<1>2. pool \in [rate : Rates \cup {1}, reserve : 0..Threshold, migrated : BOOLEAN]
  BY <1>1, TradeAssumption
<1>3. walletT \in Funded /\ moves \in 0..MaxMoves
  BY <1>1, TradeAssumption DEF Funded, Purse
<1>4. receiptT \in Receipts
  BY <1>1 DEF Receipts
<1>5. IsFlow(flowT) /\ flowT.stage = "idle"
  BY <1>1 DEF Trade!NoTrade, IsFlow
<1>6. FlowHolds(flowT, walletT, moves) /\ FlowFits(flowT, moves) /\ FlowRan(flowT, walletT)
  BY <1>5 DEF FlowHolds, FlowFits, FlowRan, Before
<1> QED BY <1>1, <1>2, <1>3, <1>4, <1>5, <1>6 DEF TradeInv, Trade!Stages

(* A trade whose parts are those of another.                               *)
LEMMA SameParts ==
  ASSUME NEW f, NEW g, g.request = f.request, g.route = f.route, g.quote = f.quote
  PROVE  /\ QuoteHolds(f) => QuoteHolds(g)
         /\ QuoteFits(f) => QuoteFits(g)
         /\ RouteHolds(f) => RouteHolds(g)
         /\ g.tx = f.tx /\ TxHolds(f) => TxHolds(g)
<1>1. QuoteHolds(f) => QuoteHolds(g)
  BY DEF QuoteHolds
<1>2. QuoteFits(f) => QuoteFits(g)
  BY DEF QuoteFits
<1>3. RouteHolds(f) => RouteHolds(g)
  BY DEF RouteHolds
<1>4. g.tx = f.tx /\ TxHolds(f) => TxHolds(g)
  BY DEF TxHolds
<1> QED BY <1>1, <1>2, <1>3, <1>4

LEMMA FitsStays ==
  ASSUME pool' = pool, NEW f, QuoteFits(f)
  PROVE  QuoteFits(f)'
BY DEF QuoteFits, Trade!Venue, Trade!Fillable, Trade!Output, Trade!Complete, Trade!Consumed

(* A step of the trade that changes nothing else.                          *)
LEMMA FlowMoves ==
  ASSUME TradeInv, UNCHANGED <<pool, market, walletT, receiptT, moves>>,
         NEW g, flowT' = g, IsFlow(g), g.stage \in Trade!Stages, g.stage # "ran",
         FlowHolds(g, walletT, moves), FlowFits(g, moves)
  PROVE  TradeInv'
<1>1. /\ (pool \in [rate : Rates \cup {1}, reserve : 0..Threshold, migrated : BOOLEAN])'
      /\ (market \in Rates)' /\ (walletT \in Funded)' /\ (moves \in 0..MaxMoves)'
      /\ (receiptT \in Receipts)'
  BY DEF TradeInv
<1>2. IsFlow(flowT') /\ (flowT.stage \in Trade!Stages)' /\ FlowHolds(flowT', walletT', moves')
  BY DEF Trade!Stages
<1>3. FlowFits(flowT, moves)'
  <2>1. QuoteFits(g) => QuoteFits(g)'
    BY FitsStays
  <2> QED BY <2>1 DEF FlowFits
<1>4. FlowRan(flowT', walletT')
  BY DEF FlowRan
<1> QED BY <1>1, <1>2, <1>3, <1>4 DEF TradeInv

LEMMA TradeStops ==
  ASSUME TradeInv, UNCHANGED <<pool, market, walletT, receiptT, moves>>,
         NEW stage \in {"refused", "failed"}, flowT' = [flowT EXCEPT !.stage = stage]
  PROVE  TradeInv'
<1>1. PICK g : g = [flowT EXCEPT !.stage = stage]
  OBVIOUS
<1>2. IsFlow(g) /\ g.stage = stage
  BY <1>1 DEF TradeInv, IsFlow
<1>3. g.stage \notin Before /\ g.stage \in Trade!Stages /\ g.stage # "ran"
  BY <1>2 DEF Before, Trade!Stages
<1>4. FlowHolds(g, walletT, moves) /\ FlowFits(g, moves)
  BY <1>3 DEF FlowHolds, FlowFits
<1> QED BY <1>1, <1>2, <1>3, <1>4, FlowMoves

LEMMA TradeStarts == TradeInv /\ Trade!Start => TradeInv'
<1> SUFFICES ASSUME TradeInv, Trade!Start PROVE TradeInv'
  OBVIOUS
<1>1. PICK sell \in BOOLEAN, routed \in BOOLEAN, amount \in Amounts, tol \in Tolerances :
        flowT' = [Trade!NoTrade EXCEPT !.stage = IF routed /\ ~sell THEN "route" ELSE "pool",
                    !.request = [sell |-> sell, routed |-> routed, amount |-> amount, slip |-> tol],
                    !.seen = moves, !.start = walletT]
  BY DEF Trade!Start
<1>2. UNCHANGED <<pool, market, walletT, receiptT, moves>>
  BY DEF Trade!Start
<1>3. PICK g, r, stage :
        /\ g = flowT' /\ stage = (IF routed /\ ~sell THEN "route" ELSE "pool")
        /\ r = [sell |-> sell, routed |-> routed, amount |-> amount, slip |-> tol]
  OBVIOUS
<1>4. r \in TradeRequests /\ r.sell = sell /\ r.routed = routed
  BY <1>3 DEF TradeRequests
<1>5. g = [stage |-> stage, request |-> r, route |-> None, quote |-> None, tx |-> <<>>,
           seen |-> moves, start |-> walletT, ranOn |-> None]
  BY <1>1, <1>3 DEF Trade!NoTrade
<1>6. /\ IsFlow(g) /\ g.stage = stage /\ g.request = r /\ g.seen = moves /\ g.start = walletT
  BY <1>5 DEF IsFlow
<1>7. moves \in Nat /\ moves <= moves
  BY DEF TradeInv
<1>8. ~HasRoute(g) /\ ~HasQuote(g)
  BY <1>3, <1>4, <1>6 DEF HasRoute, HasQuote, Ready
<1>9. FlowHolds(g, walletT, moves) /\ FlowFits(g, moves)
  BY <1>3, <1>4, <1>6, <1>7, <1>8 DEF FlowHolds, FlowFits
<1>10. g.stage \in Trade!Stages /\ g.stage # "ran"
  BY <1>3, <1>6 DEF Trade!Stages
<1> QED BY <1>2, <1>3, <1>6, <1>9, <1>10, FlowMoves

(* The moves of the others.                                                *)
LEMMA OthersMove ==
  ASSUME TradeInv, UNCHANGED <<walletT, flowT>>, moves < MaxMoves, moves' = moves + 1,
         (pool \in [rate : Rates \cup {1}, reserve : 0..Threshold, migrated : BOOLEAN])',
         (market \in Rates)', (receiptT \in Receipts)'
  PROVE  TradeInv'
<1>1. moves \in Nat /\ moves' \in 0..MaxMoves
  BY TradeAssumption DEF TradeInv
<1>2. PICK f, w, n : f = flowT /\ w = walletT /\ n = moves
  OBVIOUS
<1>3. n \in Nat
  BY <1>1, <1>2
<1>4. FlowHolds(f, w, n) => FlowHolds(f, w, n + 1)
  <2>1. f.seen \in Nat /\ f.seen <= n => f.seen <= n + 1
    BY <1>3
  <2> QED BY <2>1 DEF FlowHolds
<1>5. FlowHolds(f, w, n) => ~(f.stage \in Before /\ f.seen = n + 1)
  <2>1. f.seen \in Nat /\ f.seen <= n => f.seen # n + 1
    BY <1>3
  <2> QED BY <2>1 DEF FlowHolds
<1>6. FlowHolds(f, w, n)
  BY <1>2 DEF TradeInv
<1>7. FlowFits(flowT, moves)'
  BY <1>2, <1>5, <1>6 DEF FlowFits
<1>8. /\ FlowHolds(flowT', walletT', moves') /\ FlowRan(flowT', walletT')
      /\ IsFlow(flowT') /\ (flowT.stage \in Trade!Stages)' /\ (walletT \in Funded)'
  BY <1>2, <1>4, <1>6 DEF TradeInv, Trade!Stages
<1> QED BY <1>1, <1>7, <1>8 DEF TradeInv

LEMMA ReceiptsAre ==
  ASSUME NEW n \in 1..2, NEW self \in BOOLEAN
  PROVE  Trade!Receipt(Trade!Venue, n, self) \in Receipts
<1>1. Trade!Venue \in {"dbc", "damm-v2"}
  BY DEF Trade!Venue
<1>2. PICK v \in {"dbc", "damm-v2"} : v = Trade!Venue
  BY <1>1
<1>3. Trade!Receipt(v, n, self) \in Receipts
  BY DEF Receipts
<1> QED BY <1>2, <1>3

LEMMA TradeTurns ==
  TradeInv /\ (Trade!OthersTrade \/ Trade!MarketMoves \/ Trade!Migrate) => TradeInv'
<1> SUFFICES ASSUME TradeInv, Trade!OthersTrade \/ Trade!MarketMoves \/ Trade!Migrate
             PROVE  TradeInv'
  OBVIOUS
<1>1. /\ moves < MaxMoves /\ moves' = moves + 1 /\ UNCHANGED <<walletT, flowT>>
  BY DEF Trade!OthersTrade, Trade!MarketMoves, Trade!Migrate, Trade!Moved
<1>2. pool \in [rate : Rates \cup {1}, reserve : 0..Threshold, migrated : BOOLEAN]
      /\ market \in Rates /\ receiptT \in Receipts
  BY DEF TradeInv
<1>3. CASE Trade!OthersTrade
  <2>1. PICK rate \in Rates, n \in 1..2, self \in BOOLEAN :
          /\ pool' = [pool EXCEPT !.rate = rate,
                        !.reserve = IF pool.migrated THEN @ ELSE Trade!Least(@ + n, Threshold)]
          /\ receiptT' = Trade!Receipt(Trade!Venue, n, self)
    BY <1>3 DEF Trade!OthersTrade
  <2>2. receiptT' \in Receipts
    BY <2>1, ReceiptsAre
  <2>3. PICK reserve :
          reserve = IF pool.migrated THEN pool.reserve ELSE Trade!Least(pool.reserve + n, Threshold)
    OBVIOUS
  <2>4. reserve \in 0..Threshold
    <3>1. pool.reserve \in 0..Threshold /\ Threshold \in Nat
      BY <1>2, TradeAssumption
    <3> QED BY <2>3, <3>1 DEF Trade!Least
  <2>5. pool' = [pool EXCEPT !.rate = rate, !.reserve = reserve]
    BY <2>1, <2>3
  <2>6. pool' \in [rate : Rates \cup {1}, reserve : 0..Threshold, migrated : BOOLEAN]
    BY <1>2, <2>4, <2>5
  <2>7. market' = market
    BY <1>3 DEF Trade!OthersTrade
  <2> QED BY <1>1, <1>2, <2>2, <2>6, <2>7, OthersMove DEF Receipts
<1>4. CASE Trade!MarketMoves
  <2>1. market' \in Rates /\ UNCHANGED <<pool, receiptT>>
    BY <1>4 DEF Trade!MarketMoves
  <2> QED BY <1>1, <1>2, <2>1, OthersMove
<1>5. CASE Trade!Migrate
  <2>1. pool' = [pool EXCEPT !.migrated = TRUE] /\ UNCHANGED <<market, receiptT>>
    BY <1>5 DEF Trade!Migrate
  <2>2. pool' \in [rate : Rates \cup {1}, reserve : 0..Threshold, migrated : BOOLEAN]
    BY <1>2, <2>1
  <2> QED BY <1>1, <1>2, <2>1, <2>2, OthersMove
<1> QED BY <1>3, <1>4, <1>5

(* A quote of the pool.                                                    *)
Quoted(quote, amount, sell) ==
  /\ quote.amount = amount /\ quote.min \in Nat /\ quote.venue = Trade!Venue
  /\ Trade!Fillable(amount, sell) /\ Trade!Output(amount, sell) >= quote.min

LEMMA QuoteOf ==
  ASSUME Priced, NEW amount \in Nat, NEW sell \in BOOLEAN, NEW slip \in 0..100,
         NEW quote, quote = Trade!QuoteSwap(amount, sell, slip), quote # None
  PROVE  Quoted(quote, amount, sell)
<1>1. PICK out, min : out = Trade!Output(amount, sell) /\ min = Trade!MinimumOf(out, slip)
  OBVIOUS
<1>2. out \in Nat
  BY <1>1, Amounted
<1>3. min \in Nat /\ min <= out
  BY <1>1, <1>2, MinimumIsLess
<1>4. /\ Trade!Fillable(amount, sell)
      /\ quote = [venue |-> Trade!Venue, amount |-> amount, out |-> out, min |-> min]
  BY <1>1 DEF Trade!QuoteSwap
<1> QED BY <1>1, <1>2, <1>3, <1>4 DEF Quoted

LEMMA TradeQuotes == TradeInv /\ Trade!QuotePool => TradeInv'
<1> SUFFICES ASSUME TradeInv, Trade!QuotePool PROVE TradeInv'
  OBVIOUS
<1>1. PICK f, r, amount, slip, quote :
        /\ f = flowT /\ r = f.request
        /\ amount = (IF r.routed /\ ~r.sell THEN f.route.min ELSE r.amount)
        /\ slip = (IF r.routed THEN r.slip \div 2 ELSE r.slip)
        /\ quote = Trade!QuoteSwap(amount, r.sell, slip)
  OBVIOUS
<1>2. /\ f.stage = "pool" /\ UNCHANGED <<pool, market, walletT, receiptT, moves>>
      /\ flowT' = IF quote = None THEN Trade!Refused
                  ELSE [f EXCEPT !.quote = quote,
                          !.stage = IF r.routed /\ r.sell THEN "route" ELSE "quoted"]
  BY <1>1 DEF Trade!QuotePool
<1>3. CASE quote = None
  <2>1. flowT' = [flowT EXCEPT !.stage = "refused"]
    BY <1>2, <1>3 DEF Trade!Refused
  <2> QED BY <1>2, <2>1, TradeStops
<1>4. CASE quote # None
  <2>1. IsFlow(f) /\ FlowHolds(f, walletT, moves)
    BY <1>1 DEF TradeInv
  <2>2. /\ r \in TradeRequests /\ f.start = walletT /\ f.seen \in Nat /\ f.seen <= moves
        /\ HasRoute(f) => RouteHolds(f)
    BY <1>1, <1>2, <2>1 DEF FlowHolds, Before
  <2>3. PICK sell \in BOOLEAN, routed \in BOOLEAN : r.sell = sell /\ r.routed = routed
    BY <2>2, RequestHas
  <2>4. slip \in 0..100 /\ r.amount \in Nat /\ r.slip \div 2 \in 0..100
    BY <1>1, <2>2, RequestHas
  <2>5. routed /\ ~sell => RouteHolds(f) /\ f.route.min \in Nat
    <3>1. SUFFICES ASSUME routed, ~sell PROVE RouteHolds(f) /\ f.route.min \in Nat
      OBVIOUS
    <3>2. RouteHolds(f)
      BY <1>1, <1>2, <2>2, <2>3, <3>1 DEF HasRoute
    <3>3. f.route.expected \in Nat /\ f.route.min = Trade!MinimumOf(f.route.expected, r.slip \div 2)
      BY <1>1, <3>2 DEF RouteHolds
    <3> QED BY <2>4, <3>2, <3>3, MinimumIsLess
  <2>6. amount \in Nat
    BY <1>1, <2>3, <2>4, <2>5
  <2>7. Quoted(quote, amount, sell)
    <3>1. quote = Trade!QuoteSwap(amount, sell, slip)
      BY <1>1, <2>3
    <3> QED BY <1>4, <2>4, <2>6, <3>1, TradePriced, QuoteOf
  <2>8. PICK g, stage :
          /\ stage = (IF r.routed /\ r.sell THEN "route" ELSE "quoted")
          /\ g = [f EXCEPT !.quote = quote, !.stage = stage]
    OBVIOUS
  <2>9. flowT' = g
    BY <1>2, <1>4, <2>8
  <2>10. /\ IsFlow(g) /\ g.stage = stage /\ g.request = r /\ g.route = f.route /\ g.quote = quote
         /\ g.seen = f.seen /\ g.start = f.start
    BY <1>1, <2>1, <2>8 DEF IsFlow
  <2>11. stage \in {"route", "quoted"} /\ (stage = "route" <=> routed /\ sell)
    BY <2>3, <2>8
  <2>12. HasRoute(g) => RouteHolds(g)
    <3>1. SUFFICES ASSUME HasRoute(g) PROVE RouteHolds(g)
      OBVIOUS
    <3>2. routed /\ ~sell
      BY <2>3, <2>10, <2>11, <3>1 DEF HasRoute, Ready
    <3> QED BY <1>1, <2>3, <2>5, <2>10, <3>2 DEF RouteHolds
  <2>13. QuoteHolds(g)
    BY <1>1, <2>6, <2>7, <2>10 DEF QuoteHolds, Quoted
  <2>14. QuoteFits(g)
    BY <1>1, <2>3, <2>7, <2>10 DEF QuoteFits, Quoted
  <2>15. FlowHolds(g, walletT, moves)
    BY <2>2, <2>3, <2>10, <2>11, <2>12, <2>13 DEF FlowHolds
  <2>16. FlowFits(g, moves)
    BY <2>14 DEF FlowFits
  <2>17. g.stage \in Trade!Stages /\ g.stage # "ran"
    BY <2>10, <2>11 DEF Trade!Stages
  <2> QED BY <1>2, <2>9, <2>10, <2>15, <2>16, <2>17, FlowMoves
<1> QED BY <1>3, <1>4

(* An answer of the provider and what it may differ in.                    *)
LEMMA AnswersHave ==
  ASSUME NEW q, NEW b, b = Trade!Answer(q), NEW a \in Trade!Answers(q)
  PROVE  /\ a.expected = b.expected /\ a.cleanup = b.cleanup
         /\ a.min \in {b.min, b.min - 1}
         /\ a.setup \in {b.setup, Append(b.setup, Trade!Op("wrap", 1)), <<>>}
<1>1. b = [in |-> b.in, out |-> b.out, amount |-> b.amount, slip |-> b.slip,
           expected |-> b.expected, min |-> b.min, swap |-> b.swap, setup |-> b.setup,
           cleanup |-> b.cleanup, others |-> b.others]
  BY DEF Trade!Answer
<1>2. a \in {b, [b EXCEPT !.in = q.out, !.out = q.in],
             [b EXCEPT !.amount = @ + 1, !.swap.amount = @ + 1],
             [b EXCEPT !.swap.amount = @ + 1],
             [b EXCEPT !.min = @ - 1],
             [b EXCEPT !.swap.slip = 100],
             [b EXCEPT !.swap.fee = 1],
             [b EXCEPT !.swap.to = "another"],
             [b EXCEPT !.setup = Append(@, Trade!Op("wrap", 1))],
             [b EXCEPT !.setup = <<>>],
             [b EXCEPT !.others = <<Trade!Op("tip", 1)>>]}
  BY DEF Trade!Answers
<1>3. CASE a = b
  BY <1>3
<1>4. CASE a = [b EXCEPT !.in = q.out, !.out = q.in]
  BY <1>1, <1>4
<1>5. CASE a = [b EXCEPT !.amount = @ + 1, !.swap.amount = @ + 1]
  BY <1>1, <1>5
<1>6. CASE a = [b EXCEPT !.swap.amount = @ + 1]
  BY <1>1, <1>6
<1>7. CASE a = [b EXCEPT !.min = @ - 1]
  BY <1>1, <1>7
<1>8. CASE a = [b EXCEPT !.swap.slip = 100]
  BY <1>1, <1>8
<1>9. CASE a = [b EXCEPT !.swap.fee = 1]
  BY <1>1, <1>9
<1>10. CASE a = [b EXCEPT !.swap.to = "another"]
  BY <1>1, <1>10
<1>11. CASE a = [b EXCEPT !.setup = Append(@, Trade!Op("wrap", 1))]
  BY <1>1, <1>11
<1>12. CASE a = [b EXCEPT !.setup = <<>>]
  BY <1>1, <1>12
<1>13. CASE a = [b EXCEPT !.others = <<Trade!Op("tip", 1)>>]
  BY <1>1, <1>13
<1> QED BY <1>2, <1>3, <1>4, <1>5, <1>6, <1>7, <1>8, <1>9, <1>10, <1>11, <1>12, <1>13

(* Sequences of two and three, by their parts.                             *)
LEMMA OneJoinsOne ==
  ASSUME NEW E, NEW a \in E, NEW b \in E
  PROVE  <<a>> \o <<b>> = <<a, b>>
<1>0. /\ <<a>> \in Seq(E) /\ Len(<<a>>) = 1 /\ <<a>>[1] = a
      /\ <<b>> \in Seq(E) /\ Len(<<b>>) = 1 /\ <<b>>[1] = b
  OBVIOUS
<1>1. PICK x, y : x = <<a>> /\ y = <<b>>
  OBVIOUS
<1>2. x \in Seq(E) /\ y \in Seq(E) /\ Len(x) = 1 /\ Len(y) = 1 /\ x[1] = a /\ y[1] = b
  BY <1>0, <1>1
<1>3. PICK z : z = x \o y
  OBVIOUS
<1>4. IsJoin(E, x, y, z)
  BY <1>2, <1>3, Joins
<1>5. z \in Seq(E) /\ Len(z) = 2 /\ z[1] = a /\ z[1 + 1] = b
  BY <1>2, <1>4 DEF IsJoin
<1>6. <<a, b>> \in Seq(E) /\ Len(<<a, b>>) = 2 /\ <<a, b>>[1] = a /\ <<a, b>>[2] = b
  OBVIOUS
<1>7. \A u, v \in Seq(E) : Len(u) = 2 /\ Len(v) = 2 /\ u[1] = v[1] /\ u[2] = v[2] => u = v
  OBVIOUS
<1>8. z = <<a, b>>
  BY <1>5, <1>6, <1>7
<1> QED BY <1>1, <1>3, <1>8

LEMMA AppendTwo ==
  ASSUME NEW E, NEW a \in E, NEW b \in E, NEW c \in E
  PROVE  Append(<<a, b>>, c) = <<a, b, c>>
<1>1. <<a, b>> \in Seq(E) /\ Len(<<a, b>>) = 2 /\ <<a, b>>[1] = a /\ <<a, b>>[2] = b
  OBVIOUS
<1>2. PICK s : s = <<a, b>>
  OBVIOUS
<1>3. /\ Len(Append(s, c)) = 3 /\ Append(s, c)[1] = a /\ Append(s, c)[2] = b
      /\ Append(s, c)[3] = c /\ Append(s, c) \in Seq(E)
  BY <1>1, <1>2
<1>4. /\ <<a, b, c>> \in Seq(E) /\ Len(<<a, b, c>>) = 3
      /\ <<a, b, c>>[1] = a /\ <<a, b, c>>[2] = b /\ <<a, b, c>>[3] = c
  OBVIOUS
<1>5. \A x, y \in Seq(E) :
        Len(x) = 3 /\ Len(y) = 3 /\ x[1] = y[1] /\ x[2] = y[2] /\ x[3] = y[3] => x = y
  OBVIOUS
<1> QED BY <1>2, <1>3, <1>4, <1>5

LEMMA AcceptedBuy ==
  ASSUME Priced, NEW r \in TradeRequests, NEW sell \in BOOLEAN, ~sell, r.sell = sell,
         NEW n \in Nat, NEW q, q = Trade!Asked(r, n), NEW a \in Trade!Answers(q),
         Trade!ValidateJupiterRoute(a, q)
  PROVE  /\ a.amount = n /\ a.expected \in Nat
         /\ a.min = Trade!MinimumOf(a.expected, r.slip \div 2)
         /\ a.swap = Converts("USDC", "SOL", n, a.expected, r.slip \div 2)
         /\ a.setup \in {<<>>, <<Opens>>} /\ a.cleanup = <<Closes>>
<1>1. PICK slip \in 0..100 : slip = r.slip \div 2
  BY RequestHas
<1>2. q = [in |-> "USDC", out |-> "SOL", amount |-> n, slip |-> slip]
  BY <1>1 DEF Trade!Asked
<1>3. PICK b : b = Trade!Answer(q)
  OBVIOUS
<1>4. /\ b.expected = n * market /\ b.min = Trade!MinimumOf(b.expected, slip)
      /\ b.cleanup = <<Closes>>
  BY <1>2, <1>3 DEF Trade!Answer, Trade!RouteOut, Closes
<1>5. b.setup = <<Opens>>
  <2>1. b.setup = <<Opens>> \o <<>>
    BY <1>2, <1>3 DEF Trade!Answer, Opens
  <2> QED BY <2>1, ConcatEmptySeq
<1>6. b.expected \in Nat /\ b.min \in Nat
  <2>1. n * market \in Nat
    BY DEF Priced
  <2> QED BY <1>4, <2>1, MinimumIsLess
<1>7. /\ a.expected = b.expected /\ a.cleanup = b.cleanup /\ a.min \in {b.min, b.min - 1}
      /\ a.setup \in {b.setup, Append(b.setup, Trade!Op("wrap", 1)), <<>>}
  BY <1>3, AnswersHave
<1>8. /\ a.amount = n /\ a.min >= Trade!MinimumOf(a.expected, slip)
      /\ a.swap = Converts("USDC", "SOL", n, a.expected, slip)
      /\ \A i \in DOMAIN a.setup : a.setup[i].op = "wrap" => "USDC" = "SOL"
  BY <1>2 DEF Trade!ValidateJupiterRoute, Converts
<1>9. a.min = Trade!MinimumOf(a.expected, slip)
  <2>1. a.min >= b.min
    BY <1>4, <1>7, <1>8
  <2> QED BY <1>4, <1>6, <1>7, <2>1
<1>10. a.setup # Append(b.setup, Trade!Op("wrap", 1))
  <2>1. SUFFICES ASSUME a.setup = Append(b.setup, Trade!Op("wrap", 1)) PROVE FALSE
    OBVIOUS
  <2>2. a.setup = <<Opens, Wraps(1)>>
    <3>1. PICK E, o, w : E = {o, w} /\ o = Opens /\ w = Wraps(1)
      OBVIOUS
    <3>2. Append(<<o>>, w) = <<o, w>>
      <4>1. o \in E /\ w \in E
        BY <3>1
      <4> QED BY <4>1, AppendOne
    <3> QED BY <1>5, <2>1, <3>1, <3>2 DEF Wraps
  <2>3. 2 \in DOMAIN a.setup /\ a.setup[2] = Wraps(1)
    BY <2>2
  <2>4. Wraps(1).op = "wrap"
    BY DEF Wraps, Trade!Op
  <2> QED BY <1>8, <2>3, <2>4
<1> QED BY <1>1, <1>4, <1>5, <1>6, <1>7, <1>8, <1>9, <1>10

LEMMA AcceptedSell ==
  ASSUME Priced, NEW r \in TradeRequests, NEW sell \in BOOLEAN, IsSell(sell), r.sell = sell,
         NEW n \in Nat, NEW q, q = Trade!Asked(r, n), NEW a \in Trade!Answers(q),
         Trade!ValidateJupiterRoute(a, q)
  PROVE  /\ a.amount = n /\ a.expected \in Nat
         /\ a.min = Trade!MinimumOf(a.expected, r.slip \div 2)
         /\ a.swap = Converts("SOL", "USDC", n, a.expected, r.slip \div 2)
         /\ a.setup \in {<<>>, <<Opens, Wraps(n)>>, <<Opens, Wraps(n), Wraps(1)>>}
         /\ a.cleanup = <<Closes>>
<1>1. PICK slip \in 0..100 : slip = r.slip \div 2
  BY RequestHas
<1>2. q = [in |-> "SOL", out |-> "USDC", amount |-> n, slip |-> slip]
  BY <1>1 DEF Trade!Asked, IsSell
<1>3. PICK b : b = Trade!Answer(q)
  OBVIOUS
<1>4. /\ b.expected = n \div market /\ b.min = Trade!MinimumOf(b.expected, slip)
      /\ b.cleanup = <<Closes>>
  BY <1>2, <1>3 DEF Trade!Answer, Trade!RouteOut, Closes
<1>5. b.setup = <<Opens, Wraps(n)>>
  <2>1. b.setup = <<Opens>> \o <<Wraps(n)>>
    BY <1>2, <1>3 DEF Trade!Answer, Opens, Wraps
  <2>2. PICK E, o, w : E = {o, w} /\ o = Opens /\ w = Wraps(n)
    OBVIOUS
  <2>3. <<o>> \o <<w>> = <<o, w>>
    <3>1. o \in E /\ w \in E
      BY <2>2
    <3> QED BY <3>1, OneJoinsOne
  <2> QED BY <2>1, <2>2, <2>3
<1>6. b.expected \in Nat /\ b.min \in Nat
  <2>1. n \div market \in Nat
    BY Quotient DEF Priced
  <2> QED BY <1>4, <2>1, MinimumIsLess
<1>7. /\ a.expected = b.expected /\ a.cleanup = b.cleanup /\ a.min \in {b.min, b.min - 1}
      /\ a.setup \in {b.setup, Append(b.setup, Trade!Op("wrap", 1)), <<>>}
  BY <1>3, AnswersHave
<1>8. /\ a.amount = n /\ a.min >= Trade!MinimumOf(a.expected, slip)
      /\ a.swap = Converts("SOL", "USDC", n, a.expected, slip)
  BY <1>2 DEF Trade!ValidateJupiterRoute, Converts
<1>9. a.min = Trade!MinimumOf(a.expected, slip)
  <2>1. a.min >= b.min
    BY <1>4, <1>7, <1>8
  <2> QED BY <1>4, <1>6, <1>7, <2>1
<1>10. Append(b.setup, Trade!Op("wrap", 1)) = <<Opens, Wraps(n), Wraps(1)>>
  <2>1. PICK E, o, w, x : E = {o, w, x} /\ o = Opens /\ w = Wraps(n) /\ x = Wraps(1)
    OBVIOUS
  <2>2. Append(<<o, w>>, x) = <<o, w, x>>
    <3>1. o \in E /\ w \in E /\ x \in E
      BY <2>1
    <3> QED BY <3>1, AppendTwo
  <2> QED BY <1>5, <2>1, <2>2 DEF Wraps
<1> QED BY <1>1, <1>4, <1>5, <1>6, <1>7, <1>8, <1>9, <1>10

LEMMA TradeRoutes == TradeInv /\ Trade!JupiterRoute => TradeInv'
<1> SUFFICES ASSUME TradeInv, Trade!JupiterRoute PROVE TradeInv'
  OBVIOUS
<1>1. PICK f, r, n, q :
        /\ f = flowT /\ r = f.request /\ n = (IF r.sell THEN f.quote.min ELSE r.amount)
        /\ q = Trade!Asked(r, n)
  OBVIOUS
<1>2. PICK a \in Trade!Answers(q) :
        flowT' = IF ~Trade!ValidateJupiterRoute(a, q) THEN Trade!Refused
                 ELSE [f EXCEPT !.route = a, !.stage = IF r.sell THEN "quoted" ELSE "pool"]
  BY <1>1 DEF Trade!JupiterRoute
<1>3. f.stage = "route" /\ UNCHANGED <<pool, market, walletT, receiptT, moves>>
  BY <1>1 DEF Trade!JupiterRoute
<1>4. CASE ~Trade!ValidateJupiterRoute(a, q)
  <2>1. flowT' = [flowT EXCEPT !.stage = "refused"]
    BY <1>2, <1>4 DEF Trade!Refused
  <2> QED BY <1>3, <2>1, TradeStops
<1>5. CASE Trade!ValidateJupiterRoute(a, q)
  <2>1. IsFlow(f) /\ FlowHolds(f, walletT, moves) /\ FlowFits(f, moves)
    BY <1>1 DEF TradeInv
  <2>2. /\ r \in TradeRequests /\ f.start = walletT /\ f.seen \in Nat /\ f.seen <= moves
        /\ HasQuote(f) => QuoteHolds(f)
        /\ r.routed
    BY <1>1, <1>3, <2>1 DEF FlowHolds, Before
  <2>3. PICK sell \in BOOLEAN : r.sell = sell
    BY <2>2, RequestHas
  <2>4. sell => QuoteHolds(f)
    BY <1>1, <1>3, <2>2, <2>3 DEF HasQuote
  <2>5. sell /\ f.seen = moves => QuoteFits(f)
    BY <1>1, <1>3, <2>1, <2>3 DEF HasQuote, FlowFits, Before
  <2>6. n \in Nat
    BY <1>1, <2>2, <2>3, <2>4, RequestHas DEF QuoteHolds
  <2>7. PICK g, stage :
          /\ stage = (IF r.sell THEN "quoted" ELSE "pool")
          /\ g = [f EXCEPT !.route = a, !.stage = stage]
    OBVIOUS
  <2>8. flowT' = g
    BY <1>2, <1>5, <2>7
  <2>9. /\ IsFlow(g) /\ g.stage = stage /\ g.request = r /\ g.route = a /\ g.quote = f.quote
        /\ g.seen = f.seen /\ g.start = f.start
    BY <1>1, <2>1, <2>7 DEF IsFlow
  <2>10. stage \in {"quoted", "pool"} /\ (stage = "quoted" <=> sell)
    BY <2>3, <2>7
  <2>11. RouteHolds(g)
    <3>1. CASE ~sell
      <4>1. /\ a.amount = n /\ a.expected \in Nat
            /\ a.min = Trade!MinimumOf(a.expected, r.slip \div 2)
            /\ a.swap = Converts("USDC", "SOL", n, a.expected, r.slip \div 2)
            /\ a.setup \in {<<>>, <<Opens>>} /\ a.cleanup = <<Closes>>
        BY <1>1, <1>5, <2>2, <2>3, <2>6, <3>1, TradePriced, AcceptedBuy
      <4>2. ~r.sell /\ n = r.amount
        BY <1>1, <2>3, <3>1
      <4> QED BY <2>9, <4>1, <4>2 DEF RouteHolds
    <3>2. CASE sell
      <4>1. IsSell(sell)
        BY <3>2 DEF IsSell
      <4>2. /\ a.amount = n /\ a.expected \in Nat
            /\ a.min = Trade!MinimumOf(a.expected, r.slip \div 2)
            /\ a.swap = Converts("SOL", "USDC", n, a.expected, r.slip \div 2)
            /\ a.setup \in {<<>>, <<Opens, Wraps(n)>>, <<Opens, Wraps(n), Wraps(1)>>}
            /\ a.cleanup = <<Closes>>
        BY <1>1, <1>5, <2>2, <2>3, <2>6, <4>1, TradePriced, AcceptedSell
      <4>3. r.sell /\ n = f.quote.min
        BY <1>1, <2>3, <3>2
      <4> QED BY <2>9, <4>2, <4>3 DEF RouteHolds
    <3> QED BY <3>1, <3>2
  <2>12. HasQuote(g) => sell
    BY <2>9, <2>10 DEF HasQuote, Ready
  <2>13. sell => QuoteHolds(g)
    BY <1>1, <2>3, <2>4, <2>9 DEF QuoteHolds
  <2>14. sell /\ g.seen = moves => QuoteFits(g)
    BY <1>1, <2>5, <2>9 DEF QuoteFits
  <2>15. FlowHolds(g, walletT, moves)
    BY <2>2, <2>9, <2>10, <2>11, <2>12, <2>13 DEF FlowHolds
  <2>16. FlowFits(g, moves)
    BY <2>12, <2>14 DEF FlowFits
  <2>17. g.stage \in Trade!Stages /\ g.stage # "ran"
    BY <2>9, <2>10 DEF Trade!Stages
  <2> QED BY <1>3, <2>8, <2>9, <2>15, <2>16, <2>17, FlowMoves
<1> QED BY <1>4, <1>5

LEMMA TradeBuilds == TradeInv /\ Trade!Build => TradeInv'
<1> SUFFICES ASSUME TradeInv, Trade!Build PROVE TradeInv'
  OBVIOUS
<1>1. PICK f, r, ops :
        f = flowT /\ r = f.request /\ ops = Trade!BuildSwap(f.quote, r.sell)
  OBVIOUS
<1>2. /\ f.stage = "quoted" /\ UNCHANGED <<pool, market, walletT, receiptT, moves>>
      /\ flowT' = IF ~Trade!SameVenue(f.quote) THEN Trade!Refused
                  ELSE IF r.routed
                    THEN [f EXCEPT !.tx = Trade!Compose(r, f.route, ops), !.stage = "simulate"]
                  ELSE [f EXCEPT !.tx = ops, !.stage = "prepared"]
  BY <1>1 DEF Trade!Build
<1>3. CASE ~Trade!SameVenue(f.quote)
  <2>1. flowT' = [flowT EXCEPT !.stage = "refused"]
    BY <1>2, <1>3 DEF Trade!Refused
  <2> QED BY <1>2, <2>1, TradeStops
<1>4. CASE Trade!SameVenue(f.quote)
  <2>1. IsFlow(f) /\ FlowHolds(f, walletT, moves) /\ FlowFits(f, moves)
    BY <1>1 DEF TradeInv
  <2>2. HasQuote(f) /\ (HasRoute(f) <=> r.routed) /\ f.stage \in Before
    BY <1>1, <1>2 DEF HasQuote, HasRoute, Ready, Before
  <2>3. /\ r \in TradeRequests /\ f.start = walletT /\ f.seen \in Nat /\ f.seen <= moves
        /\ QuoteHolds(f) /\ (r.routed => RouteHolds(f))
    BY <1>1, <2>1, <2>2 DEF FlowHolds
  <2>4. f.seen = moves => QuoteFits(f)
    BY <2>1, <2>2 DEF FlowFits
  <2>5. ops = SwapOps(f.quote, r.sell)
    BY <1>1, <1>4 DEF Trade!BuildSwap, Trade!SameVenue, SwapOps, Swaps, Opens, Wraps, Closes
  <2>6. PICK routed \in BOOLEAN : r.routed = routed
    BY <2>3, RequestHas
  <2>7. PICK g, tx, stage :
          /\ tx = (IF r.routed THEN Trade!Compose(r, f.route, ops) ELSE ops)
          /\ stage = (IF r.routed THEN "simulate" ELSE "prepared")
          /\ g = [f EXCEPT !.tx = tx, !.stage = stage]
    OBVIOUS
  <2>8. flowT' = g
    BY <1>2, <1>4, <2>6, <2>7
  <2>9. /\ IsFlow(g) /\ g.stage = stage /\ g.request = r /\ g.route = f.route
        /\ g.quote = f.quote /\ g.tx = tx /\ g.seen = f.seen /\ g.start = f.start
    BY <1>1, <2>1, <2>7 DEF IsFlow
  <2>10. stage \in {"simulate", "prepared"} /\ (stage = "simulate" => r.routed)
    BY <2>6, <2>7
  <2>11. TxHolds(g)
    BY <2>5, <2>7, <2>9 DEF TxHolds
  <2>12. QuoteHolds(g) /\ (r.routed => RouteHolds(g)) /\ (f.seen = moves => QuoteFits(g))
    BY <1>1, <2>3, <2>4, <2>9, SameParts
  <2>13. FlowHolds(g, walletT, moves)
    BY <2>3, <2>9, <2>10, <2>11, <2>12 DEF FlowHolds, HasRoute
  <2>14. FlowFits(g, moves)
    BY <2>9, <2>12 DEF FlowFits
  <2>15. g.stage \in Trade!Stages /\ g.stage # "ran"
    BY <2>9, <2>10 DEF Trade!Stages
  <2> QED BY <1>2, <2>8, <2>9, <2>13, <2>14, <2>15, FlowMoves
<1> QED BY <1>3, <1>4

LEMMA TradeSimulates == TradeInv /\ Trade!Simulate => TradeInv'
<1> SUFFICES ASSUME TradeInv, Trade!Simulate PROVE TradeInv'
  OBVIOUS
<1>1. PICK f : f = flowT
  OBVIOUS
<1>2. /\ f.stage = "simulate" /\ UNCHANGED <<pool, market, walletT, receiptT, moves>>
      /\ \/ flowT' = [f EXCEPT !.stage = "prepared"]
         \/ flowT' = [flowT EXCEPT !.stage = "refused"]
  BY <1>1 DEF Trade!Simulate, Trade!Refused
<1>3. CASE flowT' = [flowT EXCEPT !.stage = "refused"]
  BY <1>2, <1>3, TradeStops
<1>4. CASE flowT' = [f EXCEPT !.stage = "prepared"]
  <2>1. IsFlow(f) /\ FlowHolds(f, walletT, moves) /\ FlowFits(f, moves)
    BY <1>1 DEF TradeInv
  <2>2. HasQuote(f) /\ (HasRoute(f) <=> f.request.routed) /\ f.stage \in Before
    BY <1>2 DEF HasQuote, HasRoute, Ready, Before
  <2>3. /\ f.request \in TradeRequests /\ f.start = walletT /\ f.seen \in Nat /\ f.seen <= moves
        /\ QuoteHolds(f) /\ (f.request.routed => RouteHolds(f)) /\ TxHolds(f)
    BY <1>2, <2>1, <2>2 DEF FlowHolds
  <2>4. f.seen = moves => QuoteFits(f)
    BY <2>1, <2>2 DEF FlowFits
  <2>5. PICK g : g = [f EXCEPT !.stage = "prepared"]
    OBVIOUS
  <2>6. /\ IsFlow(g) /\ g.stage = "prepared" /\ g.request = f.request /\ g.route = f.route
        /\ g.quote = f.quote /\ g.tx = f.tx /\ g.seen = f.seen /\ g.start = f.start
    BY <2>1, <2>5 DEF IsFlow
  <2>7. /\ QuoteHolds(g) /\ (f.request.routed => RouteHolds(g)) /\ TxHolds(g)
        /\ f.seen = moves => QuoteFits(g)
    BY <2>3, <2>4, <2>6, SameParts
  <2>8. FlowHolds(g, walletT, moves)
    BY <2>3, <2>6, <2>7 DEF FlowHolds, HasRoute
  <2>9. FlowFits(g, moves)
    BY <2>6, <2>7 DEF FlowFits
  <2>10. g.stage \in Trade!Stages /\ g.stage # "ran"
    BY <2>6 DEF Trade!Stages
  <2> QED BY <1>2, <1>4, <2>5, <2>6, <2>8, <2>9, <2>10, FlowMoves
<1> QED BY <1>2, <1>3, <1>4

(* A trade that is signed is what was quoted.                              *)
LEMMA PreparedSettles ==
  ASSUME TradeInv, NEW f, f = flowT, f.stage \in {"simulate", "prepared"},
         NEW t, t = Trade!Result(f.tx)
  PROVE  /\ f.request \in TradeRequests /\ f.start = walletT
         /\ t.ok => Settles(f, t)
         /\ f.seen = moves => QuoteFits(f)
         /\ Undisturbed(f) => t.ok
<1>1. FlowHolds(f, walletT, moves) /\ FlowFits(f, moves)
  BY DEF TradeInv
<1>2. HasQuote(f) /\ (HasRoute(f) <=> f.request.routed) /\ f.stage \in Before
  BY DEF HasQuote, HasRoute, Ready, Before
<1>3. /\ f.request \in TradeRequests /\ f.start = walletT
      /\ QuoteHolds(f) /\ (f.request.routed => RouteHolds(f)) /\ TxHolds(f)
  BY <1>1, <1>2 DEF FlowHolds
<1>4. f.seen = moves => QuoteFits(f)
  BY <1>1, <1>2 DEF FlowFits
<1>5. Priced /\ walletT \in Funded
  BY TradePriced DEF TradeInv
<1>6. (t.ok => Settles(f, t)) /\ (Undisturbed(f) => t.ok)
  BY <1>3, <1>5, TradeSettles
<1> QED BY <1>3, <1>4, <1>6

LEMMA TradeRuns == TradeInv /\ Trade!Run => TradeInv'
<1> SUFFICES ASSUME TradeInv, Trade!Run PROVE TradeInv'
  OBVIOUS
<1>1. PICK f, t : f = flowT /\ t = Trade!Result(f.tx)
  OBVIOUS
<1>2. /\ f.stage = "prepared" /\ UNCHANGED <<market, moves>>
      /\ IF t.ok
           THEN /\ walletT' = t.wallet /\ pool' = t.pool
                /\ flowT' = [f EXCEPT !.stage = "ran", !.ranOn = Trade!Venue]
                /\ receiptT' = Trade!Receipt(Trade!Venue, 1, TRUE)
           ELSE /\ flowT' = [f EXCEPT !.stage = "failed"]
                /\ UNCHANGED <<walletT, pool, receiptT>>
  BY <1>1 DEF Trade!Run
<1>3. CASE ~t.ok
  <2>1. flowT' = [flowT EXCEPT !.stage = "failed"]
        /\ UNCHANGED <<pool, market, walletT, receiptT, moves>>
    BY <1>1, <1>2, <1>3
  <2> QED BY <2>1, TradeStops
<1>4. CASE t.ok
  <2>1. f.start = walletT /\ Settles(f, t)
    BY <1>1, <1>2, <1>4, PreparedSettles
  <2>2. /\ t.wallet \in Funded /\ t.pool \in PoolState
        /\ t.pool.rate = pool.rate /\ t.pool.migrated = pool.migrated
        /\ t.pool.reserve \in 0..Threshold
        /\ f.quote.venue = Trade!Venue
        /\ PaysShown(t, Trade!InputOf(f.request), f.request.amount, Trade!OutputOf(f.request),
                Trade!ShownMinimum(f))
    BY <2>1 DEF Settles, Left
  <2>3. pool' \in [rate : Rates \cup {1}, reserve : 0..Threshold, migrated : BOOLEAN]
    <3>1. t.pool = [rate |-> t.pool.rate, reserve |-> t.pool.reserve, migrated |-> t.pool.migrated]
      BY <2>2 DEF PoolState
    <3>2. pool.rate \in Rates \cup {1} /\ pool.migrated \in BOOLEAN
      BY DEF TradeInv
    <3>3. /\ t.pool.rate \in Rates \cup {1} /\ t.pool.migrated \in BOOLEAN
          /\ t.pool.reserve \in 0..Threshold
      BY <2>2, <3>2
    <3> QED BY <1>2, <1>4, <3>1, <3>3
  <2>4. receiptT' \in Receipts
    <3>1. Trade!Receipt(Trade!Venue, 1, TRUE) \in Receipts
      <4>1. 1 \in 1..2 /\ TRUE \in BOOLEAN
        OBVIOUS
      <4> QED BY <4>1, ReceiptsAre, Zenon
    <3> QED BY <1>2, <1>4, <3>1
  <2>5. PICK g, venue : venue = Trade!Venue /\ g = [f EXCEPT !.stage = "ran", !.ranOn = venue]
    OBVIOUS
  <2>6. flowT' = g /\ walletT' = t.wallet
    BY <1>2, <1>4, <2>5
  <2>7. IsFlow(f)
    BY <1>1 DEF TradeInv
  <2>8. /\ IsFlow(g) /\ g.stage = "ran" /\ g.request = f.request /\ g.route = f.route
        /\ g.quote = f.quote /\ g.start = f.start /\ g.ranOn = venue
    BY <2>5, <2>7 DEF IsFlow
  <2>9. FlowRan(g, t.wallet)
    <3>1. Trade!ShownMinimum(g) = Trade!ShownMinimum(f)
      BY <2>8 DEF Trade!ShownMinimum
    <3>2. /\ \A a \in Trade!Assets :
               Trade!Held(t.wallet, a)
                 + (IF a = Trade!InputOf(f.request) THEN f.request.amount ELSE 0)
                   >= Trade!Held(walletT, a)
          /\ Trade!Held(t.wallet, Trade!OutputOf(f.request))
               >= Trade!Held(walletT, Trade!OutputOf(f.request)) + Trade!ShownMinimum(f)
      BY <2>2 DEF PaysShown
    <3> QED BY <2>1, <2>2, <2>5, <2>8, <3>1, <3>2 DEF FlowRan
  <2>10. g.stage \notin Before /\ g.stage \in Trade!Stages
    BY <2>8 DEF Before, Trade!Stages
  <2>11. FlowHolds(flowT', walletT', moves') /\ FlowFits(flowT, moves)'
    BY <2>6, <2>10 DEF FlowHolds, FlowFits
  <2>12. (market \in Rates)' /\ (moves \in 0..MaxMoves)' /\ (walletT \in Funded)'
    BY <1>2, <2>2, <2>6 DEF TradeInv
  <2>13. IsFlow(flowT') /\ (flowT.stage \in Trade!Stages)' /\ FlowRan(flowT', walletT')
    BY <2>6, <2>8, <2>9, <2>10 DEF Trade!Stages
  <2> QED BY <2>3, <2>4, <2>11, <2>12, <2>13 DEF TradeInv
<1> QED BY <1>3, <1>4

LEMMA TradeStep == TradeInv /\ [Trade!Next]_tradeVars => TradeInv'
<1> SUFFICES ASSUME TradeInv, [Trade!Next]_tradeVars PROVE TradeInv'
  OBVIOUS
<1>1. CASE UNCHANGED tradeVars
  <2>1. UNCHANGED <<pool, market, walletT, receiptT, moves>> /\ flowT' = flowT
    BY <1>1 DEF tradeVars
  <2>2. /\ IsFlow(flowT') /\ FlowHolds(flowT', walletT', moves') /\ FlowRan(flowT', walletT')
        /\ (flowT.stage \in Trade!Stages)'
    BY <2>1 DEF TradeInv, Trade!Stages
  <2>3. /\ (pool \in [rate : Rates \cup {1}, reserve : 0..Threshold, migrated : BOOLEAN])'
        /\ (market \in Rates)' /\ (walletT \in Funded)' /\ (moves \in 0..MaxMoves)'
        /\ (receiptT \in Receipts)'
    BY <2>1 DEF TradeInv
  <2>4. FlowFits(flowT, moves)'
    <3>1. PICK f : f = flowT
      OBVIOUS
    <3>2. QuoteFits(f) => QuoteFits(f)'
      BY <2>1, FitsStays
    <3>3. FlowFits(f, moves)
      BY <3>1 DEF TradeInv
    <3> QED BY <2>1, <3>1, <3>2, <3>3 DEF FlowFits
  <2> QED BY <2>2, <2>3, <2>4 DEF TradeInv
<1> QED BY <1>1, TradeStarts, TradeQuotes, TradeRoutes, TradeBuilds, TradeSimulates, TradeRuns,
           TradeTurns DEF Trade!Next

LEMMA TradeKeepsPromises ==
  TradeInv => /\ Trade!TypeOK /\ Trade!WithinReview /\ Trade!RunsWhereShown
              /\ Trade!QuietTradeRuns /\ Trade!EachSwapCountedOnce
<1> SUFFICES ASSUME TradeInv
             PROVE  /\ Trade!TypeOK /\ Trade!WithinReview /\ Trade!RunsWhereShown
                    /\ Trade!QuietTradeRuns /\ Trade!EachSwapCountedOnce
  OBVIOUS
<1>1. Trade!TypeOK
  <2>1. \A a \in DOMAIN walletT.has : walletT.has[a] \in Nat
    <3>1. walletT.has \in [Purse -> Nat]
      BY DEF TradeInv, Funded
    <3> HIDE DEF Purse
    <3> QED BY <3>1
  <2>2. receiptT.swaps \in 0..2
    <3>1. CASE receiptT = [inner |-> <<>>, logs |-> <<>>, swaps |-> 0]
      BY <3>1
    <3>2. ASSUME NEW v \in {"dbc", "damm-v2"}, NEW n \in 1..2, NEW self \in BOOLEAN,
                 receiptT = Trade!Receipt(v, n, self)
          PROVE  receiptT.swaps \in 0..2
      <4>1. receiptT.swaps = n
        BY <3>2 DEF Trade!Receipt
      <4> QED BY <4>1
    <3> QED BY <3>1, <3>2 DEF TradeInv, Receipts
  <2> QED BY <2>1, <2>2 DEF TradeInv, Trade!TypeOK
<1>2. Trade!WithinReview /\ Trade!RunsWhereShown
  BY DEF TradeInv, FlowRan, Trade!WithinReview, Trade!RunsWhereShown
<1>3. Trade!QuietTradeRuns
  <2>1. PICK f : f = flowT
    OBVIOUS
  <2> SUFFICES ASSUME f.stage \in {"simulate", "prepared"}, moves = f.seen,
                      walletT.has[Trade!InputOf(f.request)] >= f.request.amount,
                      f.request.routed =>
                        f.route = Trade!Answer(Trade!Asked(f.request, f.route.amount))
               PROVE  Trade!Result(f.tx).ok
    BY <2>1 DEF Trade!QuietTradeRuns
  <2>2. PICK t : t = Trade!Result(f.tx)
    OBVIOUS
  <2>3. (f.seen = moves => QuoteFits(f)) /\ (Undisturbed(f) => t.ok)
    BY <2>1, <2>2, PreparedSettles
  <2>4. Undisturbed(f)
    BY <2>3 DEF Undisturbed
  <2> QED BY <2>2, <2>3, <2>4
<1>4. Trade!EachSwapCountedOnce
  BY SwapsCountOnce DEF TradeInv
<1> QED BY <1>1, <1>2, <1>3, <1>4

-----------------------------------------------------------------------------
(* The registry and the bindings *)

TradeProofs ==
  INSTANCE LaunchRegistryProofs WITH
    Launches <- {}, Trades <- {t1}, Conversions <- {}, tickerOf <- << >>,
    HistoryLags <- TRUE, Forks <- TRUE, MaxHeight <- 2,
    tokens <- tokensW, claims <- claimsW, launching <- launchingW,
    intents <- intentsW, message <- messageW, signature <- signatureW,
    validThrough <- validThroughW, worker <- workerW, releasing <- releasingW,
    height <- heightW, sent <- sentW, landed <- landedW, crashes <- crashesW

ConversionProofs ==
  INSTANCE LaunchRegistryProofs WITH
    Launches <- {}, Trades <- {}, Conversions <- {c1}, tickerOf <- << >>,
    HistoryLags <- TRUE, Forks <- TRUE, MaxHeight <- 2,
    tokens <- tokensW, claims <- claimsW, launching <- launchingW,
    intents <- intentsW, message <- messageW, signature <- signatureW,
    validThrough <- validThroughW, worker <- workerW, releasing <- releasingW,
    height <- heightW, sent <- sentW, landed <- landedW, crashes <- crashesW

BindingProofs ==
  INSTANCE FeeClaimsProofs WITH
    Challenges <- {c1}, XIds <- {x1, x2}, Wallets <- {a1, a2}, Posts <- {t1},
    MaxIntents <- 1, Amounts <- {1}, MaxEntitled <- 1, MaxEpoch <- 1,
    ChallengeLife <- 1, BlockhashLife <- 1, MaxTime <- 1,
    worker <- workerB, sent <- sentB, landed <- landedB

-----------------------------------------------------------------------------
(* The wires of a trade *)

LEMMA TradeWiresAssumption ==
  /\ {} \cap ({t1} \cup {}) = {} /\ {t1} \cap {} = {}
  /\ << >> \in [{} -> Tickers]
  /\ None \notin TradeProofs!Intents \cup TradeProofs!Wire
  /\ TRUE \in BOOLEAN /\ TRUE \in BOOLEAN
  /\ Validity \in Nat /\ 2 \in Nat /\ MaxCrashes \in Nat
BY ServerAssumption, RegistryAssumption
DEF TradeProofs!Wire, TradeProofs!Intents, Wire

LEMMA TradeWiresInit == TradeWires!Init => TradeProofs!WireInv
<1>1. TradeWires!Init => TradeProofs!Init
  BY DEF TradeWires!Init, TradeProofs!Init, TradeWires!Intents, TradeProofs!Intents
<1>2. TradeProofs!Init => TradeProofs!WireInv
  BY TradeWiresAssumption, TradeProofs!WireInit
<1>. QED  BY <1>1, <1>2

(* Both instances have the same actions: one word after the other.         *)
LEMMA TradeWiresSame == TradeWires!Next => TradeProofs!Next
BY Zenon DEF
  TradeWires!Intents, TradeProofs!Intents, TradeWires!Wire, TradeProofs!Wire,
  TradeWires!dbVars, TradeProofs!dbVars, TradeWires!chainVars,
  TradeProofs!chainVars, TradeWires!vars, TradeProofs!vars,
  TradeWires!Terminal, TradeProofs!Terminal, TradeWires!PoolExists,
  TradeProofs!PoolExists, TradeWires!TrueStatus, TradeProofs!TrueStatus,
  TradeWires!SeenStatus, TradeProofs!SeenStatus, TradeWires!NobodyHolds,
  TradeProofs!NobodyHolds, TradeWires!Reserve, TradeProofs!Reserve,
  TradeWires!WithoutClaim, TradeProofs!WithoutClaim, TradeWires!PrepareIntent,
  TradeProofs!PrepareIntent, TradeWires!UndoReservation,
  TradeProofs!UndoReservation, TradeWires!ReviewChangedFee,
  TradeProofs!ReviewChangedFee, TradeWires!Doing, TradeProofs!Doing,
  TradeWires!Serving, TradeProofs!Serving, TradeWires!Now, TradeProofs!Now,
  TradeWires!Then, TradeProofs!Then, TradeWires!Done, TradeProofs!Done,
  TradeWires!OnlyWorker, TradeProofs!OnlyWorker, TradeWires!Accepted,
  TradeProofs!Accepted, TradeWires!Submit, TradeProofs!Submit,
  TradeWires!CheckHeight, TradeProofs!CheckHeight, TradeWires!StillPrepared,
  TradeProofs!StillPrepared, TradeWires!Persist, TradeProofs!Persist,
  TradeWires!Send, TradeProofs!Send, TradeWires!Pending, TradeProofs!Pending,
  TradeWires!Reconcile, TradeProofs!Reconcile, TradeWires!ReadIntent,
  TradeProofs!ReadIntent, TradeWires!AfterStatus, TradeProofs!AfterStatus,
  TradeWires!ReadStatus, TradeProofs!ReadStatus, TradeWires!CheckFailure,
  TradeProofs!CheckFailure, TradeWires!GiveUp, TradeProofs!GiveUp,
  TradeWires!Fail, TradeProofs!Fail, TradeWires!Activate,
  TradeProofs!Activate, TradeWires!Confirm, TradeProofs!Confirm,
  TradeWires!AfterExpiry, TradeProofs!AfterExpiry, TradeWires!ReadHeight,
  TradeProofs!ReadHeight, TradeWires!ReadPool, TradeProofs!ReadPool,
  TradeWires!Expire, TradeProofs!Expire, TradeWires!ActivePools,
  TradeProofs!ActivePools, TradeWires!ThirtyDays, TradeProofs!ThirtyDays,
  TradeWires!FindInactive, TradeProofs!FindInactive, TradeWires!StillHolds,
  TradeProofs!StillHolds, TradeWires!Release, TradeProofs!Release,
  TradeWires!Die, TradeProofs!Die, TradeWires!DieLaunching,
  TradeProofs!DieLaunching, TradeWires!DieReleasing, TradeProofs!DieReleasing,
  TradeWires!Tick, TradeProofs!Tick, TradeWires!Land, TradeProofs!Land,
  TradeWires!Drop, TradeProofs!Drop, TradeWires!HandlerStep,
  TradeProofs!HandlerStep, TradeWires!Environment, TradeProofs!Environment,
  TradeWires!Next, TradeProofs!Next

LEMMA TradeWiresStep ==
  TradeProofs!WireInv /\ (TradeWires!Next \/ UNCHANGED wiresVars) => TradeProofs!WireInv'
<1>1. UNCHANGED wiresVars => UNCHANGED TradeProofs!vars
  BY DEF wiresVars, TradeProofs!vars, TradeProofs!dbVars, TradeProofs!chainVars
<1>2. TradeProofs!WireInv /\ [TradeProofs!Next]_(TradeProofs!vars) => TradeProofs!WireInv'
  BY TradeWiresAssumption, TradeProofs!WireStep
<1>. QED  BY <1>1, <1>2, TradeWiresSame

LEMMA TradeWiresRecorded == TradeProofs!WireInv => TradeWires!OnlyRecordedWireRuns
<1>1. TradeProofs!WireInv => TradeProofs!OnlyRecordedWireRuns
  BY TradeWiresAssumption, TradeProofs!WireRecorded
<1>. QED
  BY <1>1 DEF TradeWires!OnlyRecordedWireRuns, TradeProofs!OnlyRecordedWireRuns,
              TradeWires!Intents, TradeProofs!Intents

-----------------------------------------------------------------------------
(* The wires of a conversion *)

LEMMA ConversionAssumption ==
  /\ {} \cap ({} \cup {c1}) = {} /\ {} \cap {c1} = {}
  /\ << >> \in [{} -> Tickers]
  /\ None \notin ConversionProofs!Intents \cup ConversionProofs!Wire
  /\ TRUE \in BOOLEAN /\ TRUE \in BOOLEAN
  /\ Validity \in Nat /\ 2 \in Nat /\ MaxCrashes \in Nat
BY ServerAssumption, RegistryAssumption
DEF ConversionProofs!Wire, ConversionProofs!Intents, Wire

LEMMA ConversionInit == ConversionWires!Init => ConversionProofs!WireInv
<1>1. ConversionWires!Init => ConversionProofs!Init
  BY DEF ConversionWires!Init, ConversionProofs!Init, ConversionWires!Intents, ConversionProofs!Intents
<1>2. ConversionProofs!Init => ConversionProofs!WireInv
  BY ConversionAssumption, ConversionProofs!WireInit
<1>. QED  BY <1>1, <1>2

(* Both instances have the same actions: one word after the other.         *)
LEMMA ConversionSame == ConversionWires!Next => ConversionProofs!Next
BY Zenon DEF
  ConversionWires!Intents, ConversionProofs!Intents, ConversionWires!Wire,
  ConversionProofs!Wire, ConversionWires!dbVars, ConversionProofs!dbVars,
  ConversionWires!chainVars, ConversionProofs!chainVars, ConversionWires!vars,
  ConversionProofs!vars, ConversionWires!Terminal, ConversionProofs!Terminal,
  ConversionWires!PoolExists, ConversionProofs!PoolExists,
  ConversionWires!TrueStatus, ConversionProofs!TrueStatus,
  ConversionWires!SeenStatus, ConversionProofs!SeenStatus,
  ConversionWires!NobodyHolds, ConversionProofs!NobodyHolds,
  ConversionWires!Reserve, ConversionProofs!Reserve,
  ConversionWires!WithoutClaim, ConversionProofs!WithoutClaim,
  ConversionWires!PrepareIntent, ConversionProofs!PrepareIntent,
  ConversionWires!UndoReservation, ConversionProofs!UndoReservation,
  ConversionWires!ReviewChangedFee, ConversionProofs!ReviewChangedFee,
  ConversionWires!Doing, ConversionProofs!Doing, ConversionWires!Serving,
  ConversionProofs!Serving, ConversionWires!Now, ConversionProofs!Now,
  ConversionWires!Then, ConversionProofs!Then, ConversionWires!Done,
  ConversionProofs!Done, ConversionWires!OnlyWorker,
  ConversionProofs!OnlyWorker, ConversionWires!Accepted,
  ConversionProofs!Accepted, ConversionWires!Submit, ConversionProofs!Submit,
  ConversionWires!CheckHeight, ConversionProofs!CheckHeight,
  ConversionWires!StillPrepared, ConversionProofs!StillPrepared,
  ConversionWires!Persist, ConversionProofs!Persist, ConversionWires!Send,
  ConversionProofs!Send, ConversionWires!Pending, ConversionProofs!Pending,
  ConversionWires!Reconcile, ConversionProofs!Reconcile,
  ConversionWires!ReadIntent, ConversionProofs!ReadIntent,
  ConversionWires!AfterStatus, ConversionProofs!AfterStatus,
  ConversionWires!ReadStatus, ConversionProofs!ReadStatus,
  ConversionWires!CheckFailure, ConversionProofs!CheckFailure,
  ConversionWires!GiveUp, ConversionProofs!GiveUp, ConversionWires!Fail,
  ConversionProofs!Fail, ConversionWires!Activate, ConversionProofs!Activate,
  ConversionWires!Confirm, ConversionProofs!Confirm,
  ConversionWires!AfterExpiry, ConversionProofs!AfterExpiry,
  ConversionWires!ReadHeight, ConversionProofs!ReadHeight,
  ConversionWires!ReadPool, ConversionProofs!ReadPool, ConversionWires!Expire,
  ConversionProofs!Expire, ConversionWires!ActivePools,
  ConversionProofs!ActivePools, ConversionWires!ThirtyDays,
  ConversionProofs!ThirtyDays, ConversionWires!FindInactive,
  ConversionProofs!FindInactive, ConversionWires!StillHolds,
  ConversionProofs!StillHolds, ConversionWires!Release,
  ConversionProofs!Release, ConversionWires!Die, ConversionProofs!Die,
  ConversionWires!DieLaunching, ConversionProofs!DieLaunching,
  ConversionWires!DieReleasing, ConversionProofs!DieReleasing,
  ConversionWires!Tick, ConversionProofs!Tick, ConversionWires!Land,
  ConversionProofs!Land, ConversionWires!Drop, ConversionProofs!Drop,
  ConversionWires!HandlerStep, ConversionProofs!HandlerStep,
  ConversionWires!Environment, ConversionProofs!Environment,
  ConversionWires!Next, ConversionProofs!Next

LEMMA ConversionStep ==
  ConversionProofs!WireInv /\ (ConversionWires!Next \/ UNCHANGED wiresVars) => ConversionProofs!WireInv'
<1>1. UNCHANGED wiresVars => UNCHANGED ConversionProofs!vars
  BY DEF wiresVars, ConversionProofs!vars, ConversionProofs!dbVars, ConversionProofs!chainVars
<1>2. ConversionProofs!WireInv /\ [ConversionProofs!Next]_(ConversionProofs!vars) => ConversionProofs!WireInv'
  BY ConversionAssumption, ConversionProofs!WireStep
<1>. QED  BY <1>1, <1>2, ConversionSame

LEMMA ConversionRecorded == ConversionProofs!WireInv => ConversionWires!OnlyRecordedWireRuns
<1>1. ConversionProofs!WireInv => ConversionProofs!OnlyRecordedWireRuns
  BY ConversionAssumption, ConversionProofs!WireRecorded
<1>. QED
  BY <1>1 DEF ConversionWires!OnlyRecordedWireRuns, ConversionProofs!OnlyRecordedWireRuns,
              ConversionWires!Intents, ConversionProofs!Intents

-----------------------------------------------------------------------------
(* Bindings *)

LEMMA BindingAssumption ==
  /\ /\ None \notin {a1, a2} \cup {x1, x2} \cup {t1} \cup {c1}
     /\ {1} \subseteq Nat \ {0}
     /\ 1 \in Nat
  /\ None \notin BindingProofs!Challenge \cup BindingProofs!Intent
       \cup BindingProofs!Receipt \cup BindingProofs!Job
       \cup [xid : {x1, x2}, amount : {1}]
<1>1. /\ Bindings!Challenge = BindingProofs!Challenge
      /\ Bindings!Intent = BindingProofs!Intent
      /\ Bindings!Receipt = BindingProofs!Receipt
      /\ Bindings!Job = BindingProofs!Job
  BY Zenon DEF
    Bindings!Challenge, BindingProofs!Challenge, Bindings!ChallengeStatus,
  BindingProofs!ChallengeStatus, Bindings!Intent, BindingProofs!Intent,
  Bindings!Terminal, BindingProofs!Terminal, Bindings!Receipt,
  BindingProofs!Receipt, Bindings!Job, BindingProofs!Job, Bindings!Intents,
  BindingProofs!Intents
<1>. QED  BY <1>1, ServerAssumption

LEMMA BindingInit == Bindings!Init => BindingProofs!ClaimsInv
<1>1. Bindings!Init => BindingProofs!Init
  BY DEF Bindings!Init, BindingProofs!Init, Bindings!Intents, BindingProofs!Intents
<1>2. BindingProofs!Init => BindingProofs!ClaimsInv
  BY BindingAssumption, BindingProofs!InitClaims
<1>. QED  BY <1>1, <1>2

LEMMA BindingSame == Bindings!Next => BindingProofs!Next
BY Zenon DEF
  Bindings!Intents, BindingProofs!Intents, Bindings!dbVars,
  BindingProofs!dbVars, Bindings!escrowVars, BindingProofs!escrowVars,
  Bindings!chainVars, BindingProofs!chainVars, Bindings!vars,
  BindingProofs!vars, Bindings!ChallengeStatus, BindingProofs!ChallengeStatus,
  Bindings!Challenge, BindingProofs!Challenge, Bindings!Terminal,
  BindingProofs!Terminal, Bindings!Intent, BindingProofs!Intent,
  Bindings!Receipt, BindingProofs!Receipt, Bindings!Job, BindingProofs!Job,
  Bindings!TypeOK, BindingProofs!TypeOK, Bindings!At, BindingProofs!At,
  Bindings!GoOn, BindingProofs!GoOn, Bindings!Finish, BindingProofs!Finish,
  Bindings!Start, BindingProofs!Start, Bindings!Runtime,
  BindingProofs!Runtime, Bindings!LinkX, BindingProofs!LinkX,
  Bindings!Unbound, BindingProofs!Unbound, Bindings!Linked,
  BindingProofs!Linked, Bindings!BindFeeWallet, BindingProofs!BindFeeWallet,
  Bindings!WithBinding, BindingProofs!WithBinding, Bindings!InsertBinding,
  BindingProofs!InsertBinding, Bindings!CreateFeeChallenge,
  BindingProofs!CreateFeeChallenge, Bindings!CumulativeLimit,
  BindingProofs!CumulativeLimit, Bindings!InsertChallenge,
  BindingProofs!InsertChallenge, Bindings!VerifyFeeChallenge,
  BindingProofs!VerifyFeeChallenge, Bindings!StillPending,
  BindingProofs!StillPending, Bindings!UnusedPost, BindingProofs!UnusedPost,
  Bindings!MarkVerified, BindingProofs!MarkVerified,
  Bindings!PrepareCreatorFeeClaim, BindingProofs!PrepareCreatorFeeClaim,
  Bindings!Verified, BindingProofs!Verified, Bindings!ReadChallenge,
  BindingProofs!ReadChallenge, Bindings!ReadReceipt,
  BindingProofs!ReadReceipt, Bindings!IntentsOf, BindingProofs!IntentsOf,
  Bindings!Reusable, BindingProofs!Reusable, Bindings!Unsettled,
  BindingProofs!Unsettled, Bindings!NeedsNewIntent,
  BindingProofs!NeedsNewIntent, Bindings!ReadLatest, BindingProofs!ReadLatest,
  Bindings!ReadBalances, BindingProofs!ReadBalances, Bindings!StoreIntent,
  BindingProofs!StoreIntent, Bindings!WithIssued, BindingProofs!WithIssued,
  Bindings!Issue, BindingProofs!Issue, Bindings!Submit, BindingProofs!Submit,
  Bindings!Reconcile, BindingProofs!Reconcile, Bindings!ReadStatus,
  BindingProofs!ReadStatus, Bindings!ReadHeight, BindingProofs!ReadHeight,
  Bindings!Settle, BindingProofs!Settle, Bindings!Fail, BindingProofs!Fail,
  Bindings!Expire, BindingProofs!Expire, Bindings!Confirm,
  BindingProofs!Confirm, Bindings!ReconcileCreatorFeeClaim,
  BindingProofs!ReconcileCreatorFeeClaim, Bindings!Matches,
  BindingProofs!Matches, Bindings!ReadPayment, BindingProofs!ReadPayment,
  Bindings!Consume, BindingProofs!Consume, Bindings!Leave,
  BindingProofs!Leave, Bindings!Due, BindingProofs!Due, Bindings!Payable,
  BindingProofs!Payable, Bindings!Includable, BindingProofs!Includable,
  Bindings!Pay, BindingProofs!Pay, Bindings!Reject, BindingProofs!Reject,
  Bindings!Collect, BindingProofs!Collect, Bindings!SetPaused,
  BindingProofs!SetPaused, Bindings!RotateVerifier,
  BindingProofs!RotateVerifier, Bindings!Tick, BindingProofs!Tick,
  Bindings!PrepareStep, BindingProofs!PrepareStep, Bindings!ReconcileStep,
  BindingProofs!ReconcileStep, Bindings!Environment,
  BindingProofs!Environment, Bindings!Next, BindingProofs!Next

LEMMA BindingStep ==
  BindingProofs!ClaimsInv /\ (Bindings!Next \/ UNCHANGED bindingsVars) =>
    BindingProofs!ClaimsInv'
<1>1. UNCHANGED bindingsVars => UNCHANGED BindingProofs!vars
  BY DEF bindingsVars, BindingProofs!vars, BindingProofs!dbVars,
         BindingProofs!chainVars, BindingProofs!escrowVars
<1>2. BindingProofs!ClaimsInv /\ [BindingProofs!Next]_(BindingProofs!vars) =>
        BindingProofs!ClaimsInv'
  BY BindingAssumption, BindingProofs!NextClaims
<1>. QED  BY <1>1, <1>2, BindingSame

-----------------------------------------------------------------------------
(* The composition *)

ServerInv ==
  /\ IF part = "conversion" THEN ConversionProofs!WireInv ELSE TradeProofs!WireInv
  /\ BindingProofs!ClaimsInv

THEOREM ServerInvariant == MCServerSpec => []ServerInv
<1>1. MCServerInit => ServerInv
  BY TradeWiresInit, ConversionInit, BindingInit DEF MCServerInit, ServerInv
<1>2. ServerInv /\ [MCServerNext]_serverVars => ServerInv'
  <2> SUFFICES ASSUME ServerInv, [MCServerNext]_serverVars PROVE ServerInv'
    OBVIOUS
  <2>1. /\ part' = part
        /\ TradeWires!Next \/ ConversionWires!Next \/ UNCHANGED wiresVars
        /\ part = "conversion" => ConversionWires!Next \/ UNCHANGED wiresVars
        /\ part # "conversion" => TradeWires!Next \/ UNCHANGED wiresVars
        /\ Bindings!Next \/ UNCHANGED bindingsVars
    BY DEF MCServerNext, serverVars
  <2> QED BY <2>1, TradeWiresStep, ConversionStep, BindingStep DEF ServerInv
<1>. QED  BY <1>1, <1>2, PTL DEF MCServerSpec

(* Whatever two requests submit for one intent of a trade or a conversion, *)
(* only the wire on record is ever executed.                               *)
THEOREM RecordedWires == MCServerSpec => []RecordedWireRuns
<1>1. ServerInv => RecordedWireRuns
  BY TradeWiresRecorded, ConversionRecorded DEF ServerInv, RecordedWireRuns
<1>. QED  BY <1>1, ServerInvariant, PTL

(* Database and escrow agree on one wallet per account and one account per *)
(* wallet, however the requests that bind them interleave.                 *)
THEOREM OneWallet == MCServerSpec => []OneWalletPerAccount
<1>1. ServerInv => OneWalletPerAccount
  BY DEF ServerInv, BindingProofs!ClaimsInv, BindingProofs!BindingInv,
         BindingProofs!ChallengeInv, OneWalletPerAccount, Bindings!OneWalletPerAccount
<1>. QED  BY <1>1, ServerInvariant, PTL

(* A trade keeps to its review and runs where it was shown, and a message  *)
(* to sign is the one that was prepared, but for what its review allows.   *)
ReviewInv ==
  /\ part = "swap" => TradeInv
  /\ part = "signing" => PoliteInv

(* What runs is what the user reviewed, for any amounts, tolerances, rates *)
(* and wallets, any moves of pool and market, and any message and edits.   *)
THEOREM ReviewedRuns == MCServerSpec => []RunAsReviewed
<1>1. MCServerInit => ReviewInv
  BY TradeInit, PoliteInit DEF MCServerInit, ReviewInv
<1>2. ReviewInv /\ [MCServerNext]_serverVars => ReviewInv'
  <2> SUFFICES ASSUME ReviewInv, [MCServerNext]_serverVars PROVE ReviewInv'
    OBVIOUS
  <2>1. /\ part' = part
        /\ part = "swap" => [Trade!Next]_tradeVars
        /\ part = "signing" => [Signing!Next]_signingVars
    BY DEF MCServerNext, serverVars
  <2> QED BY <2>1, TradeStep, PoliteStep DEF ReviewInv
<1>3. ReviewInv => RunAsReviewed
  BY TradeKeepsPromises, PoliteKeepsPromises DEF ReviewInv, RunAsReviewed
<1>. QED  BY <1>1, <1>2, <1>3, PTL DEF MCServerSpec
==============================================================================
