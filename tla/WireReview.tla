----------------------------- MODULE WireReview -----------------------------
(* The message a wallet is asked to sign, and what the wallet may return.  *)
(* A wallet tunes the network fee and appends assertions of its own; the   *)
(* server accepts that for trades and claims, shows it again for every     *)
(* other transaction, and refuses every other change.  A message is a      *)
(* sequence of instructions, the accounts it names and its blockhash;      *)
(* compute units, prices and sizes are small numbers.                      *)
EXTENDS Integers, Sequences, FiniteSets, SequencesExt

CONSTANTS None,
          Apps,                    \* what the application may ask for
          MaxUnits, FeeScale, FeeLimit, Packet,
          Units, Prices,           \* what a wallet may set
          MaxEdits, MaxRounds      \* bounds

VARIABLES kind, app,
          stored,   \* the intent: its message, and the fee shown
          wire,     \* what the wallet is returning
          edits, polite,
          answer,   \* "open", "refused" or "accepted"
          rounds

vars == <<kind, app, stored, wire, edits, polite, answer, rounds>>

Direct == {"trade", "claim"}
Kinds == Direct \cup {"launch", "creator-fee-claim"}

Ix(op, arg) == [op |-> op, arg |-> arg]
Budget(ix) == ix.op \in {"units", "price", "heap", "loaded"}
Effect(ix) == ~Budget(ix) /\ ix.op # "assert"

(* The accounts an instruction names.                                      *)
KeysOf(ix) ==
  CASE ix.op = "transfer" -> {[key |-> ix.arg, writable |-> TRUE, signer |-> FALSE]}
    [] ix.op = "assert"   -> {[key |-> "lighthouse", writable |-> FALSE, signer |-> FALSE],
                              [key |-> ix.arg, writable |-> FALSE, signer |-> FALSE]}
    [] ix.op = "write"    -> {[key |-> "lighthouse", writable |-> FALSE, signer |-> FALSE]}
    [] OTHER -> {}
Payer == [key |-> "payer", writable |-> TRUE, signer |-> TRUE]
Names(keys) == {k.key : k \in keys}

(* A message lists an account once, with the most any instruction asks.    *)
Merge(keys) == {k \in keys : k.writable \/ \A l \in keys : l.key = k.key => ~l.writable}
Message(ixs) ==
  [ixs |-> ixs, hash |-> "h1",
   keys |-> Merge({Payer} \cup UNION {KeysOf(ixs[i]) : i \in DOMAIN ixs})]
Size(m) == Len(m.ixs) + Cardinality(m.keys)
Fits(m) == Size(m) <= Packet

(* ------------------------------ preparation ---------------------------- *)

Has(ixs, op) == \E i \in DOMAIN ixs : ixs[i].op = op

PrepareTransactionWire(ixs, omitPrice) ==
  LET units == IF Has(ixs, "units") THEN <<>> ELSE <<Ix("units", MaxUnits)>>
      price == IF Has(ixs, "price") THEN <<>> ELSE <<Ix("price", 1)>>
      full == Message(units \o price \o ixs)
      lean == Message(units \o ixs)
      m == IF omitPrice /\ price # <<>> /\ ~Fits(full) THEN lean ELSE full
  IN IF Fits(m) THEN m ELSE None

Guarded(m) == Has(m.ixs, "assert") \/ Has(m.ixs, "write")

(* -------------------------- what a wallet changed ---------------------- *)

InMemory(ix) == ix.op \in {"heap", "loaded"} /\ ix.arg \in 1..2

AfterGuard(d) == d.guards # {}

(* describe: the fee instructions are set aside, the first of each kind,   *)
(* and of the wallet's message the read-only assertions, if the reviewed   *)
(* one had none (aside).                                                   *)
Undescribed ==
  [units |-> 0, metered |-> FALSE, price |-> 0, priced |-> FALSE, memory |-> {},
   guards |-> {}, misplaced |-> FALSE, rest |-> <<>>]
SetAside(d, ix, aside) ==
  IF ix.op = "units" /\ ~d.metered THEN [d EXCEPT !.units = ix.arg, !.metered = TRUE]
  ELSE IF ix.op = "price" /\ ~d.priced THEN [d EXCEPT !.price = ix.arg, !.priced = TRUE]
  ELSE IF InMemory(ix) /\ ix.op \notin d.memory THEN [d EXCEPT !.memory = @ \cup {ix.op}]
  ELSE IF aside /\ ix.op = "assert"
    THEN [d EXCEPT !.guards = @ \cup {"lighthouse", ix.arg}]
  ELSE [d EXCEPT !.rest = Append(@, ix), !.misplaced = @ \/ AfterGuard(d)]
Describe(m, aside) ==
  FoldLeft(LAMBDA d, ix : SetAside(d, ix, aside), Undescribed, m.ixs)

ReadOnlyGuards(m, d, original) ==
  {k \in m.keys : k.key \in d.guards /\ k.key \notin Names(original.keys)
                  /\ ~k.writable /\ ~k.signer}

PriorityFee(units, price) == (units * price + FeeScale - 1) \div FeeScale

SameShape(original, m, a, b) ==
  /\ b.rest = a.rest /\ ~b.misplaced
  /\ m.keys \ ReadOnlyGuards(m, b, original) = original.keys
  /\ m.hash = original.hash

FeeBounded(b) ==
  /\ b.priced /\ b.units \in 1..MaxUnits
  /\ PriorityFee(b.units, b.price) <= FeeLimit

ValidateWalletFeeChange(original, w) ==
  LET a == Describe(original, FALSE)
      b == Describe(w.message, ~Guarded(original))
  IN /\ w.signed /\ Fits(w.message)
     /\ SameShape(original, w.message, a, b)
     /\ FeeBounded(b)

(* ------------------------------ the intent ----------------------------- *)

Closed == [message |-> None, signed |-> FALSE]
Rebuilt == PrepareTransactionWire(app, kind = "creator-fee-claim")

WithAssertion(m) == Message(Append(m.ixs, Ix("assert", "payer")))

(* An older client left a wallet's assertion in the message of a claim.    *)
Init ==
  /\ kind \in Kinds /\ app \in Apps
  /\ stored \in {Rebuilt} \cup (IF Rebuilt # None /\ kind = "claim"
                                THEN {m \in {WithAssertion(Rebuilt)} : Size(m) <= Packet} ELSE {})
  /\ wire = Closed /\ edits = 0 /\ polite = TRUE
  /\ answer = (IF stored = None THEN "refused" ELSE "open") /\ rounds = 0

(* The wallet is shown the stored message, and may edit what it signs.     *)
Open ==
  /\ answer = "open" /\ wire = Closed
  /\ wire' = [message |-> stored, signed |-> FALSE]
  /\ edits' = 0 /\ polite' = TRUE
  /\ UNCHANGED <<kind, app, stored, answer, rounds>>

Edit(m, p) ==
  /\ wire.message # None /\ ~wire.signed /\ edits < MaxEdits
  /\ wire' = [wire EXCEPT !.message = m] /\ edits' = edits + 1 /\ polite' = (polite /\ p)
  /\ UNCHANGED <<kind, app, stored, answer, rounds>>

Added == {Ix("transfer", "a"), Ix("transfer", "b"), Ix("assert", "a"), Ix("assert", "c"),
          Ix("write", "c"), Ix("units", MaxUnits), Ix("price", 1), Ix("heap", 1), Ix("heap", 3)}

WithIxs(m, ixs) ==
  [m EXCEPT !.ixs = ixs,
            !.keys = Merge(@ \cup UNION {KeysOf(ixs[i]) : i \in DOMAIN ixs})]

Insert ==
  /\ wire.message # None
  /\ \E i \in 1..(Len(wire.message.ixs) + 1), ix \in Added :
       LET m == WithIxs(wire.message, InsertAt(wire.message.ixs, i, ix)) IN
       Edit(m, ix.op = "assert" /\ i > Len(wire.message.ixs) /\ Size(m) <= Packet)
Delete ==
  /\ wire.message # None
  /\ \E i \in DOMAIN wire.message.ixs :
       Edit([wire.message EXCEPT !.ixs = RemoveAt(@, i)], FALSE)
SetFee ==
  /\ wire.message # None /\ Has(wire.message.ixs, "price")
  /\ \E u \in Units, p \in Prices :
       Edit([wire.message EXCEPT !.ixs = [i \in DOMAIN @ |->
               IF @[i].op = "units" THEN Ix("units", u)
               ELSE IF @[i].op = "price" THEN Ix("price", p) ELSE @[i]]],
            u \in 1..MaxUnits /\ PriorityFee(u, p) <= FeeLimit)
Raise ==       \* another privilege, or another blockhash
  /\ wire.message # None
  /\ \/ Edit([wire.message EXCEPT !.hash = "h2"], FALSE)
     \/ \E k \in wire.message.keys :
          Edit([wire.message EXCEPT !.keys = (@ \ {k}) \cup {[k EXCEPT !.writable = TRUE]}],
               k.writable)

Sign ==
  /\ wire.message # None /\ ~wire.signed
  /\ wire' = [wire EXCEPT !.signed = TRUE]
  /\ UNCHANGED <<kind, app, stored, edits, polite, answer, rounds>>

(* Claims that hold an assertion are rebuilt before they are compared.     *)
Baseline == IF kind = "claim" /\ Guarded(stored) THEN Rebuilt ELSE stored

AnyKind(w) == ValidateWalletFeeChange(Baseline, w)
OnlyDirect(w) == kind \in Direct /\ ValidateWalletFeeChange(Baseline, w)
Unchanged(w) == w.message = stored
MayRun(w) == (Unchanged(w) \/ OnlyDirect(w)) /\ w.signed

Submit ==
  /\ answer = "open" /\ wire.signed
  /\ answer' = IF MayRun(wire) THEN "accepted" ELSE "refused"
  /\ UNCHANGED <<kind, app, stored, wire, edits, polite, rounds>>

(* Another transaction the wallet changed is shown again, unsigned.        *)
Revise ==
  /\ answer = "open" /\ wire.signed /\ kind \notin Direct /\ rounds < MaxRounds
  /\ rounds' = rounds + 1
  /\ IF ValidateWalletFeeChange(stored, wire)
       THEN stored' = wire.message /\ wire' = Closed /\ UNCHANGED answer
       ELSE answer' = "refused" /\ UNCHANGED <<stored, wire>>
  /\ UNCHANGED <<kind, app, edits, polite>>

Next == Open \/ Insert \/ Delete \/ SetFee \/ Raise \/ Sign \/ Submit \/ Revise
Spec == Init /\ [][Next]_vars

(* ------------------------------ properties ----------------------------- *)

(* The messages an application and a wallet can put together.              *)
Instructions ==
  Added \cup {Ix("assert", "payer")} \cup {Ix("units", u) : u \in Units}
  \cup {Ix("price", p) : p \in Prices} \cup (UNION {{a[i] : i \in DOMAIN a} : a \in Apps})
Accounts ==
  {[k EXCEPT !.writable = w] :
     k \in {Payer} \cup UNION {KeysOf(ix) : ix \in Instructions}, w \in BOOLEAN}
Messages == [ixs : Seq(Instructions), hash : {"h1", "h2"}, keys : SUBSET Accounts]

TypeOK ==
  /\ kind \in Kinds /\ app \in Apps /\ answer \in {"open", "refused", "accepted"}
  /\ stored \in Messages \cup {None}
  /\ wire \in [message : Messages \cup {None}, signed : BOOLEAN]
  /\ (stored # None => Size(stored) <= Packet)
  /\ edits \in 0..MaxEdits /\ rounds \in 0..MaxRounds /\ polite \in BOOLEAN

Effects(ixs) == FoldLeft(LAMBDA s, ix : IF Effect(ix) THEN Append(s, ix) ELSE s, <<>>, ixs)
FeeOf(m) == LET d == Describe(m, FALSE) IN PriorityFee(d.units, d.price)

(* A message does what the application asked for and nothing else, in that *)
(* order, with no assertion ahead of it, on the reviewed accounts with the *)
(* reviewed privileges; its fee is within the limit or the one shown.      *)
AsReviewed(m) ==
  /\ Effects(m.ixs) = Effects(app)
  /\ \A i, j \in DOMAIN m.ixs : i < j /\ Effect(m.ixs[j]) => m.ixs[i].op # "assert"
  /\ Rebuilt.keys \subseteq m.keys
  /\ \A k \in m.keys \ Rebuilt.keys : ~k.writable /\ ~k.signer
  /\ m.hash = Rebuilt.hash
  /\ FeeOf(m) <= FeeLimit \/ FeeOf(m) = FeeOf(Rebuilt)

(* What runs is as reviewed.                                               *)
RunsAsReviewed == answer = "accepted" => AsReviewed(wire.message)

(* A launch or a payout runs exactly as its wallet was last shown it.      *)
OthersRunAsShown == answer = "accepted" /\ kind \notin Direct => wire.message = stored

(* A wallet that only bounds the fee and appends assertions is never       *)
(* refused a trade or a claim.                                             *)
PoliteIsAccepted ==
  stored # None /\ kind \in Direct /\ polite => answer # "refused"
=============================================================================
