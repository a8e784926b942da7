--------------------------- MODULE TraderComments ---------------------------
(* The comments under a token: who may write one, the pages they are read  *)
(* in, and the list one visitor has on the screen while others write and   *)
(* remove theirs.  A comment is its number; a larger one is newer.         *)
EXTENDS Naturals, Sequences, FiniteSets

CONSTANTS Wallets, None,
          Visitor,                                \* the wallet of the tab
          PageSize,                               \* 30 in the code
          MaxReceipts, MaxComments, MaxRemovals   \* bounds

VARIABLES receipts,   \* the wallets' confirmed intents and what they did
          proofs,     \* tokenBuyers: the receipt a wallet was verified by
          comments,   \* tokenComments
          posting,    \* a post between its checks and its row
          tab,        \* a visitor's list
          used, removed

vars == <<receipts, proofs, comments, posting, tab, used, removed>>

NoPost == [step |-> "idle", proof |-> None]
Nothing == [rows |-> {}, next |-> None, first |-> 0, asked |-> None]

Init ==
  /\ receipts = [w \in Wallets |-> <<>>] /\ proofs = [w \in Wallets |-> None]
  /\ comments = {} /\ posting = [w \in Wallets |-> NoPost]
  /\ tab = Nothing /\ used = 0 /\ removed = 0

(* ------------------------------- purchases ----------------------------- *)

(* An intent of the wallet is confirmed; the transaction that ran may be   *)
(* the purchase reviewed, a transfer or a sale, or one not yet final.      *)
Effects == {"purchase", "no-purchase", "not-final"}
Trade(w, effect) ==
  /\ Len(receipts[w]) < MaxReceipts
  /\ receipts' = [receipts EXCEPT ![w] = Append(@, effect)]
  /\ UNCHANGED <<proofs, comments, posting, tab, used, removed>>

Finalize(w, i) ==
  /\ receipts[w][i] = "not-final"
  /\ \E effect \in {"purchase", "no-purchase"} :
       receipts' = [receipts EXCEPT ![w][i] = effect]
  /\ UNCHANGED <<proofs, comments, posting, tab, used, removed>>

(* verifiedPurchase: the reviewed message, signed by the wallet, left it   *)
(* with more of the token out of a buy in the token's own pool.            *)
Verified(effect) == effect = "purchase"

(* verifyBuyer: the recorded proof, or the newest receipt that is one.     *)
Candidates(w) == {i \in DOMAIN receipts[w] : Verified(receipts[w][i])}
Newest(S) == CHOOSE i \in S : \A j \in S : j <= i

VerifyBuyer(w) ==
  /\ posting[w].step = "idle"
  /\ proofs[w] # None \/ Candidates(w) # {}
  /\ posting' = [posting EXCEPT ![w] =
       IF proofs[w] # None THEN [step |-> "insert", proof |-> proofs[w]]
       ELSE [step |-> "record", proof |-> Newest(Candidates(w))]]
  /\ UNCHANGED <<receipts, proofs, comments, tab, used, removed>>

(* onConflictDoNothing: the first proof stays.                             *)
RecordProof(w) ==
  /\ posting[w].step = "record"
  /\ proofs' = [proofs EXCEPT ![w] = IF @ = None THEN posting[w].proof ELSE @]
  /\ posting' = [posting EXCEPT ![w].step = "insert"]
  /\ UNCHANGED <<receipts, comments, tab, used, removed>>

PostComment(w) ==
  /\ posting[w].step = "insert"
  /\ used < MaxComments /\ used' = used + 1
  /\ comments' = comments \cup {[id |-> used + 1, wallet |-> w, proof |-> posting[w].proof]}
  /\ posting' = [posting EXCEPT ![w] = NoPost]
  /\ tab' = IF w = Visitor THEN [tab EXCEPT !.rows = @ \cup {used + 1}] ELSE tab
  /\ UNCHANGED <<receipts, proofs, removed>>

RemoveComment(c) ==
  /\ removed < MaxRemovals /\ removed' = removed + 1
  /\ comments' = comments \ {c}
  /\ tab' = IF c.wallet = Visitor THEN [tab EXCEPT !.rows = @ \ {c.id}] ELSE tab
  /\ UNCHANGED <<receipts, proofs, posting, used>>

(* --------------------------------- pages ------------------------------- *)

Ids == {c.id : c \in comments}
NewestOf(S, n) == {x \in S : Cardinality({y \in S : y > x}) < n}

(* readComments: the comments before the cursor's row, by time and id; no  *)
(* row is before one that is gone.                                         *)
OlderThan(before) == IF before \in Ids THEN {x \in Ids : x < before} ELSE {}
Page(before) ==
  LET found == IF before = None THEN Ids ELSE OlderThan(before)
      shown == NewestOf(found, PageSize)
  IN [rows |-> shown,
      next |-> IF Cardinality(found) > PageSize
               THEN CHOOSE x \in shown : \A y \in shown : x <= y ELSE None]

(* The list is read when the page opens and when it is refreshed; older    *)
(* comments are added to it.                                               *)
Ask(before) ==
  /\ tab.asked = None
  /\ before = 0 \/ (tab.next # None /\ before = tab.next)
  /\ tab' = [tab EXCEPT !.asked =
       [page |-> Page(IF before = 0 THEN None ELSE before), first |-> before = 0,
        at |-> used]]
  /\ UNCHANGED <<receipts, proofs, comments, posting, used, removed>>

Show ==
  /\ tab.asked # None
  /\ tab' = [rows |-> tab.asked.page.rows \cup IF tab.asked.first THEN {} ELSE tab.rows,
             next |-> tab.asked.page.next, asked |-> None,
             first |-> IF tab.asked.first THEN tab.asked.at ELSE tab.first]
  /\ UNCHANGED <<receipts, proofs, comments, posting, used, removed>>

Next ==
  \/ \E w \in Wallets : \/ \E effect \in Effects : Trade(w, effect)
                        \/ \E i \in DOMAIN receipts[w] : Finalize(w, i)
                        \/ VerifyBuyer(w) \/ RecordProof(w) \/ PostComment(w)
  \/ \E c \in comments : RemoveComment(c)
  \/ \E before \in 0..MaxComments : Ask(before)
  \/ Show

Spec == Init /\ [][Next]_vars

(* ------------------------------ properties ----------------------------- *)

TypeOK ==
  /\ \A w \in Wallets : posting[w].step \in {"idle", "record", "insert"}
  /\ used \in 0..MaxComments /\ removed \in 0..MaxRemovals
  /\ \A c \in comments : c.id \in 1..used /\ c.wallet \in Wallets

(* A comment stands by a purchase of its author's that really happened,    *)
(* whichever post of theirs found it and whatever they did later.          *)
CommentsAreFromBuyers ==
  \A c \in comments : receipts[c.wallet][c.proof] = "purchase"

(* "Paginated with a stable cursor": a visitor who reads on to the end     *)
(* has every comment that was there when the list was read, whatever was   *)
(* posted and removed meanwhile.                                           *)
EndHasEverything ==
  tab.asked = None /\ tab.next = None =>
    \A c \in comments : c.id <= tab.first => c.id \in tab.rows
=============================================================================
