---------------------------- MODULE FeeRequests -----------------------------
(***************************************************************************)
(* What the claim service promises a recipient: an X account belongs to    *)
(* one wallet for good; a request names an account and an amount; a public *)
(* post proves one request; and a proven request is paid at most once, at  *)
(* most the amount, to the wallet of its account. Sessions, retries,       *)
(* authorizations, expiry, pauses and rotations do not appear.             *)
(***************************************************************************)
EXTENDS Naturals

CONSTANTS Challenges, XIds, Wallets, Posts, None

VARIABLES
  owner,     \* wallet of each X account
  request,   \* account and amount of each request
  proof,     \* the post that proves each request
  payment    \* wallet and amount each request was paid

vars == <<owner, request, proof, payment>>

Init ==
  /\ owner = [x \in XIds |-> None]
  /\ request = [c \in Challenges |-> None]
  /\ proof = [c \in Challenges |-> None]
  /\ payment = [c \in Challenges |-> None]

Own(x, a) ==
  /\ owner[x] = None
  /\ \A y \in XIds : owner[y] # a
  /\ owner' = [owner EXCEPT ![x] = a]
  /\ UNCHANGED <<request, proof, payment>>

Ask(c, x) ==
  /\ request[c] = None
  /\ owner[x] # None
  /\ request'[c] # None
  /\ request'[c].amount \in Nat \ {0}
  /\ request' = [request EXCEPT ![c] = [xid |-> x, amount |-> request'[c].amount]]
  /\ UNCHANGED <<owner, proof, payment>>

Prove(c, p) ==
  /\ request[c] # None
  /\ proof[c] = None
  /\ \A d \in Challenges : proof[d] # p
  /\ proof' = [proof EXCEPT ![c] = p]
  /\ UNCHANGED <<owner, request, payment>>

Pay(c) ==
  /\ proof[c] # None
  /\ payment[c] = None
  /\ \E amount \in 1 .. request[c].amount :
       payment' = [payment EXCEPT ![c] =
         [wallet |-> owner[request[c].xid], amount |-> amount]]
  /\ UNCHANGED <<owner, request, proof>>

Next ==
  \/ \E x \in XIds, a \in Wallets : Own(x, a)
  \/ \E c \in Challenges :
       (\E x \in XIds : Ask(c, x)) \/ (\E p \in Posts : Prove(c, p)) \/ Pay(c)

Spec == Init /\ [][Next]_vars
=============================================================================
