----------------------------- MODULE FeeClaims ------------------------------
(***************************************************************************)
(* The creator-fee claim service (apps/web/src/lib/creator-fees): X        *)
(* accounts bound to wallets, challenges proven by a post, the signed      *)
(* claims a challenge may be turned into, and the receipts that close it.  *)
(* The handlers run in many requests at once and read the database and the *)
(* chain one await at a time; each step between awaits is one action. The  *)
(* chain is the claim instruction of the escrow (FeeEscrow has all of it), *)
(* for one token and one asset. An intent's own life, retried broadcasts   *)
(* and dropped blocks are in LaunchRegistry; here submit is one action.    *)
(***************************************************************************)
EXTENDS Integers

CONSTANTS
  Challenges,
  XIds,
  Wallets,
  Posts,          \* public posts
  MaxIntents,     \* bound on the claim intents stored
  Workers,        \* requests and cron runs inside a handler
  None,
  Amounts,        \* amounts one may ask for, and one collection may add
  MaxEntitled,    \* bound on an account's share of the collected fees
  MaxEpoch,       \* bound on verifier rotations
  ChallengeLife,  \* validity of a challenge, and of the claims signed for it
  BlockhashLife,  \* validity of a prepared transaction
  MaxTime         \* bound on the clock

ASSUME ClaimsAssumption ==
  /\ None \notin Wallets \cup XIds \cup Posts \cup Challenges
  /\ Amounts \subseteq Nat \ {0}
  /\ MaxIntents \in Nat /\ MaxEntitled \in Nat /\ MaxEpoch \in Nat
  /\ ChallengeLife \in Nat /\ BlockhashLife \in Nat /\ MaxTime \in Nat

Intents == 1 .. MaxIntents

VARIABLES
  profile,    \* wallet_profiles: the X account last linked to each wallet
  binding,    \* creator_fee_bindings: the wallet of each X account
  challenge,  \* creator_fee_challenges; None without a row
  intent,     \* transaction_intents of kind creator-fee-claim, oldest first
  worker,     \* what each request is about to do; None when it is idle
  sent,       \* intents whose signed transaction was broadcast
  landed,     \* what the chain made of each: "ok", "err" or None
  entitled,   \* escrow: floor of each account's share of what was collected
  claimed,    \* escrow: cumulative amount paid to each account
  bound,      \* escrow: wallet of the account's first claim
  receipt,    \* escrow: receipt of each challenge's nonce
  control,    \* escrow: pause and verifier epoch
  now         \* clock, in time and in blocks

dbVars == <<profile, binding, challenge, intent>>
escrowVars == <<claimed, bound, receipt>>
chainVars == <<sent, landed, entitled, escrowVars, control, now>>
vars == <<dbVars, worker, chainVars>>

ChallengeStatus == {"pending", "verified", "issued", "consumed"}
Challenge ==
  [xid : XIds, wallet : Wallets, amount : Amounts, limit : Nat,
   status : ChallengeStatus, post : Posts \cup {None}, expires : Nat]

Terminal == {"confirmed", "failed", "expired"}
Intent ==
  [challenge : Challenges, epoch : Nat, until : Nat,
   status : {"prepared", "submitted"} \cup Terminal]

Receipt == [wallet : Wallets, amount : Nat]

(* Requests by handler: what each has read so far. *)
Job ==
  [at : {"bind"}, wallet : Wallets, xid : XIds]
    \cup [at : {"ask"}, wallet : Wallets, xid : XIds, amount : Amounts, claimed : Nat]
    \cup [at : {"verify"}, id : Challenges, post : Posts]
    \cup [at : {"challenge", "receipt", "latest", "balance", "store", "issue"},
          id : Challenges, epoch : Nat]
    \cup [at : {"status", "height", "fail", "expire", "confirm"}, intent : Intents]
    \cup [at : {"payment", "consume"}, id : Challenges, intent : Intents \cup {None}]

(* A row that is missing is not a row. *)
ASSUME NoneIsNoRow ==
  None \notin Challenge \cup Intent \cup Receipt \cup Job
             \cup [xid : XIds, amount : Amounts]

TypeOK ==
  /\ profile \in [Wallets -> XIds \cup {None}]
  /\ binding \in [XIds -> Wallets \cup {None}]
  /\ challenge \in [Challenges -> Challenge \cup {None}]
  /\ intent \in [Intents -> Intent \cup {None}]
  /\ worker \in [Workers -> Job \cup {None}]
  /\ sent \subseteq Intents
  /\ landed \in [Intents -> {"ok", "err", None}]
  /\ entitled \in [XIds -> Nat]
  /\ claimed \in [XIds -> Nat]
  /\ bound \in [XIds -> Wallets \cup {None}]
  /\ receipt \in [Challenges -> Receipt \cup {None}]
  /\ control \in [paused : BOOLEAN, epoch : Nat]
  /\ now \in Nat

Init ==
  /\ profile = [a \in Wallets |-> None]
  /\ binding = [x \in XIds |-> None]
  /\ challenge = [c \in Challenges |-> None]
  /\ intent = [i \in Intents |-> None]
  /\ worker = [w \in Workers |-> None]
  /\ sent = {}
  /\ landed = [i \in Intents |-> None]
  /\ entitled = [x \in XIds |-> 0]
  /\ claimed = [x \in XIds |-> 0]
  /\ bound = [x \in XIds |-> None]
  /\ receipt = [c \in Challenges |-> None]
  /\ control = [paused |-> FALSE, epoch |-> 1]
  /\ now = 0

At(w, step) == worker[w] # None /\ worker[w].at = step
GoOn(w, step) == worker' = [worker EXCEPT ![w].at = step]
Finish(w) == worker' = [worker EXCEPT ![w] = None]
Start(w, job) == worker[w] = None /\ worker' = [worker EXCEPT ![w] = job]

(* creatorFeeRuntime refuses while the escrow is paused, unless the caller *)
(* only reads receipts or collects.                                        *)
RuntimeStrict(allowPaused) == ~control.paused   \* mutant: it always refuses
Runtime(allowPaused) == allowPaused \/ ~control.paused

-----------------------------------------------------------------------------
(* Linking an X account and binding it *)

(* The OAuth callback: a wallet may link another account later, an account *)
(* is in one profile.                                                      *)
LinkX(a, x) ==
  /\ \A b \in Wallets \ {a} : profile[b] # x
  /\ profile' = [profile EXCEPT ![a] = x]
  /\ UNCHANGED <<binding, challenge, intent, worker, chainVars>>

Unbound(a) == \A x \in XIds : binding[x] # a

Linked(a) == profile[a] # None

BindFeeWallet(w, a) ==
  /\ Linked(a)
  /\ Unbound(a)
  /\ Start(w, [at |-> "bind", wallet |-> a, xid |-> profile[a]])
  /\ UNCHANGED <<dbVars, chainVars>>

WithBindingOver(x, a) ==      \* mutant: the conflict updates the binding
  [binding EXCEPT ![x] = a]

(* insert ... on conflict do nothing, with a key for either column. *)
WithBinding(x, a) ==
  IF binding[x] = None /\ Unbound(a) THEN [binding EXCEPT ![x] = a] ELSE binding

InsertBinding(w) ==
  /\ At(w, "bind")
  /\ binding' = WithBinding(worker[w].xid, worker[w].wallet)
  /\ Finish(w)
  /\ UNCHANGED <<profile, challenge, intent, chainVars>>

-----------------------------------------------------------------------------
(* createFeeChallenge *)

CreateFeeChallenge(w, x, amount) ==
  /\ binding[x] # None
  /\ Runtime(FALSE)
  /\ amount <= entitled[x] - claimed[x]
  /\ Start(w, [at |-> "ask", wallet |-> binding[x], xid |-> x, amount |-> amount,
               claimed |-> claimed[x]])
  /\ UNCHANGED <<dbVars, chainVars>>

TotalLimit(job) == entitled[job.xid]     \* mutant: the cap is the entitlement
CumulativeLimit(job) == job.claimed + job.amount

InsertChallenge(w, c) ==
  /\ At(w, "ask")
  /\ challenge[c] = None
  /\ challenge' = [challenge EXCEPT ![c] =
       [xid |-> worker[w].xid, wallet |-> worker[w].wallet,
        amount |-> worker[w].amount, limit |-> CumulativeLimit(worker[w]),
        status |-> "pending", post |-> None, expires |-> now + ChallengeLife]]
  /\ Finish(w)
  /\ UNCHANGED <<profile, binding, intent, chainVars>>

-----------------------------------------------------------------------------
(* verifyFeeChallenge: the post is fetched between the two reads *)

VerifyFeeChallenge(w, c, p) ==
  /\ challenge[c] # None
  /\ challenge[c].status = "pending"
  /\ now < challenge[c].expires
  /\ Start(w, [at |-> "verify", id |-> c, post |-> p])
  /\ UNCHANGED <<dbVars, chainVars>>

Fresh(c) == now < challenge[c].expires     \* mutant: the status is not compared
StillPending(c) == challenge[c].status = "pending" /\ now < challenge[c].expires

UnusedPost(c, p) ==
  ~ \E d \in Challenges \ {c} : challenge[d] # None /\ challenge[d].post = p

MarkVerified(w) ==
  /\ At(w, "verify")
  /\ StillPending(worker[w].id)
  /\ UnusedPost(worker[w].id, worker[w].post)
  /\ challenge' = [challenge EXCEPT ![worker[w].id].status = "verified",
                                    ![worker[w].id].post = worker[w].post]
  /\ Finish(w)
  /\ UNCHANGED <<profile, binding, intent, chainVars>>

-----------------------------------------------------------------------------
(* prepareCreatorFeeClaim *)

PrepareCreatorFeeClaim(w, c) ==
  /\ challenge[c] # None
  /\ Runtime(FALSE)
  /\ Start(w, [at |-> "challenge", id |-> c, epoch |-> control.epoch])
  /\ UNCHANGED <<dbVars, chainVars>>

(* verifiedFeeChallenge; a row keeps everything but its status and post.   *)
Unexpired(c) == now < challenge[c].expires     \* mutant: without a proof
Verified(c) ==
  now < challenge[c].expires /\ challenge[c].status \in {"verified", "issued"}

ReadChallenge(w) ==
  /\ At(w, "challenge")
  /\ Verified(worker[w].id)
  /\ GoOn(w, "receipt")
  /\ UNCHANGED <<dbVars, chainVars>>

ReadReceipt(w) ==
  /\ At(w, "receipt")
  /\ receipt[worker[w].id] = None
  /\ GoOn(w, "latest")
  /\ UNCHANGED <<dbVars, chainVars>>

IntentsOf(c) == {i \in Intents : intent[i] # None /\ intent[i].challenge = c}

(* A prepared or submitted claim that is still good is handed out again; a *)
(* signed one that is not settled has to be checked first.                 *)
Reusable(i, epoch) ==
  /\ intent[i].epoch = epoch
  /\ intent[i].status \in {"prepared", "submitted"}
  /\ now <= intent[i].until

Unsettled(i) == intent[i].status = "submitted"

NeedsNewIntent(c, epoch) ==
  \A i \in IntentsOf(c) :
    (\A j \in IntentsOf(c) : j <= i) => ~Reusable(i, epoch) /\ ~Unsettled(i)

ReadLatest(w) ==
  /\ At(w, "latest")
  /\ NeedsNewIntent(worker[w].id, worker[w].epoch)
  /\ GoOn(w, "balance")
  /\ UNCHANGED <<dbVars, chainVars>>

ReadBalances(w) ==
  /\ At(w, "balance")
  /\ Runtime(FALSE)
  /\ claimed[challenge[worker[w].id].xid] < challenge[worker[w].id].limit
  /\ GoOn(w, "store")
  /\ UNCHANGED <<dbVars, chainVars>>

(* The claim is signed and stored; its blockhash was fetched before. The   *)
(* clock's bound leaves every claim the time to expire.                    *)
StoreIntent(w, i, until) ==
  /\ At(w, "store")
  /\ intent[i] = None
  /\ \A j \in 1 .. i - 1 : intent[j] # None
  /\ until \in now .. now + BlockhashLife /\ until < MaxTime
  /\ intent' = [intent EXCEPT ![i] =
       [challenge |-> worker[w].id, epoch |-> worker[w].epoch, until |-> until,
        status |-> "prepared"]]
  /\ GoOn(w, "issue")
  /\ UNCHANGED <<profile, binding, challenge, chainVars>>

AlwaysIssue(c) == [challenge EXCEPT ![c].status = "issued"]  \* mutant: by id alone
WithIssued(c) ==
  IF challenge[c].status = "verified" THEN [challenge EXCEPT ![c].status = "issued"]
  ELSE challenge

Issue(w) ==
  /\ At(w, "issue")
  /\ challenge' = WithIssued(worker[w].id)
  /\ Finish(w)
  /\ UNCHANGED <<profile, binding, intent, chainVars>>

-----------------------------------------------------------------------------
(* The wallet signs, submit records and broadcasts *)

Submit(i) ==
  /\ intent[i] # None
  /\ intent[i].status = "prepared"
  /\ now <= intent[i].until
  /\ intent' = [intent EXCEPT ![i].status = "submitted"]
  /\ sent' = sent \cup {i}
  /\ UNCHANGED <<profile, binding, challenge, worker, landed, entitled, escrowVars,
                 control, now>>

-----------------------------------------------------------------------------
(* reconcile, for a claim intent, and reconcileCreatorFeeClaim *)

Reconcile(w, i) ==
  /\ intent[i] # None
  /\ intent[i].status \notin Terminal
  /\ Start(w, [at |-> IF intent[i].status = "submitted" THEN "status" ELSE "height",
               intent |-> i])
  /\ UNCHANGED <<dbVars, chainVars>>

ReadStatus(w) ==
  LET i == worker[w].intent
  IN  /\ At(w, "status")
      /\ worker' = [worker EXCEPT ![w] =
           CASE landed[i] = "ok" -> [at |-> "payment", id |-> intent[i].challenge,
                                     intent |-> i]
             [] landed[i] = "err" -> [at |-> "fail", intent |-> i]
             [] OTHER -> [at |-> "height", intent |-> i]]
      /\ UNCHANGED <<dbVars, chainVars>>

ReadHeight(w) ==
  /\ At(w, "height")
  /\ now > intent[worker[w].intent].until
  /\ GoOn(w, "expire")
  /\ UNCHANGED <<dbVars, chainVars>>

(* The statuses reconcile writes, each by the intent's id alone. *)
Settle(w, step, status) ==
  /\ At(w, step)
  /\ intent' = [intent EXCEPT ![worker[w].intent].status = status]
  /\ Finish(w)
  /\ UNCHANGED <<profile, binding, challenge, chainVars>>

Fail(w) == Settle(w, "fail", "failed")
Expire(w) == Settle(w, "expire", "expired")
Confirm(w) == Settle(w, "confirm", "confirmed")

(* POST /reconcile, for a challenge without naming a transaction. *)
ReconcileCreatorFeeClaim(w, c) ==
  /\ challenge[c] # None
  /\ Start(w, [at |-> "payment", id |-> c, intent |-> None])
  /\ UNCHANGED <<dbVars, chainVars>>

(* A receipt that does not match the request is a 409. *)
Matches(c) ==
  /\ receipt[c] # None
  /\ receipt[c].wallet = challenge[c].wallet
  /\ receipt[c].amount \in 1 .. challenge[c].amount

ReadPayment(w) ==
  /\ At(w, "payment")
  /\ Runtime(TRUE)
  /\ Matches(worker[w].id)
  /\ GoOn(w, "consume")
  /\ UNCHANGED <<dbVars, chainVars>>

Consume(w) ==
  /\ At(w, "consume")
  /\ challenge' = [challenge EXCEPT ![worker[w].id].status = "consumed"]
  /\ worker' = [worker EXCEPT ![w] =
       IF worker[w].intent = None THEN None
       ELSE [at |-> "confirm", intent |-> worker[w].intent]]
  /\ UNCHANGED <<profile, binding, intent, chainVars>>

(* A request ends at any await: it answers, it throws, or it times out.    *)
Leave(w) ==
  /\ worker[w] # None
  /\ Finish(w)
  /\ UNCHANGED <<dbVars, chainVars>>

-----------------------------------------------------------------------------
(* The chain *)

Due(c) ==
  LET x == challenge[c].xid
      cap == IF entitled[x] < challenge[c].limit THEN entitled[x] ELSE challenge[c].limit
  IN  cap - claimed[x]

(* The checks of the claim instruction. *)
Payable(i) ==
  LET c == intent[i].challenge
  IN  /\ ~control.paused /\ intent[i].epoch = control.epoch
      /\ now <= challenge[c].expires
      /\ bound[challenge[c].xid] \in {None, challenge[c].wallet}
      /\ Due(c) > 0
      /\ receipt[c] = None

Includable(i) == i \in sent /\ landed[i] = None /\ now <= intent[i].until

Pay(i) ==
  LET c == intent[i].challenge
      x == challenge[c].xid
  IN  /\ Includable(i)
      /\ Payable(i)
      /\ landed' = [landed EXCEPT ![i] = "ok"]
      /\ claimed' = [claimed EXCEPT ![x] = @ + Due(c)]
      /\ bound' = [bound EXCEPT ![x] = challenge[c].wallet]
      /\ receipt' = [receipt EXCEPT ![c] =
           [wallet |-> challenge[c].wallet, amount |-> Due(c)]]
      /\ UNCHANGED <<dbVars, worker, sent, entitled, control, now>>

(* The instruction, or another one of its transaction, fails. *)
Reject(i) ==
  /\ Includable(i)
  /\ landed' = [landed EXCEPT ![i] = "err"]
  /\ UNCHANGED <<dbVars, worker, sent, entitled, escrowVars, control, now>>

Collect(x, amount) ==
  /\ entitled[x] + amount <= MaxEntitled
  /\ entitled' = [entitled EXCEPT ![x] = @ + amount]
  /\ UNCHANGED <<dbVars, worker, sent, landed, escrowVars, control, now>>

SetPaused(flag) ==
  /\ control' = [control EXCEPT !.paused = flag]
  /\ UNCHANGED <<dbVars, worker, sent, landed, entitled, escrowVars, now>>

RotateVerifier ==
  /\ control.epoch < MaxEpoch
  /\ control' = [control EXCEPT !.epoch = @ + 1]
  /\ UNCHANGED <<dbVars, worker, sent, landed, entitled, escrowVars, now>>

Tick ==
  /\ now < MaxTime
  /\ now' = now + 1
  /\ UNCHANGED <<dbVars, worker, sent, landed, entitled, escrowVars, control>>

-----------------------------------------------------------------------------

PrepareStep(w) ==
  \/ ReadChallenge(w) \/ ReadReceipt(w) \/ ReadLatest(w) \/ ReadBalances(w)
  \/ \E i \in Intents, until \in 0 .. MaxTime : StoreIntent(w, i, until)
  \/ Issue(w)

ReconcileStep(w) ==
  \/ ReadStatus(w) \/ ReadHeight(w) \/ Fail(w) \/ Expire(w)
  \/ ReadPayment(w) \/ Consume(w) \/ Confirm(w)

Environment ==
  \/ \E i \in Intents : Submit(i) \/ Pay(i) \/ Reject(i)
  \/ \E x \in XIds, amount \in Amounts : Collect(x, amount)
  \/ \E flag \in BOOLEAN : SetPaused(flag)
  \/ RotateVerifier
  \/ Tick

Next ==
  \/ \E a \in Wallets, x \in XIds : LinkX(a, x)
  \/ \E w \in Workers :
       \/ \E a \in Wallets : BindFeeWallet(w, a)
       \/ \E x \in XIds, amount \in Amounts : CreateFeeChallenge(w, x, amount)
       \/ \E c \in Challenges : \/ InsertChallenge(w, c)
                                \/ \E p \in Posts : VerifyFeeChallenge(w, c, p)
                                \/ PrepareCreatorFeeClaim(w, c)
                                \/ ReconcileCreatorFeeClaim(w, c)
       \/ \E i \in Intents : Reconcile(w, i)
       \/ InsertBinding(w) \/ MarkVerified(w) \/ PrepareStep(w) \/ ReconcileStep(w)
       \/ Leave(w)
  \/ Environment

Spec == Init /\ [][Next]_vars

(* Requests die at any await, over and over, until the clock stops; from   *)
(* then on one that reconciles takes its steps while it has any.           *)
DeathsEnd(w) ==
  now = MaxTime /\ worker[w] # worker'[w] /\ ENABLED ReconcileStep(w)
    => ReconcileStep(w)

(* Time passes and every request ends. The escrow may stay paused for good.*)
Fairness ==
  /\ WF_vars(Tick)
  /\ \A w \in Workers : WF_vars(Leave(w)) /\ WF_vars(ReconcileStep(w))

FairSpec == Init /\ [][Next /\ \A w \in Workers : DeathsEnd(w)]_vars /\ Fairness

-----------------------------------------------------------------------------
(* Properties *)

(* A challenge whose cap was computed from a balance read before its post  *)
(* was written, before others were paid and before any retry, still pays   *)
(* at least one unit and at most the amount requested, to the wallet that  *)
(* requested it and that its account is bound to. So the 409 of            *)
(* reconcileCreatorFeeClaim never keeps a payment from being recorded.     *)
PaidAsRequested ==
  \A c \in Challenges : receipt[c] # None =>
    /\ Matches(c)
    /\ receipt[c].wallet = binding[challenge[c].xid]

(* However requests to bind, and re-linked profiles, interleave, an        *)
(* account has one wallet, a wallet one account, and the escrow's binding  *)
(* never contradicts the database's (bindFeeWallet; docs/x-fee-escrow.md:  *)
(* "Payment goes only to the bound wallet's token account").               *)
OneWalletPerAccount ==
  \A x \in XIds :
    /\ bound[x] \in {None, binding[x]}
    /\ \A y \in XIds \ {x} : binding[x] = None \/ binding[x] # binding[y]
    /\ \A c \in Challenges : challenge[c] # None /\ challenge[c].xid = x =>
         challenge[c].wallet = binding[x]

(* A claim told "confirmed" is a challenge told "consumed", and a challenge *)
(* is consumed only when it was paid: no request that is still preparing   *)
(* or verifying it sets it back ("readiness failures do not consume the    *)
(* challenge", docs/x-fee-api.md).                                         *)
ConfirmedIsConsumed ==
  /\ \A i \in Intents : intent[i] # None /\ intent[i].status = "confirmed" =>
       challenge[intent[i].challenge].status = "consumed"
  /\ \A c \in Challenges :
       challenge[c] # None /\ challenge[c].status = "consumed" => receipt[c] # None

(* Every claim told "confirmed" is a challenge that was paid and consumed, *)
(* whatever is stored of the two (reconcileCreatorFeeClaim).               *)
ClaimsAreConsumed == TypeOK /\ ConfirmedIsConsumed

(* pending, verified, issued, consumed: a challenge never goes back, and   *)
(* the post that proved it is never exchanged for another.                 *)
Rank == [pending |-> 0, verified |-> 1, issued |-> 2, consumed |-> 3]

ChallengesOnlyAdvance ==
  [][\A c \in Challenges : challenge[c] # None =>
       /\ challenge'[c] # None
       /\ Rank[challenge'[c].status] >= Rank[challenge[c].status]
       /\ challenge[c].post \in {None, challenge'[c].post}]_vars

(* Reconcile is called for a claim again and again: by its page, or by the *)
(* job when it reaches the claim's row.  Nothing guarantees the second: a  *)
(* launch with shared fees that landed makes the job throw while the       *)
(* escrow is paused, and keeps it from the rows behind (runIndexer).       *)
ComesBackTo(i) == SF_vars(\E w \in Workers : Reconcile(w, i))

(* A submitted claim is settled even while the escrow is paused for good   *)
(* ("paid-receipt reconciliation remain available while paused",           *)
(* docs/x-fee-escrow.md), if reconcile is called for it again and again.   *)
ClaimsSettle ==
  \A i \in Intents :
    ComesBackTo(i) =>
      (i \in sent ~> intent[i] # None /\ intent[i].status \in Terminal)

Requests ==
  INSTANCE FeeRequests WITH
    owner <- binding,
    request <- [c \in Challenges |->
      IF challenge[c] = None THEN None
      ELSE [xid |-> challenge[c].xid, amount |-> challenge[c].amount]],
    proof <- [c \in Challenges |->
      IF challenge[c] = None THEN None ELSE challenge[c].post],
    payment <- receipt

(* The claim service and the escrow together implement FeeRequests: only a *)
(* proven request is paid, once, whatever was prepared and submitted.      *)
ImplementsRequests == Requests!Spec
=============================================================================
