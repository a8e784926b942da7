--------------------------- MODULE FeeClaimsProofs ---------------------------
(***************************************************************************)
(* Theorems about FeeClaims, for any accounts, wallets, posts, requests in *)
(* flight and clock. A handler acts on what it read at its first awaits,   *)
(* so the argument rests on what no step of any other request can take     *)
(* back (Grows): bindings, the fixed fields of a challenge, its proof, its *)
(* consumption, receipts, and what the escrow has paid. What each job      *)
(* knows (JobInv) and what each row says (the rest of ClaimsInv) is stable *)
(* under Grows; each action then only has to establish what it writes.     *)
(***************************************************************************)
EXTENDS FeeClaims, TLAPS

PrepareSteps == {"challenge", "receipt", "latest", "balance", "store", "issue"}
ProvenSteps == PrepareSteps \ {"challenge"}
ReconcileSteps == {"status", "height", "fail", "expire", "confirm"}
PaymentSteps == {"payment", "consume"}

(* What a request in a handler may rely on: what it read is still so.      *)
JobInv(w) ==
  LET job == worker[w]
  IN  job # None =>
        /\ job.at = "ask" =>
             job.wallet = binding[job.xid] /\ job.claimed <= claimed[job.xid]
        /\ job.at \in {"verify"} \cup PrepareSteps \cup PaymentSteps =>
             challenge[job.id] # None
        /\ job.at \in ProvenSteps => challenge[job.id].post # None
        /\ job.at = "consume" => receipt[job.id] # None
        /\ job.at \in PaymentSteps /\ job.intent # None =>
             intent[job.intent] # None /\ intent[job.intent].challenge = job.id
        /\ job.at \in ReconcileSteps => intent[job.intent] # None
        /\ job.at = "confirm" =>
             challenge[intent[job.intent].challenge].status = "consumed"

BindingInv ==
  /\ \A x \in XIds : bound[x] \in {None, binding[x]}
  /\ \A x, y \in XIds : x # y => binding[x] = None \/ binding[x] # binding[y]

(* The cap was computed from a balance that has only grown since.          *)
ChallengeInv(c) ==
  challenge[c] # None =>
    /\ challenge[c].wallet = binding[challenge[c].xid]
    /\ challenge[c].limit <= claimed[challenge[c].xid] + challenge[c].amount
    /\ challenge[c].post = None <=> challenge[c].status = "pending"
    /\ challenge[c].status = "consumed" => receipt[c] # None

IntentInv(i) ==
  intent[i] # None =>
    /\ challenge[intent[i].challenge] # None
    /\ challenge[intent[i].challenge].post # None
    /\ intent[i].status = "confirmed" =>
         challenge[intent[i].challenge].status = "consumed"

ReceiptInv(c) ==
  receipt[c] # None =>
    /\ challenge[c] # None
    /\ challenge[c].post # None
    /\ receipt[c].wallet = challenge[c].wallet
    /\ receipt[c].amount \in 1 .. challenge[c].amount

ClaimsInv ==
  /\ TypeOK
  /\ BindingInv
  /\ \A w \in Workers : JobInv(w)
  /\ \A c \in Challenges : ChallengeInv(c) /\ ReceiptInv(c)
  /\ \A i \in Intents : IntentInv(i)
  /\ \A i \in sent : intent[i] # None

-----------------------------------------------------------------------------
(* Types *)

LEMMA PrepareJob ==
  ASSUME TypeOK, NEW w \in Workers, worker[w] # None,
         worker[w].at \in PrepareSteps, NEW s \in PrepareSteps
  PROVE  /\ worker[w].id \in Challenges /\ worker[w].epoch \in Nat
         /\ [worker[w] EXCEPT !.at = s] \in Job
         /\ [worker[w] EXCEPT !.at = s].at = s
         /\ [worker[w] EXCEPT !.at = s].id = worker[w].id
<1>1. worker[w] \in Job
  BY DEF TypeOK
<1>2. worker[w] \in [at : PrepareSteps, id : Challenges, epoch : Nat]
  BY <1>1 DEF Job, PrepareSteps
<1>3. [worker[w] EXCEPT !.at = s] \in [at : PrepareSteps, id : Challenges, epoch : Nat]
  BY <1>2
<1>. QED  BY <1>2, <1>3 DEF Job, PrepareSteps

LEMMA ReconcileJob ==
  ASSUME TypeOK, NEW w \in Workers, worker[w] # None,
         worker[w].at \in ReconcileSteps, NEW s \in ReconcileSteps
  PROVE  /\ worker[w].intent \in Intents
         /\ [worker[w] EXCEPT !.at = s] \in Job
         /\ [worker[w] EXCEPT !.at = s].at = s
         /\ [worker[w] EXCEPT !.at = s].intent = worker[w].intent
<1>1. worker[w] \in Job
  BY DEF TypeOK
<1>2. worker[w] \in [at : ReconcileSteps, intent : Intents]
  BY <1>1 DEF Job, ReconcileSteps
<1>3. [worker[w] EXCEPT !.at = s] \in [at : ReconcileSteps, intent : Intents]
  BY <1>2
<1>. QED  BY <1>2, <1>3 DEF Job, ReconcileSteps

LEMMA PaymentJob ==
  ASSUME TypeOK, NEW w \in Workers, worker[w] # None,
         worker[w].at \in PaymentSteps, NEW s \in PaymentSteps
  PROVE  /\ worker[w].id \in Challenges /\ worker[w].intent \in Intents \cup {None}
         /\ [worker[w] EXCEPT !.at = s] \in Job
         /\ [worker[w] EXCEPT !.at = s].at = s
         /\ [worker[w] EXCEPT !.at = s].id = worker[w].id
         /\ [worker[w] EXCEPT !.at = s].intent = worker[w].intent
<1>1. worker[w] \in Job
  BY DEF TypeOK
<1>2. worker[w] \in [at : PaymentSteps, id : Challenges, intent : Intents \cup {None}]
  BY <1>1 DEF Job, PaymentSteps
<1>3. [worker[w] EXCEPT !.at = s]
        \in [at : PaymentSteps, id : Challenges, intent : Intents \cup {None}]
  BY <1>2
<1>. QED  BY <1>2, <1>3 DEF Job, PaymentSteps

LEMMA OtherJobs ==
  ASSUME TypeOK, NEW w \in Workers, worker[w] # None
  PROVE  /\ worker[w].at = "bind" => worker[w].wallet \in Wallets /\ worker[w].xid \in XIds
         /\ worker[w].at = "ask" =>
              /\ worker[w].wallet \in Wallets /\ worker[w].xid \in XIds
              /\ worker[w].amount \in Amounts /\ worker[w].claimed \in Nat
         /\ worker[w].at = "verify" =>
              worker[w].id \in Challenges /\ worker[w].post \in Posts
<1>1. worker[w] \in Job
  BY DEF TypeOK
<1>. QED  BY <1>1 DEF Job

LEMMA RowFields ==
  ASSUME TypeOK
  PROVE  /\ \A c \in Challenges : challenge[c] # None =>
              /\ challenge[c] \in Challenge
              /\ challenge[c].xid \in XIds /\ challenge[c].wallet \in Wallets
              /\ challenge[c].amount \in Nat \ {0} /\ challenge[c].limit \in Nat
              /\ challenge[c].status \in ChallengeStatus
              /\ challenge[c].post \in Posts \cup {None}
              /\ challenge[c].expires \in Nat
         /\ \A i \in Intents : intent[i] # None =>
              /\ intent[i] \in Intent
              /\ intent[i].challenge \in Challenges /\ intent[i].epoch \in Nat
              /\ intent[i].until \in Nat
         /\ \A c \in Challenges : receipt[c] # None =>
              receipt[c].wallet \in Wallets /\ receipt[c].amount \in Nat
BY ClaimsAssumption DEF TypeOK, Challenge, Intent, Receipt

-----------------------------------------------------------------------------
(* What no step takes back *)

Grows ==
  /\ \A x \in XIds : binding[x] # None => binding'[x] = binding[x]
  /\ \A x \in XIds : claimed[x] <= claimed'[x]
  /\ \A c \in Challenges : challenge[c] # None =>
       /\ challenge'[c] # None
       /\ challenge'[c].xid = challenge[c].xid
       /\ challenge'[c].wallet = challenge[c].wallet
       /\ challenge'[c].amount = challenge[c].amount
       /\ challenge'[c].limit = challenge[c].limit
       /\ challenge[c].post # None => challenge'[c].post = challenge[c].post
       /\ challenge[c].status = "consumed" => challenge'[c].status = "consumed"
  /\ \A c \in Challenges : receipt[c] # None => receipt'[c] = receipt[c]
  /\ \A i \in Intents : intent[i] # None =>
       intent'[i] # None /\ intent'[i].challenge = intent[i].challenge
  /\ \A i \in sent' : i \in sent \/ intent'[i] # None

(* A step that touches one job leaves the others what they knew.           *)
LEMMA JobsKept ==
  ASSUME ClaimsInv, TypeOK', Grows, NEW w \in Workers, worker'[w] = worker[w]
  PROVE  JobInv(w)'
<1>. SUFFICES ASSUME worker[w] # None
              PROVE  JobInv(w)'
  BY DEF JobInv
<1>. DEFINE job == worker[w]
<1>1. JobInv(w) /\ TypeOK
  BY DEF ClaimsInv
<1>2. CASE job.at = "bind"
  BY <1>2 DEF JobInv, PrepareSteps, ProvenSteps, PaymentSteps, ReconcileSteps
<1>3. CASE job.at = "ask"
  <2>1. job.xid \in XIds /\ job.claimed \in Nat /\ job.wallet # None
    BY <1>1, <1>3, OtherJobs, ClaimsAssumption
  <2>2. claimed[job.xid] \in Nat /\ claimed'[job.xid] \in Nat /\ job.claimed <= claimed[job.xid]
    BY <1>1, <1>3, <2>1 DEF JobInv, TypeOK
  <2>3. job.wallet = binding'[job.xid] /\ claimed[job.xid] <= claimed'[job.xid]
    BY <1>1, <1>3, <2>1 DEF JobInv, Grows
  <2>. QED  BY <1>3, <2>1, <2>2, <2>3
        DEF JobInv, PrepareSteps, ProvenSteps, PaymentSteps, ReconcileSteps
<1>4. CASE job.at = "verify"
  <2>1. job.id \in Challenges /\ challenge[job.id] # None
    BY <1>1, <1>4, OtherJobs DEF JobInv
  <2>2. challenge'[job.id] # None
    BY <2>1 DEF Grows
  <2>. QED  BY <1>4, <2>2
        DEF JobInv, PrepareSteps, ProvenSteps, PaymentSteps, ReconcileSteps
<1>5. CASE job.at \in PrepareSteps
  <2>1. job.id \in Challenges /\ challenge[job.id] # None
    BY <1>1, <1>5, PrepareJob DEF JobInv
  <2>2. job.at \in ProvenSteps => challenge[job.id].post # None
    BY <1>1 DEF JobInv
  <2>3. /\ challenge'[job.id] # None
        /\ job.at \in ProvenSteps => challenge'[job.id].post # None
    BY <2>1, <2>2 DEF Grows
  <2>. QED  BY <1>5, <2>3
        DEF JobInv, PrepareSteps, ProvenSteps, PaymentSteps, ReconcileSteps
<1>6. CASE job.at \in PaymentSteps
  <2>1. /\ job.id \in Challenges /\ challenge[job.id] # None
        /\ job.intent \in Intents \cup {None}
    BY <1>1, <1>6, PaymentJob DEF JobInv
  <2>2. /\ challenge'[job.id] # None
        /\ job.at = "consume" => receipt'[job.id] # None
    BY <1>1, <2>1 DEF JobInv, Grows
  <2>3. job.intent # None =>
          intent'[job.intent] # None /\ intent'[job.intent].challenge = job.id
    BY <1>1, <1>6, <2>1 DEF JobInv, Grows
  <2>. QED  BY <1>6, <2>2, <2>3
        DEF JobInv, PrepareSteps, ProvenSteps, PaymentSteps, ReconcileSteps
<1>7. CASE job.at \in ReconcileSteps
  <2>. DEFINE i == job.intent
  <2>1. i \in Intents /\ intent[i] # None
    BY <1>1, <1>7, ReconcileJob DEF JobInv
  <2>2. intent'[i] # None /\ intent'[i].challenge = intent[i].challenge
    BY <2>1 DEF Grows
  <2>3. intent[i].challenge \in Challenges /\ challenge[intent[i].challenge] # None
    BY <1>1, <2>1, RowFields DEF ClaimsInv, IntentInv
  <2>4. job.at = "confirm" => challenge'[intent'[i].challenge].status = "consumed"
    BY <1>1, <2>2, <2>3 DEF JobInv, Grows
  <2>. QED  BY <1>7, <2>2, <2>4
        DEF JobInv, PrepareSteps, ProvenSteps, PaymentSteps, ReconcileSteps
<1>. QED
  BY <1>1, <1>2, <1>3, <1>4, <1>5, <1>6, <1>7
  DEF TypeOK, Job, PrepareSteps, PaymentSteps, ReconcileSteps

(* Rows a step did not write keep what they say.                           *)
LEMMA ChallengeKept ==
  ASSUME ClaimsInv, TypeOK', Grows, NEW c \in Challenges,
         challenge'[c] = challenge[c]
  PROVE  ChallengeInv(c)'
<1>. SUFFICES ASSUME challenge[c] # None
              PROVE  ChallengeInv(c)'
  BY DEF ChallengeInv
<1>1. /\ challenge[c].xid \in XIds /\ challenge[c].wallet \in Wallets
      /\ challenge[c].amount \in Nat /\ challenge[c].limit \in Nat
  BY RowFields DEF ClaimsInv
<1>2. ChallengeInv(c)
  BY DEF ClaimsInv
<1>3. binding'[challenge[c].xid] = challenge[c].wallet
  BY <1>1, <1>2, ClaimsAssumption DEF ChallengeInv, Grows
<1>4. challenge[c].limit <= claimed'[challenge[c].xid] + challenge[c].amount
  <2>1. /\ claimed[challenge[c].xid] \in Nat /\ claimed'[challenge[c].xid] \in Nat
        /\ claimed[challenge[c].xid] <= claimed'[challenge[c].xid]
    BY <1>1 DEF ClaimsInv, TypeOK, Grows
  <2>. QED  BY <1>1, <1>2, <2>1 DEF ChallengeInv
<1>5. receipt[c] # None => receipt'[c] # None
  BY DEF Grows
<1>. QED  BY <1>2, <1>3, <1>4, <1>5 DEF ChallengeInv

LEMMA IntentKept ==
  ASSUME ClaimsInv, Grows, NEW i \in Intents, intent'[i] = intent[i]
  PROVE  IntentInv(i)'
<1>. SUFFICES ASSUME intent[i] # None
              PROVE  IntentInv(i)'
  BY DEF IntentInv
<1>1. intent[i].challenge \in Challenges
  BY RowFields DEF ClaimsInv
<1>2. IntentInv(i)
  BY DEF ClaimsInv
<1>. QED  BY <1>1, <1>2 DEF IntentInv, Grows

LEMMA ReceiptKept ==
  ASSUME ClaimsInv, Grows, NEW c \in Challenges, receipt'[c] = receipt[c]
  PROVE  ReceiptInv(c)'
<1>1. ReceiptInv(c)
  BY DEF ClaimsInv
<1>. QED  BY <1>1 DEF ReceiptInv, Grows

(* So a step has to account for what it writes, and for nothing else.      *)
LEMMA Assemble ==
  ASSUME ClaimsInv, TypeOK', Grows, BindingInv',
         \A w \in Workers : worker'[w] = worker[w] \/ JobInv(w)',
         \A c \in Challenges : challenge'[c] = challenge[c] \/ ChallengeInv(c)',
         \A c \in Challenges : receipt'[c] = receipt[c] \/ ReceiptInv(c)',
         \A i \in Intents : intent'[i] = intent[i] \/ IntentInv(i)'
  PROVE  ClaimsInv'
<1>1. \A w \in Workers : JobInv(w)'
  BY JobsKept
<1>2. \A c \in Challenges : ChallengeInv(c)' /\ ReceiptInv(c)'
  BY ChallengeKept, ReceiptKept
<1>3. \A i \in Intents : IntentInv(i)'
  BY IntentKept
<1>4. \A i \in sent' : intent'[i] # None
  BY DEF ClaimsInv, TypeOK, Grows
<1>. QED  BY <1>1, <1>2, <1>3, <1>4 DEF ClaimsInv

-----------------------------------------------------------------------------
(* Steps that write no row: what a request has read *)

LEMMA JobStep ==
  ASSUME ClaimsInv, UNCHANGED <<dbVars, chainVars>>, NEW w \in Workers,
         NEW job \in Job \cup {None}, worker' = [worker EXCEPT ![w] = job],
         JobInv(w)'
  PROVE  ClaimsInv'
<1>1. TypeOK'
  BY DEF ClaimsInv, TypeOK, dbVars, chainVars, escrowVars
<1>2. Grows
  <2>1. \A x \in XIds : claimed[x] \in Nat
    BY DEF ClaimsInv, TypeOK
  <2>. QED  BY <2>1 DEF Grows, dbVars, chainVars, escrowVars
<1>3. BindingInv'
  BY DEF ClaimsInv, BindingInv, dbVars, chainVars, escrowVars
<1>4. \A v \in Workers : worker'[v] = worker[v] \/ JobInv(v)'
  BY DEF ClaimsInv, TypeOK
<1>. QED  BY <1>1, <1>2, <1>3, <1>4, Assemble DEF dbVars, chainVars, escrowVars

LEMMA FinishStep ==
  ASSUME ClaimsInv, UNCHANGED <<dbVars, chainVars>>, NEW w \in Workers, Finish(w)
  PROVE  ClaimsInv'
<1>1. worker' = [worker EXCEPT ![w] = None] /\ worker'[w] = None
  BY DEF Finish, ClaimsInv, TypeOK
<1>2. JobInv(w)'
  BY <1>1 DEF JobInv
<1>. QED  BY <1>1, <1>2, JobStep

LEMMA StartStep ==
  ASSUME ClaimsInv, UNCHANGED <<dbVars, chainVars>>, NEW w \in Workers,
         \/ \E a \in Wallets : BindFeeWallet(w, a)
         \/ \E x \in XIds, amount \in Amounts : CreateFeeChallenge(w, x, amount)
         \/ \E c \in Challenges, p \in Posts : VerifyFeeChallenge(w, c, p)
         \/ \E c \in Challenges : PrepareCreatorFeeClaim(w, c)
         \/ \E c \in Challenges : ReconcileCreatorFeeClaim(w, c)
         \/ \E i \in Intents : Reconcile(w, i)
  PROVE  ClaimsInv'
<1>. USE DEF Start
<1>t. TypeOK
  BY DEF ClaimsInv
<1>1. ASSUME NEW a \in Wallets, BindFeeWallet(w, a)
      PROVE  ClaimsInv'
  <2>. DEFINE job == [at |-> "bind", wallet |-> a, xid |-> profile[a]]
  <2>1. worker' = [worker EXCEPT ![w] = job] /\ worker'[w] = job
    BY <1>1, <1>t DEF BindFeeWallet, TypeOK
  <2>2. job \in Job
    BY <1>1, <1>t DEF BindFeeWallet, Linked, TypeOK, Job
  <2>3. JobInv(w)'
    BY <2>1 DEF JobInv, PrepareSteps, ProvenSteps, PaymentSteps, ReconcileSteps
  <2>. QED  BY <2>1, <2>2, <2>3, JobStep
<1>2. ASSUME NEW x \in XIds, NEW amount \in Amounts, CreateFeeChallenge(w, x, amount)
      PROVE  ClaimsInv'
  <2>. DEFINE job == [at |-> "ask", wallet |-> binding[x], xid |-> x,
                      amount |-> amount, claimed |-> claimed[x]]
  <2>1. worker' = [worker EXCEPT ![w] = job] /\ worker'[w] = job
    BY <1>2, <1>t DEF CreateFeeChallenge, TypeOK
  <2>2. job \in Job /\ claimed[x] \in Nat
    BY <1>2, <1>t DEF CreateFeeChallenge, TypeOK, Job
  <2>3. binding' = binding /\ claimed' = claimed
    BY DEF dbVars, chainVars, escrowVars
  <2>4. JobInv(w)'
    BY <2>1, <2>2, <2>3 DEF JobInv, PrepareSteps, ProvenSteps, PaymentSteps, ReconcileSteps
  <2>. QED  BY <2>1, <2>2, <2>4, JobStep
<1>3. ASSUME NEW c \in Challenges, NEW p \in Posts, VerifyFeeChallenge(w, c, p)
      PROVE  ClaimsInv'
  <2>. DEFINE job == [at |-> "verify", id |-> c, post |-> p]
  <2>1. worker' = [worker EXCEPT ![w] = job] /\ worker'[w] = job
    BY <1>3, <1>t DEF VerifyFeeChallenge, TypeOK
  <2>2. job \in Job
    BY DEF Job
  <2>3. challenge'[c] # None
    BY <1>3 DEF VerifyFeeChallenge, dbVars
  <2>4. JobInv(w)'
    BY <2>1, <2>3 DEF JobInv, PrepareSteps, ProvenSteps, PaymentSteps, ReconcileSteps
  <2>. QED  BY <2>1, <2>2, <2>4, JobStep
<1>4. ASSUME NEW c \in Challenges, PrepareCreatorFeeClaim(w, c)
      PROVE  ClaimsInv'
  <2>. DEFINE job == [at |-> "challenge", id |-> c, epoch |-> control.epoch]
  <2>1. worker' = [worker EXCEPT ![w] = job] /\ worker'[w] = job
    BY <1>4, <1>t DEF PrepareCreatorFeeClaim, TypeOK
  <2>2. job \in Job
    BY <1>t DEF Job, TypeOK
  <2>3. challenge'[c] # None
    BY <1>4 DEF PrepareCreatorFeeClaim, dbVars
  <2>4. JobInv(w)'
    BY <2>1, <2>3 DEF JobInv, PrepareSteps, ProvenSteps, PaymentSteps, ReconcileSteps
  <2>. QED  BY <2>1, <2>2, <2>4, JobStep
<1>5. ASSUME NEW c \in Challenges, ReconcileCreatorFeeClaim(w, c)
      PROVE  ClaimsInv'
  <2>. DEFINE job == [at |-> "payment", id |-> c, intent |-> None]
  <2>1. worker' = [worker EXCEPT ![w] = job] /\ worker'[w] = job
    BY <1>5, <1>t DEF ReconcileCreatorFeeClaim, TypeOK
  <2>2. job \in Job
    BY DEF Job
  <2>3. challenge'[c] # None
    BY <1>5 DEF ReconcileCreatorFeeClaim, dbVars
  <2>4. JobInv(w)'
    BY <2>1, <2>3 DEF JobInv, PrepareSteps, ProvenSteps, PaymentSteps, ReconcileSteps
  <2>. QED  BY <2>1, <2>2, <2>4, JobStep
<1>6. ASSUME NEW i \in Intents, Reconcile(w, i)
      PROVE  ClaimsInv'
  <2>. DEFINE job == [at |-> IF intent[i].status = "submitted" THEN "status" ELSE "height",
                      intent |-> i]
  <2>1. worker' = [worker EXCEPT ![w] = job] /\ worker'[w] = job
    BY <1>6, <1>t DEF Reconcile, TypeOK
  <2>2. job \in Job
    BY DEF Job
  <2>3. intent'[i] # None
    BY <1>6 DEF Reconcile, dbVars
  <2>4. JobInv(w)'
    BY <2>1, <2>3 DEF JobInv, PrepareSteps, ProvenSteps, PaymentSteps, ReconcileSteps
  <2>. QED  BY <2>1, <2>2, <2>4, JobStep
<1>. QED  BY <1>1, <1>2, <1>3, <1>4, <1>5, <1>6

LEMMA ReadStep ==
  ASSUME ClaimsInv, UNCHANGED <<dbVars, chainVars>>, NEW w \in Workers,
         \/ ReadChallenge(w) \/ ReadReceipt(w) \/ ReadLatest(w)
         \/ ReadBalances(w) \/ ReadStatus(w) \/ ReadHeight(w) \/ ReadPayment(w)
  PROVE  ClaimsInv'
<1>. USE DEF At
<1>t. TypeOK /\ JobInv(w)
  BY DEF ClaimsInv
<1>u. challenge' = challenge /\ intent' = intent /\ receipt' = receipt
  BY DEF dbVars, chainVars, escrowVars
<1>1. ASSUME NEW s \in ProvenSteps \ {"issue"}, worker[w] # None,
             worker[w].at \in PrepareSteps, GoOn(w, s),
             challenge[worker[w].id].post # None
      PROVE  ClaimsInv'
  <2>. DEFINE job == [worker[w] EXCEPT !.at = s]
  <2>1. s \in PrepareSteps
    BY DEF ProvenSteps
  <2>2. job \in Job /\ job.at = s /\ job.id = worker[w].id
    BY <1>1, <1>t, <2>1, PrepareJob
  <2>3. worker' = [worker EXCEPT ![w] = job] /\ worker'[w] = job
    BY <1>1, <1>t DEF GoOn, TypeOK
  <2>4. challenge[worker[w].id] # None
    BY <1>1, <1>t DEF JobInv
  <2>. HIDE DEF job
  <2>5. JobInv(w)'
    BY <1>1, <1>u, <2>1, <2>2, <2>3, <2>4
    DEF JobInv, PrepareSteps, ProvenSteps, PaymentSteps, ReconcileSteps
  <2>. QED  BY <2>2, <2>3, <2>5, JobStep
<1>2. CASE ReadChallenge(w)
  <2>1. worker[w] # None /\ worker[w].at = "challenge" /\ GoOn(w, "receipt")
    BY <1>2 DEF ReadChallenge
  <2>2. worker[w].id \in Challenges /\ challenge[worker[w].id] # None
    BY <1>t, <2>1, PrepareJob DEF JobInv, PrepareSteps
  <2>3. challenge[worker[w].id].post # None
    BY <1>2, <2>2 DEF ReadChallenge, Verified, ClaimsInv, ChallengeInv
  <2>. QED  BY <1>1, <2>1, <2>3 DEF PrepareSteps, ProvenSteps
<1>3. CASE ReadReceipt(w)
  BY <1>1, <1>3, <1>t DEF ReadReceipt, JobInv, PrepareSteps, ProvenSteps
<1>4. CASE ReadLatest(w)
  BY <1>1, <1>4, <1>t DEF ReadLatest, JobInv, PrepareSteps, ProvenSteps
<1>5. CASE ReadBalances(w)
  BY <1>1, <1>5, <1>t DEF ReadBalances, JobInv, PrepareSteps, ProvenSteps
<1>6. CASE ReadStatus(w)
  <2>. DEFINE i == worker[w].intent
              job == CASE landed[i] = "ok" -> [at |-> "payment",
                            id |-> intent[i].challenge, intent |-> i]
                       [] landed[i] = "err" -> [at |-> "fail", intent |-> i]
                       [] OTHER -> [at |-> "height", intent |-> i]
  <2>1. worker' = [worker EXCEPT ![w] = job] /\ worker'[w] = job
    BY <1>6, <1>t DEF ReadStatus, TypeOK
  <2>2. worker[w] # None /\ worker[w].at = "status"
    BY <1>6 DEF ReadStatus
  <2>3. i \in Intents /\ intent[i] # None
    BY <1>t, <2>2, ReconcileJob DEF JobInv, ReconcileSteps
  <2>4. intent[i].challenge \in Challenges /\ challenge[intent[i].challenge] # None
    BY <1>t, <2>3, RowFields DEF ClaimsInv, IntentInv
  <2>5. \/ job = [at |-> "payment", id |-> intent[i].challenge, intent |-> i]
        \/ job = [at |-> "fail", intent |-> i]
        \/ job = [at |-> "height", intent |-> i]
    OBVIOUS
  <2>. HIDE DEF job
  <2>6. job \in Job
    BY <2>3, <2>4, <2>5 DEF Job
  <2>7. JobInv(w)'
    BY <1>u, <2>1, <2>3, <2>4, <2>5
    DEF JobInv, PrepareSteps, ProvenSteps, PaymentSteps, ReconcileSteps
  <2>. QED  BY <2>1, <2>6, <2>7, JobStep
<1>7. CASE ReadHeight(w)
  <2>. DEFINE job == [worker[w] EXCEPT !.at = "expire"]
  <2>1. worker[w] # None /\ worker[w].at = "height"
    BY <1>7 DEF ReadHeight
  <2>2. job \in Job /\ job.at = "expire" /\ job.intent = worker[w].intent
    BY <1>t, <2>1, ReconcileJob DEF ReconcileSteps
  <2>3. worker' = [worker EXCEPT ![w] = job] /\ worker'[w] = job
    BY <1>7, <1>t DEF ReadHeight, GoOn, TypeOK
  <2>4. intent[worker[w].intent] # None
    BY <1>t, <2>1 DEF JobInv, ReconcileSteps
  <2>. HIDE DEF job
  <2>5. JobInv(w)'
    BY <1>u, <2>2, <2>3, <2>4
    DEF JobInv, PrepareSteps, ProvenSteps, PaymentSteps, ReconcileSteps
  <2>. QED  BY <2>2, <2>3, <2>5, JobStep
<1>8. CASE ReadPayment(w)
  <2>. DEFINE job == [worker[w] EXCEPT !.at = "consume"]
  <2>1. worker[w] # None /\ worker[w].at = "payment"
    BY <1>8 DEF ReadPayment
  <2>2. job \in Job /\ job.at = "consume" /\ job.id = worker[w].id
        /\ job.intent = worker[w].intent
    BY <1>t, <2>1, PaymentJob DEF PaymentSteps
  <2>3. worker' = [worker EXCEPT ![w] = job] /\ worker'[w] = job
    BY <1>8, <1>t DEF ReadPayment, GoOn, TypeOK
  <2>4. receipt[worker[w].id] # None
    BY <1>8 DEF ReadPayment, Matches
  <2>5. /\ challenge[worker[w].id] # None
        /\ worker[w].intent # None =>
             /\ intent[worker[w].intent] # None
             /\ intent[worker[w].intent].challenge = worker[w].id
    BY <1>t, <2>1 DEF JobInv, PaymentSteps
  <2>. HIDE DEF job
  <2>6. JobInv(w)'
    BY <1>u, <2>2, <2>3, <2>4, <2>5
    DEF JobInv, PrepareSteps, ProvenSteps, PaymentSteps, ReconcileSteps
  <2>. QED  BY <2>2, <2>3, <2>6, JobStep
<1>. QED  BY <1>2, <1>3, <1>4, <1>5, <1>6, <1>7, <1>8

-----------------------------------------------------------------------------
(* Steps that write a row *)

(* The clock, the collections and the verifier's controls.                 *)
LEMMA AmbientStep ==
  ASSUME ClaimsInv,
         \/ \E a \in Wallets, x \in XIds : LinkX(a, x)
         \/ \E i \in Intents : Reject(i)
         \/ \E x \in XIds, amount \in Amounts : Collect(x, amount)
         \/ \E flag \in BOOLEAN : SetPaused(flag)
         \/ RotateVerifier
         \/ Tick
  PROVE  ClaimsInv'
<1>t. TypeOK
  BY DEF ClaimsInv
<1>1. UNCHANGED <<binding, challenge, intent, worker, sent, escrowVars>>
  BY DEF LinkX, Reject, Collect, SetPaused, RotateVerifier, Tick, dbVars,
         chainVars, escrowVars
<1>2. TypeOK'
  <2>1. ASSUME NEW a \in Wallets, NEW x \in XIds, LinkX(a, x)
        PROVE  TypeOK'
    BY <2>1, <1>t DEF LinkX, TypeOK, chainVars, escrowVars
  <2>2. ASSUME NEW i \in Intents, Reject(i)
        PROVE  TypeOK'
    BY <2>2, <1>t DEF Reject, TypeOK, dbVars, escrowVars
  <2>3. ASSUME NEW x \in XIds, NEW amount \in Amounts, Collect(x, amount)
        PROVE  TypeOK'
    BY <2>3, <1>t, ClaimsAssumption DEF Collect, TypeOK, dbVars, escrowVars
  <2>4. ASSUME NEW flag \in BOOLEAN, SetPaused(flag)
        PROVE  TypeOK'
    BY <2>4, <1>t DEF SetPaused, TypeOK, dbVars, escrowVars
  <2>5. ASSUME RotateVerifier
        PROVE  TypeOK'
    BY <2>5, <1>t DEF RotateVerifier, TypeOK, dbVars, escrowVars
  <2>6. ASSUME Tick
        PROVE  TypeOK'
    BY <2>6, <1>t DEF Tick, TypeOK, dbVars, escrowVars
  <2>. QED  BY <2>1, <2>2, <2>3, <2>4, <2>5, <2>6
<1>3. Grows
  <2>1. \A x \in XIds : claimed[x] \in Nat
    BY <1>t DEF TypeOK
  <2>. QED  BY <1>1, <2>1 DEF Grows, escrowVars
<1>4. BindingInv'
  BY <1>1 DEF ClaimsInv, BindingInv, escrowVars
<1>. QED  BY <1>1, <1>2, <1>3, <1>4, Assemble DEF escrowVars

LEMMA InsertBindingStep ==
  ASSUME ClaimsInv, NEW w \in Workers, InsertBinding(w)
  PROVE  ClaimsInv'
<1>. DEFINE x == worker[w].xid
            a == worker[w].wallet
<1>t. TypeOK
  BY DEF ClaimsInv
<1>1. x \in XIds /\ a \in Wallets
  BY <1>t, OtherJobs DEF InsertBinding, At
<1>2. /\ worker' = [worker EXCEPT ![w] = None]
      /\ binding' = WithBinding(x, a)
      /\ UNCHANGED <<profile, challenge, intent, chainVars>>
  BY DEF InsertBinding, Finish
<1>. HIDE DEF x, a
<1>3. \A y \in XIds : binding[y] # None => binding'[y] = binding[y]
  BY <1>1, <1>2, <1>t DEF WithBinding, TypeOK
<1>4. TypeOK'
  BY <1>1, <1>2, <1>t DEF WithBinding, TypeOK, chainVars, escrowVars
<1>5. Grows
  <2>1. \A y \in XIds : claimed[y] \in Nat
    BY <1>t DEF TypeOK
  <2>. QED  BY <1>2, <1>3, <2>1 DEF Grows, chainVars, escrowVars
<1>6. BindingInv'
  <2>1. ASSUME NEW y \in XIds
        PROVE  bound'[y] \in {None, binding'[y]}
    <3>1. bound'[y] = bound[y] /\ bound[y] \in {None, binding[y]}
      BY <1>2 DEF ClaimsInv, BindingInv, chainVars, escrowVars
    <3>. QED  BY <1>3, <3>1
  <2>2. ASSUME NEW y \in XIds, NEW z \in XIds, y # z
        PROVE  binding'[y] = None \/ binding'[y] # binding'[z]
    <3>1. binding[y] = None \/ binding[y] # binding[z]
      BY <2>2 DEF ClaimsInv, BindingInv
    <3>2. binding[z] = None \/ binding[z] # binding[y]
      BY <2>2 DEF ClaimsInv, BindingInv
    <3>3. CASE binding' = binding
      BY <3>1, <3>3
    <3>4. CASE binding' # binding
      <4>1. binding' = [binding EXCEPT ![x] = a] /\ \A v \in XIds : binding[v] # a
        BY <1>2, <3>4 DEF WithBinding, Unbound
      <4>2. a # None
        BY <1>1, ClaimsAssumption
      <4>. QED  BY <1>1, <1>t, <2>2, <3>1, <3>2, <4>1, <4>2 DEF TypeOK
    <3>. QED  BY <3>3, <3>4
  <2>. QED  BY <2>1, <2>2 DEF BindingInv
<1>7. \A v \in Workers : worker'[v] = worker[v] \/ JobInv(v)'
  BY <1>2, <1>t DEF TypeOK, JobInv
<1>. QED  BY <1>2, <1>4, <1>5, <1>6, <1>7, Assemble DEF chainVars, escrowVars

LEMMA InsertChallengeStep ==
  ASSUME ClaimsInv, NEW w \in Workers, NEW c \in Challenges, InsertChallenge(w, c)
  PROVE  ClaimsInv'
<1>. DEFINE job == worker[w]
            row == [xid |-> job.xid, wallet |-> job.wallet, amount |-> job.amount,
                    limit |-> CumulativeLimit(job), status |-> "pending",
                    post |-> None, expires |-> now + ChallengeLife]
<1>t. TypeOK /\ JobInv(w) /\ ReceiptInv(c)
  BY DEF ClaimsInv
<1>1. /\ job.at = "ask" /\ job # None /\ challenge[c] = None
      /\ challenge' = [challenge EXCEPT ![c] = row]
      /\ worker' = [worker EXCEPT ![w] = None]
      /\ UNCHANGED <<profile, binding, intent, chainVars>>
  BY DEF InsertChallenge, Finish, At
<1>2. /\ job.xid \in XIds /\ job.wallet \in Wallets
      /\ job.amount \in Amounts /\ job.amount \in Nat /\ job.claimed \in Nat
  BY <1>t, <1>1, OtherJobs, ClaimsAssumption
<1>3. row \in Challenge
  BY <1>2, <1>t, ClaimsAssumption
  DEF CumulativeLimit, Challenge, ChallengeStatus, TypeOK
<1>4. challenge'[c] = row /\ row # None
  BY <1>1, <1>3, <1>t, NoneIsNoRow DEF TypeOK
<1>5. receipt[c] = None
  BY <1>1, <1>t DEF ReceiptInv
<1>6. ChallengeInv(c)'
  <2>1. binding'[job.xid] = job.wallet
    BY <1>1, <1>t DEF JobInv
  <2>2. claimed'[job.xid] \in Nat /\ job.claimed <= claimed'[job.xid]
    BY <1>1, <1>2, <1>t DEF JobInv, TypeOK, chainVars, escrowVars
  <2>3. CumulativeLimit(job) <= claimed'[job.xid] + job.amount
    BY <1>2, <2>2 DEF CumulativeLimit
  <2>. QED  BY <1>4, <2>1, <2>3 DEF ChallengeInv
<1>. HIDE DEF row
<1>7. TypeOK'
  BY <1>1, <1>3, <1>t DEF TypeOK, chainVars, escrowVars
<1>8. Grows
  <2>1. \A x \in XIds : claimed[x] \in Nat
    BY <1>t DEF TypeOK
  <2>2. \A d \in Challenges : challenge[d] # None => challenge'[d] = challenge[d]
    BY <1>1, <1>t DEF TypeOK
  <2>. QED  BY <1>1, <2>1, <2>2 DEF Grows, chainVars, escrowVars
<1>9. BindingInv'
  BY <1>1 DEF ClaimsInv, BindingInv, chainVars, escrowVars
<1>10. \A v \in Workers : worker'[v] = worker[v] \/ JobInv(v)'
  BY <1>1, <1>t DEF TypeOK, JobInv
<1>11. \A d \in Challenges : challenge'[d] = challenge[d] \/ ChallengeInv(d)'
  BY <1>1, <1>6, <1>t DEF TypeOK
<1>. QED  BY <1>1, <1>7, <1>8, <1>9, <1>10, <1>11, Assemble
     DEF chainVars, escrowVars

(* A change of a challenge's status and post that keeps a proof it has.    *)
LEMMA AdvanceStep ==
  ASSUME ClaimsInv, NEW c \in Challenges, challenge[c] # None,
         NEW status \in ChallengeStatus, NEW post \in Posts,
         challenge[c].post \in {None, post}, status # "pending",
         challenge[c].status = "consumed" => status = "consumed",
         status = "consumed" => receipt[c] # None,
         challenge' = [challenge EXCEPT ![c] =
           [challenge[c] EXCEPT !.status = status, !.post = post]],
         UNCHANGED <<profile, binding, intent, chainVars>>,
         worker' \in [Workers -> Job \cup {None}],
         Grows => \A v \in Workers : worker'[v] = worker[v] \/ JobInv(v)'
  PROVE  ClaimsInv'
<1>. DEFINE row == [challenge[c] EXCEPT !.status = status, !.post = post]
<1>t. TypeOK /\ ChallengeInv(c)
  BY DEF ClaimsInv
<1>1. challenge[c] \in Challenge
  BY <1>t DEF TypeOK
<1>2. /\ row \in Challenge /\ row.status = status /\ row.post = post
      /\ row.xid = challenge[c].xid /\ row.wallet = challenge[c].wallet
      /\ row.amount = challenge[c].amount /\ row.limit = challenge[c].limit
  BY <1>1 DEF Challenge
<1>. HIDE DEF row
<1>3. challenge' = [challenge EXCEPT ![c] = row]
  BY DEF row
<1>4. challenge'[c] = row /\ row # None
  BY <1>2, <1>3, <1>t, NoneIsNoRow DEF TypeOK
<1>5. TypeOK'
  BY <1>2, <1>3, <1>t DEF TypeOK, chainVars, escrowVars
<1>6. Grows
  <2>1. \A x \in XIds : claimed[x] \in Nat
    BY <1>t DEF TypeOK
  <2>2. \A d \in Challenges : d # c => challenge'[d] = challenge[d]
    BY <1>3, <1>t DEF TypeOK
  <2>3. \A d \in Challenges : challenge[d] # None =>
          /\ challenge'[d] # None
          /\ challenge'[d].xid = challenge[d].xid
          /\ challenge'[d].wallet = challenge[d].wallet
          /\ challenge'[d].amount = challenge[d].amount
          /\ challenge'[d].limit = challenge[d].limit
          /\ challenge[d].post # None => challenge'[d].post = challenge[d].post
          /\ challenge[d].status = "consumed" => challenge'[d].status = "consumed"
    BY <1>2, <1>4, <2>2
  <2>. QED  BY <2>1, <2>3 DEF Grows, chainVars, escrowVars
<1>7. BindingInv'
  BY DEF ClaimsInv, BindingInv, chainVars, escrowVars
<1>8. ChallengeInv(c)'
  <2>1. post # None
    BY ClaimsAssumption
  <2>. QED  BY <1>2, <1>4, <1>t, <2>1 DEF ChallengeInv, chainVars, escrowVars
<1>9. \A d \in Challenges : challenge'[d] = challenge[d] \/ ChallengeInv(d)'
  BY <1>3, <1>8, <1>t DEF TypeOK
<1>. QED  BY <1>5, <1>6, <1>7, <1>9, Assemble DEF chainVars, escrowVars

LEMMA MarkVerifiedStep ==
  ASSUME ClaimsInv, NEW w \in Workers, MarkVerified(w)
  PROVE  ClaimsInv'
<1>. DEFINE c == worker[w].id
            p == worker[w].post
<1>t. TypeOK /\ JobInv(w)
  BY DEF ClaimsInv
<1>1. c \in Challenges /\ p \in Posts /\ challenge[c] # None
  BY <1>t, OtherJobs DEF MarkVerified, At, JobInv
<1>2. challenge[c].status = "pending" /\ challenge[c].post = None
  BY <1>1 DEF MarkVerified, StillPending, ClaimsInv, ChallengeInv
<1>3. challenge' = [challenge EXCEPT ![c] =
        [challenge[c] EXCEPT !.status = "verified", !.post = p]]
  <2>1. challenge' = [challenge EXCEPT ![c].status = "verified", ![c].post = p]
    BY DEF MarkVerified
  <2>. QED  BY <1>1, <1>t, <2>1 DEF TypeOK
<1>4. worker' = [worker EXCEPT ![w] = None]
  BY DEF MarkVerified, Finish
<1>5. worker' \in [Workers -> Job \cup {None}]
  BY <1>4, <1>t DEF TypeOK
<1>6. \A v \in Workers : worker'[v] = worker[v] \/ JobInv(v)'
  BY <1>4, <1>t DEF TypeOK, JobInv
<1>7. UNCHANGED <<profile, binding, intent, chainVars>>
  BY DEF MarkVerified
<1>. HIDE DEF c, p
<1>. QED  BY <1>1, <1>2, <1>3, <1>5, <1>6, <1>7, AdvanceStep DEF ChallengeStatus

LEMMA IssueStep ==
  ASSUME ClaimsInv, NEW w \in Workers, Issue(w)
  PROVE  ClaimsInv'
<1>. DEFINE c == worker[w].id
<1>t. TypeOK /\ JobInv(w)
  BY DEF ClaimsInv
<1>1. /\ c \in Challenges /\ challenge[c] # None /\ challenge[c].post # None
  BY <1>t, PrepareJob DEF Issue, At, JobInv, PrepareSteps, ProvenSteps
<1>2. /\ challenge' = WithIssued(c)
      /\ worker' = [worker EXCEPT ![w] = None]
      /\ UNCHANGED <<profile, binding, intent, chainVars>>
  BY DEF Issue, Finish
<1>3. worker' \in [Workers -> Job \cup {None}]
  BY <1>2, <1>t DEF TypeOK
<1>4. \A v \in Workers : worker'[v] = worker[v] \/ JobInv(v)'
  BY <1>2, <1>t DEF TypeOK, JobInv
<1>. HIDE DEF c
<1>5. CASE challenge[c].status = "verified"
  <2>1. /\ challenge[c] \in Challenge /\ challenge[c].post \in Posts
    BY <1>1, <1>t, RowFields
  <2>2. challenge' = [challenge EXCEPT ![c] =
          [challenge[c] EXCEPT !.status = "issued", !.post = challenge[c].post]]
    <3>1. challenge' = [challenge EXCEPT ![c] = [challenge[c] EXCEPT !.status = "issued"]]
      BY <1>2, <1>5 DEF WithIssued
    <3>2. [challenge[c] EXCEPT !.status = "issued"]
            = [challenge[c] EXCEPT !.status = "issued", !.post = challenge[c].post]
      BY <2>1 DEF Challenge
    <3>. QED  BY <3>1, <3>2
  <2>. QED  BY <1>1, <1>2, <1>3, <1>4, <1>5, <2>1, <2>2, AdvanceStep DEF ChallengeStatus
<1>6. CASE challenge[c].status # "verified"
  <2>1. challenge' = challenge
    BY <1>2, <1>6 DEF WithIssued
  <2>2. UNCHANGED <<dbVars, chainVars>> /\ Finish(w)
    BY <1>2, <2>1 DEF dbVars, Finish
  <2>. QED  BY <2>2, FinishStep
<1>. QED  BY <1>5, <1>6

LEMMA ConsumeStep ==
  ASSUME ClaimsInv, NEW w \in Workers, Consume(w)
  PROVE  ClaimsInv'
<1>. DEFINE c == worker[w].id
            i == worker[w].intent
            job == IF i = None THEN None ELSE [at |-> "confirm", intent |-> i]
<1>t. TypeOK /\ JobInv(w)
  BY DEF ClaimsInv
<1>1. /\ worker[w] # None /\ worker[w].at = "consume"
      /\ challenge' = [challenge EXCEPT ![c].status = "consumed"]
      /\ worker' = [worker EXCEPT ![w] = job]
      /\ UNCHANGED <<profile, binding, intent, chainVars>>
  BY DEF Consume, At
<1>2. /\ c \in Challenges /\ challenge[c] # None /\ receipt[c] # None
      /\ i \in Intents \cup {None}
      /\ i # None => intent[i] # None /\ intent[i].challenge = c
  BY <1>1, <1>t, PaymentJob DEF JobInv, PaymentSteps
<1>3. job \in Job \cup {None}
  BY <1>2 DEF Job
<1>4. challenge[c] \in Challenge /\ challenge[c].post \in Posts
  BY <1>2, <1>t, RowFields DEF ClaimsInv, ReceiptInv
<1>. HIDE DEF c, i, job
<1>5. challenge' = [challenge EXCEPT ![c] =
        [challenge[c] EXCEPT !.status = "consumed", !.post = challenge[c].post]]
  <2>1. challenge' = [challenge EXCEPT ![c] = [challenge[c] EXCEPT !.status = "consumed"]]
    BY <1>1
  <2>2. [challenge[c] EXCEPT !.status = "consumed"]
          = [challenge[c] EXCEPT !.status = "consumed", !.post = challenge[c].post]
    BY <1>4 DEF Challenge
  <2>. QED  BY <2>1, <2>2
<1>6. worker' \in [Workers -> Job \cup {None}]
  BY <1>1, <1>3, <1>t DEF TypeOK
<1>7. JobInv(w)'
  <2>1. worker'[w] = job /\ intent' = intent
    BY <1>1, <1>t DEF TypeOK
  <2>2. challenge'[c].status = "consumed"
    BY <1>2, <1>4, <1>1, <1>t DEF TypeOK, Challenge
  <2>. QED  BY <1>2, <2>1, <2>2
        DEF job, JobInv, PrepareSteps, ProvenSteps, PaymentSteps, ReconcileSteps
<1>8. \A v \in Workers : worker'[v] = worker[v] \/ JobInv(v)'
  BY <1>1, <1>7, <1>t DEF TypeOK
<1>. QED  BY <1>1, <1>2, <1>4, <1>5, <1>6, <1>8, AdvanceStep DEF ChallengeStatus

(* A change of an intent that keeps its challenge.                         *)
LEMMA IntentStep ==
  ASSUME ClaimsInv, NEW i \in Intents, NEW row \in Intent,
         intent[i] # None => row.challenge = intent[i].challenge,
         challenge[row.challenge] # None, challenge[row.challenge].post # None,
         row.status = "confirmed" => challenge[row.challenge].status = "consumed",
         intent' = [intent EXCEPT ![i] = row],
         UNCHANGED <<profile, binding, challenge, entitled, escrowVars, control, now, landed>>,
         sent' \subseteq sent \cup {i}, worker' \in [Workers -> Job \cup {None}],
         Grows => \A v \in Workers : worker'[v] = worker[v] \/ JobInv(v)'
  PROVE  ClaimsInv'
<1>t. TypeOK
  BY DEF ClaimsInv
<1>1. intent'[i] = row /\ row # None
  BY <1>t, NoneIsNoRow DEF TypeOK
<1>2. TypeOK'
  BY <1>t DEF TypeOK, escrowVars
<1>3. Grows
  <2>1. \A x \in XIds : claimed[x] \in Nat
    BY <1>t DEF TypeOK
  <2>2. \A j \in Intents : j # i => intent'[j] = intent[j]
    BY <1>t DEF TypeOK
  <2>3. \A j \in Intents : intent[j] # None =>
          intent'[j] # None /\ intent'[j].challenge = intent[j].challenge
    BY <1>1, <2>2
  <2>. QED  BY <1>1, <2>1, <2>3 DEF Grows, escrowVars
<1>4. BindingInv'
  BY DEF ClaimsInv, BindingInv, escrowVars
<1>5. IntentInv(i)'
  BY <1>1 DEF IntentInv
<1>6. \A j \in Intents : intent'[j] = intent[j] \/ IntentInv(j)'
  BY <1>5, <1>t DEF TypeOK
<1>. QED  BY <1>2, <1>3, <1>4, <1>6, Assemble DEF escrowVars

LEMMA StoreIntentStep ==
  ASSUME ClaimsInv, NEW w \in Workers, NEW i \in Intents, NEW until \in 0 .. MaxTime,
         StoreIntent(w, i, until)
  PROVE  ClaimsInv'
<1>. DEFINE c == worker[w].id
            job == [worker[w] EXCEPT !.at = "issue"]
            row == [challenge |-> c, epoch |-> worker[w].epoch, until |-> until,
                    status |-> "prepared"]
<1>t. TypeOK /\ JobInv(w)
  BY DEF ClaimsInv
<1>1. /\ worker[w] # None /\ worker[w].at = "store"
      /\ intent[i] = None
      /\ intent' = [intent EXCEPT ![i] = row]
      /\ worker' = [worker EXCEPT ![w] = job]
      /\ UNCHANGED <<profile, binding, challenge, chainVars>>
  BY DEF StoreIntent, At, GoOn
<1>2. /\ c \in Challenges /\ worker[w].epoch \in Nat
      /\ job \in Job /\ job.at = "issue" /\ job.id = c
  BY <1>1, <1>t, PrepareJob DEF PrepareSteps
<1>3. challenge[c] # None /\ challenge[c].post # None
  BY <1>1, <1>t DEF JobInv, PrepareSteps, ProvenSteps
<1>4. row \in Intent /\ row.challenge = c /\ row.status = "prepared"
  BY <1>2, ClaimsAssumption DEF Intent
<1>. HIDE DEF c, job, row
<1>5. worker' \in [Workers -> Job \cup {None}]
  BY <1>1, <1>2, <1>t DEF TypeOK
<1>6. JobInv(w)'
  <2>1. worker'[w] = job
    BY <1>1, <1>t DEF TypeOK
  <2>. QED  BY <1>1, <1>2, <1>3, <2>1
        DEF JobInv, PrepareSteps, ProvenSteps, PaymentSteps, ReconcileSteps
<1>7. \A v \in Workers : worker'[v] = worker[v] \/ JobInv(v)'
  BY <1>1, <1>6, <1>t DEF TypeOK
<1>8. sent' \subseteq sent \cup {i}
  BY <1>1 DEF chainVars
<1>. QED  BY <1>1, <1>3, <1>4, <1>5, <1>7, <1>8, IntentStep DEF chainVars

LEMMA SettleStep ==
  ASSUME ClaimsInv, NEW w \in Workers, Fail(w) \/ Expire(w) \/ Confirm(w)
  PROVE  ClaimsInv'
<1>. DEFINE i == worker[w].intent
<1>t. TypeOK /\ JobInv(w)
  BY DEF ClaimsInv
<1>1. PICK status \in Terminal :
        /\ worker[w] # None /\ worker[w].at \in ReconcileSteps
        /\ status = "confirmed" => worker[w].at = "confirm"
        /\ intent' = [intent EXCEPT ![i].status = status]
        /\ worker' = [worker EXCEPT ![w] = None]
        /\ UNCHANGED <<profile, binding, challenge, chainVars>>
  BY DEF Fail, Expire, Confirm, Settle, At, Finish, Terminal, ReconcileSteps
<1>. DEFINE row == [intent[i] EXCEPT !.status = status]
<1>2. i \in Intents /\ intent[i] # None
  BY <1>1, <1>t, ReconcileJob DEF JobInv
<1>3. /\ row \in Intent /\ row.challenge = intent[i].challenge /\ row.status = status
  BY <1>2, <1>t, RowFields DEF Intent
<1>4. /\ challenge[intent[i].challenge] # None
      /\ challenge[intent[i].challenge].post # None
  BY <1>2 DEF ClaimsInv, IntentInv
<1>5. status = "confirmed" => challenge[intent[i].challenge].status = "consumed"
  BY <1>1, <1>t DEF JobInv
<1>. HIDE DEF i
<1>6. intent' = [intent EXCEPT ![i] = row]
  BY <1>1
<1>. HIDE DEF row
<1>7. worker' \in [Workers -> Job \cup {None}]
  BY <1>1, <1>t DEF TypeOK
<1>8. \A v \in Workers : worker'[v] = worker[v] \/ JobInv(v)'
  BY <1>1, <1>t DEF TypeOK, JobInv
<1>9. sent' \subseteq sent \cup {i}
  BY <1>1 DEF chainVars
<1>10. /\ challenge[row.challenge] # None /\ challenge[row.challenge].post # None
       /\ row.status = "confirmed" => challenge[row.challenge].status = "consumed"
  BY <1>3, <1>4, <1>5
<1>11. UNCHANGED <<profile, binding, challenge, entitled, escrowVars, control, now, landed>>
  BY <1>1 DEF chainVars
<1>. QED  BY <1>2, <1>3, <1>6, <1>7, <1>8, <1>9, <1>10, <1>11, IntentStep

LEMMA SubmitStep ==
  ASSUME ClaimsInv, NEW i \in Intents, Submit(i)
  PROVE  ClaimsInv'
<1>. DEFINE row == [intent[i] EXCEPT !.status = "submitted"]
<1>t. TypeOK
  BY DEF ClaimsInv
<1>1. /\ intent[i] # None
      /\ intent' = [intent EXCEPT ![i] = row]
      /\ sent' = sent \cup {i}
      /\ UNCHANGED <<profile, binding, challenge, worker, landed, entitled, escrowVars,
                     control, now>>
  BY DEF Submit
<1>2. row \in Intent /\ row.challenge = intent[i].challenge /\ row.status = "submitted"
  BY <1>1, <1>t, RowFields DEF Intent
<1>3. /\ challenge[intent[i].challenge] # None
      /\ challenge[intent[i].challenge].post # None
  BY <1>1 DEF ClaimsInv, IntentInv
<1>. HIDE DEF row
<1>4. sent' \subseteq sent \cup {i} /\ worker' \in [Workers -> Job \cup {None}]
  BY <1>1, <1>t DEF TypeOK
<1>. QED  BY <1>1, <1>2, <1>3, <1>4, IntentStep

(* What the escrow pays for an intent is at least a unit and at most what  *)
(* its challenge asked for: the cap is at most that far above what the     *)
(* account has been paid by now.                                           *)
LEMMA PayPays ==
  ASSUME ClaimsInv, NEW i \in Intents, Pay(i)
  PROVE  LET c == intent[i].challenge
             x == challenge[c].xid
         IN  /\ intent[i] # None /\ c \in Challenges /\ x \in XIds
             /\ challenge[c] # None /\ challenge[c].post # None
             /\ receipt[c] = None
             /\ Due(c) \in 1 .. challenge[c].amount
             /\ challenge[c].wallet \in Wallets
             /\ challenge[c].wallet = binding[x]
<1>. DEFINE c == intent[i].challenge
            x == challenge[c].xid
<1>t. TypeOK
  BY DEF ClaimsInv
<1>1. i \in sent /\ Payable(i)
  BY DEF Pay, Includable
<1>2. intent[i] # None
  BY <1>1 DEF ClaimsInv
<1>3. c \in Challenges /\ challenge[c] # None /\ challenge[c].post # None
  BY <1>2, <1>t, RowFields DEF ClaimsInv, IntentInv
<1>4. /\ x \in XIds /\ challenge[c].wallet \in Wallets
      /\ challenge[c].amount \in Nat /\ challenge[c].limit \in Nat
  BY <1>3, <1>t, RowFields
<1>5. receipt[c] = None /\ Due(c) > 0
  BY <1>1 DEF Payable
<1>6. /\ challenge[c].wallet = binding[x]
      /\ challenge[c].limit <= claimed[x] + challenge[c].amount
  BY <1>3 DEF ClaimsInv, ChallengeInv
<1>7. entitled[x] \in Nat /\ claimed[x] \in Nat
  BY <1>4, <1>t DEF TypeOK
<1>8. Due(c) \in 1 .. challenge[c].amount
  <2>. DEFINE cap == IF entitled[x] < challenge[c].limit THEN entitled[x]
                     ELSE challenge[c].limit
  <2>1. cap \in Nat /\ cap <= challenge[c].limit
    BY <1>4, <1>7
  <2>2. Due(c) = cap - claimed[x]
    BY DEF Due
  <2>. HIDE DEF cap
  <2>. QED  BY <1>4, <1>5, <1>6, <1>7, <2>1, <2>2
<1>. QED  BY <1>2, <1>3, <1>4, <1>5, <1>6, <1>8

LEMMA PayStep ==
  ASSUME ClaimsInv, NEW i \in Intents, Pay(i)
  PROVE  ClaimsInv'
<1>t. TypeOK
  BY DEF ClaimsInv
<1>a. PICK c \in Challenges : c = intent[i].challenge
  BY PayPays
<1>b. PICK x \in XIds : x = challenge[c].xid
  BY PayPays, <1>a
<1>. DEFINE paid == [wallet |-> challenge[c].wallet, amount |-> Due(c)]
<1>1. /\ landed' = [landed EXCEPT ![i] = "ok"]
      /\ claimed' = [claimed EXCEPT ![x] = @ + Due(c)]
      /\ bound' = [bound EXCEPT ![x] = challenge[c].wallet]
      /\ receipt' = [receipt EXCEPT ![c] = paid]
      /\ UNCHANGED <<dbVars, worker, sent, entitled, control, now>>
  BY <1>a, <1>b DEF Pay
<1>2. /\ c \in Challenges /\ x \in XIds /\ challenge[c] # None
      /\ challenge[c].post # None /\ receipt[c] = None
      /\ challenge[c].wallet \in Wallets /\ challenge[c].wallet = binding[x]
  BY PayPays, <1>a, <1>b
<1>3. Due(c) \in 1 .. challenge[c].amount /\ challenge[c].amount \in Nat
  BY <1>2, <1>a, <1>t, PayPays, RowFields
<1>. DEFINE due == Due(c)
<1>4. due \in Nat /\ due \in 1 .. challenge[c].amount
  BY <1>3
<1>5. /\ claimed' = [claimed EXCEPT ![x] = claimed[x] + due]
      /\ paid \in Receipt /\ paid.wallet = challenge[c].wallet /\ paid.amount = due
  BY <1>1, <1>2, <1>4 DEF Receipt
<1>. HIDE DEF paid, due
<1>6. claimed' \in [XIds -> Nat] /\ \A y \in XIds : claimed[y] <= claimed'[y]
  BY <1>2, <1>4, <1>5, <1>t DEF TypeOK
<1>7. TypeOK'
  BY <1>1, <1>2, <1>5, <1>6, <1>t DEF TypeOK, dbVars
<1>8. Grows
  <2>1. \A d \in Challenges : receipt[d] # None => receipt'[d] = receipt[d]
    BY <1>1, <1>2, <1>t DEF TypeOK
  <2>. QED  BY <1>1, <1>6, <2>1 DEF Grows, dbVars
<1>9. BindingInv'
  BY <1>1, <1>2, <1>t DEF ClaimsInv, BindingInv, TypeOK, dbVars
<1>10. ReceiptInv(c)'
  <2>1. receipt'[c] = paid
    BY <1>1, <1>2, <1>t DEF TypeOK
  <2>. QED  BY <1>1, <1>2, <1>4, <1>5, <2>1 DEF ReceiptInv, dbVars
<1>11. \A d \in Challenges : receipt'[d] = receipt[d] \/ ReceiptInv(d)'
  BY <1>1, <1>10, <1>t DEF TypeOK
<1>. QED  BY <1>1, <1>7, <1>8, <1>9, <1>11, Assemble DEF dbVars

-----------------------------------------------------------------------------
(* The theorems *)

LEMMA InitClaims == Init => ClaimsInv
BY DEF Init, ClaimsInv, TypeOK, BindingInv, JobInv, ChallengeInv, IntentInv, ReceiptInv

LEMMA NextClaims == ClaimsInv /\ [Next]_vars => ClaimsInv'
<1>. SUFFICES ASSUME ClaimsInv, [Next]_vars
              PROVE  ClaimsInv'
  OBVIOUS
<1>1. ASSUME NEW a \in Wallets, NEW x \in XIds, LinkX(a, x)
      PROVE  ClaimsInv'
  BY <1>1, AmbientStep
<1>2. ASSUME NEW w \in Workers,
             \/ \E a \in Wallets : BindFeeWallet(w, a)
             \/ \E x \in XIds, amount \in Amounts : CreateFeeChallenge(w, x, amount)
             \/ \E c \in Challenges : \/ InsertChallenge(w, c)
                                      \/ \E p \in Posts : VerifyFeeChallenge(w, c, p)
                                      \/ PrepareCreatorFeeClaim(w, c)
                                      \/ ReconcileCreatorFeeClaim(w, c)
             \/ \E i \in Intents : Reconcile(w, i)
             \/ InsertBinding(w) \/ MarkVerified(w) \/ PrepareStep(w)
             \/ ReconcileStep(w) \/ Leave(w)
      PROVE  ClaimsInv'
  <2>1. CASE \E a \in Wallets : BindFeeWallet(w, a)
    BY <2>1, StartStep DEF BindFeeWallet
  <2>2. CASE \E x \in XIds, amount \in Amounts : CreateFeeChallenge(w, x, amount)
    BY <2>2, StartStep DEF CreateFeeChallenge
  <2>3. CASE \E c \in Challenges : InsertChallenge(w, c)
    BY <2>3, InsertChallengeStep
  <2>4. CASE \E c \in Challenges, p \in Posts : VerifyFeeChallenge(w, c, p)
    BY <2>4, StartStep DEF VerifyFeeChallenge
  <2>5. CASE \E c \in Challenges : PrepareCreatorFeeClaim(w, c)
    BY <2>5, StartStep DEF PrepareCreatorFeeClaim
  <2>6. CASE \E c \in Challenges : ReconcileCreatorFeeClaim(w, c)
    BY <2>6, StartStep DEF ReconcileCreatorFeeClaim
  <2>7. CASE \E i \in Intents : Reconcile(w, i)
    BY <2>7, StartStep DEF Reconcile
  <2>8. CASE InsertBinding(w)
    BY <2>8, InsertBindingStep
  <2>9. CASE MarkVerified(w)
    BY <2>9, MarkVerifiedStep
  <2>10. CASE ReadChallenge(w) \/ ReadReceipt(w) \/ ReadLatest(w) \/ ReadBalances(w)
    BY <2>10, ReadStep DEF ReadChallenge, ReadReceipt, ReadLatest, ReadBalances
  <2>11. CASE \E i \in Intents, until \in 0 .. MaxTime : StoreIntent(w, i, until)
    BY <2>11, StoreIntentStep
  <2>12. CASE Issue(w)
    BY <2>12, IssueStep
  <2>13. CASE ReadStatus(w) \/ ReadHeight(w) \/ ReadPayment(w)
    BY <2>13, ReadStep DEF ReadStatus, ReadHeight, ReadPayment
  <2>14. CASE Fail(w) \/ Expire(w) \/ Confirm(w)
    BY <2>14, SettleStep
  <2>15. CASE Consume(w)
    BY <2>15, ConsumeStep
  <2>16. CASE Leave(w)
    BY <2>16, FinishStep DEF Leave
  <2>. QED  BY <1>2, <2>1, <2>2, <2>3, <2>4, <2>5, <2>6, <2>7, <2>8, <2>9, <2>10,
             <2>11, <2>12, <2>13, <2>14, <2>15, <2>16 DEF PrepareStep, ReconcileStep
<1>3. ASSUME NEW i \in Intents, Submit(i) \/ Pay(i) \/ Reject(i)
      PROVE  ClaimsInv'
  BY <1>3, SubmitStep, PayStep, AmbientStep
<1>4. CASE \/ \E x \in XIds, amount \in Amounts : Collect(x, amount)
           \/ \E flag \in BOOLEAN : SetPaused(flag)
           \/ RotateVerifier
           \/ Tick
  BY <1>4, AmbientStep
<1>5. CASE UNCHANGED vars
  <2>1. /\ UNCHANGED <<dbVars, worker, chainVars>>
    BY <1>5 DEF vars
  <2>2. TypeOK'
    BY <2>1 DEF ClaimsInv, TypeOK, dbVars, chainVars, escrowVars
  <2>3. Grows
    <3>1. \A x \in XIds : claimed[x] \in Nat
      BY DEF ClaimsInv, TypeOK
    <3>. QED  BY <2>1, <3>1 DEF Grows, dbVars, chainVars, escrowVars
  <2>4. BindingInv'
    BY <2>1 DEF ClaimsInv, BindingInv, dbVars, chainVars, escrowVars
  <2>. QED  BY <2>1, <2>2, <2>3, <2>4, Assemble DEF dbVars, chainVars, escrowVars
<1>. QED  BY <1>1, <1>2, <1>3, <1>4, <1>5 DEF Next, Environment

(* Every request in flight may rely on what it read, and every row says    *)
(* what the others bear out, in every reachable state.                     *)
THEOREM ClaimsInvariant == Spec => []ClaimsInv
<1>. QED  BY InitClaims, NextClaims, PTL DEF Spec

(* A challenge still pays what was requested, to the wallet that requested *)
(* it: its receipt always matches it, so the 409 of                        *)
(* reconcileCreatorFeeClaim never keeps a payment from being recorded.     *)
THEOREM PaymentsMatch == Spec => []PaidAsRequested
<1>1. ClaimsInv => PaidAsRequested
  <2>. SUFFICES ASSUME ClaimsInv, NEW c \in Challenges, receipt[c] # None
                PROVE  /\ Matches(c)
                       /\ receipt[c].wallet = binding[challenge[c].xid]
    BY DEF PaidAsRequested
  <2>. QED  BY DEF ClaimsInv, ReceiptInv, ChallengeInv, Matches
<1>. QED  BY <1>1, ClaimsInvariant, PTL

(* Database and escrow agree on one wallet per account and one account per *)
(* wallet, however requests to bind interleave (bindFeeWallet).            *)
THEOREM BindingsAgree == Spec => []OneWalletPerAccount
<1>1. ClaimsInv => OneWalletPerAccount
  BY DEF ClaimsInv, BindingInv, ChallengeInv, OneWalletPerAccount
<1>. QED  BY <1>1, ClaimsInvariant, PTL

(* The state has its type, a claim told "confirmed" is a challenge told    *)
(* "consumed", and a challenge is consumed only when it was paid.          *)
THEOREM ConfirmedAreConsumed == Spec => []ClaimsAreConsumed
<1>1. ClaimsInv => ClaimsAreConsumed
  BY DEF ClaimsInv, IntentInv, ChallengeInv, ClaimsAreConsumed, ConfirmedIsConsumed
<1>. QED  BY <1>1, ClaimsInvariant, PTL

(* The steps that write what the service promises, and what the others     *)
(* leave alone.                                                            *)
LEMMA PromiseSteps ==
  ASSUME [Next]_vars
  PROVE  \/ \E w \in Workers : InsertBinding(w)
         \/ \E w \in Workers, c \in Challenges : InsertChallenge(w, c)
         \/ \E w \in Workers : MarkVerified(w)
         \/ \E w \in Workers : Issue(w)
         \/ \E w \in Workers : Consume(w)
         \/ \E i \in Intents : Pay(i)
         \/ UNCHANGED <<binding, challenge, receipt>>
BY DEF Next, Environment, PrepareStep, ReconcileStep, vars, dbVars, chainVars,
       escrowVars, LinkX, BindFeeWallet, CreateFeeChallenge, VerifyFeeChallenge,
       PrepareCreatorFeeClaim, ReadChallenge, ReadReceipt, ReadLatest, ReadBalances,
       StoreIntent, Submit, Reconcile, ReadStatus, ReadHeight, Settle, Fail, Expire,
       Confirm, ReconcileCreatorFeeClaim, ReadPayment, Leave, Reject, Collect,
       SetPaused, RotateVerifier, Tick

(* What MarkVerified, Issue and Consume make of a challenge.               *)
LEMMA ChallengeSteps ==
  ASSUME ClaimsInv, NEW w \in Workers,
         MarkVerified(w) \/ Issue(w) \/ Consume(w)
  PROVE  \E c \in Challenges :
           /\ challenge[c] # None /\ challenge'[c] # None
           /\ \A d \in Challenges \ {c} : challenge'[d] = challenge[d]
           /\ challenge'[c].xid = challenge[c].xid
           /\ challenge'[c].amount = challenge[c].amount
           /\ \/ /\ MarkVerified(w) /\ c = worker[w].id
                 /\ challenge[c].status = "pending" /\ challenge[c].post = None
                 /\ challenge'[c].status = "verified"
                 /\ challenge'[c].post = worker[w].post /\ worker[w].post \in Posts
                 /\ UnusedPost(c, worker[w].post)
              \/ /\ challenge[c].status = "verified" /\ challenge'[c].status = "issued"
                 /\ challenge'[c].post = challenge[c].post
              \/ /\ challenge'[c].status = "consumed" /\ challenge[c].status \in ChallengeStatus
                 /\ challenge'[c].post = challenge[c].post
              \/ challenge' = challenge
<1>t. TypeOK /\ JobInv(w)
  BY DEF ClaimsInv
<1>r. \A c \in Challenges : challenge[c] # None =>
        challenge[c] \in Challenge /\ challenge[c].status \in ChallengeStatus
  BY <1>t, RowFields
<1>1. CASE MarkVerified(w)
  <2>1. PICK c \in Challenges : c = worker[w].id /\ challenge[c] # None
    BY <1>1, <1>t, OtherJobs DEF MarkVerified, At, JobInv
  <2>2. worker[w].post \in Posts
    BY <1>1, <1>t, OtherJobs DEF MarkVerified, At
  <2>3. challenge[c].status = "pending" /\ challenge[c].post = None
    BY <1>1, <2>1 DEF MarkVerified, StillPending, ClaimsInv, ChallengeInv
  <2>4. /\ challenge' = [challenge EXCEPT ![c].status = "verified",
                                          ![c].post = worker[w].post]
        /\ UnusedPost(c, worker[w].post)
    BY <1>1, <2>1 DEF MarkVerified
  <2>5. /\ challenge'[c] = [challenge[c] EXCEPT !.status = "verified",
                                                !.post = worker[w].post]
        /\ \A d \in Challenges \ {c} : challenge'[d] = challenge[d]
    BY <2>4, <1>t DEF TypeOK
  <2>6. /\ challenge'[c] \in Challenge
        /\ challenge'[c].status = "verified" /\ challenge'[c].post = worker[w].post
        /\ challenge'[c].xid = challenge[c].xid
        /\ challenge'[c].amount = challenge[c].amount
    BY <2>1, <2>2, <2>5, <1>r DEF Challenge, ChallengeStatus
  <2>7. challenge'[c] # None
    BY <2>6, NoneIsNoRow
  <2>. QED  BY <1>1, <2>1, <2>2, <2>3, <2>4, <2>5, <2>6, <2>7
<1>2. CASE Issue(w)
  <2>1. PICK c \in Challenges : c = worker[w].id /\ challenge[c] # None
    BY <1>2, <1>t, PrepareJob DEF Issue, At, JobInv, PrepareSteps
  <2>2. challenge' = WithIssued(c)
    BY <1>2, <2>1 DEF Issue
  <2>3. CASE challenge[c].status = "verified"
    <3>1. /\ challenge'[c] = [challenge[c] EXCEPT !.status = "issued"]
          /\ \A d \in Challenges \ {c} : challenge'[d] = challenge[d]
      BY <2>2, <2>3, <1>t DEF WithIssued, TypeOK
    <3>2. /\ challenge'[c] \in Challenge
          /\ challenge'[c].status = "issued" /\ challenge'[c].post = challenge[c].post
          /\ challenge'[c].xid = challenge[c].xid
          /\ challenge'[c].amount = challenge[c].amount
      BY <2>1, <3>1, <1>r DEF Challenge, ChallengeStatus
    <3>. QED  BY <2>1, <2>3, <3>1, <3>2, NoneIsNoRow
  <2>4. CASE challenge[c].status # "verified"
    BY <2>1, <2>2, <2>4 DEF WithIssued
  <2>. QED  BY <2>3, <2>4
<1>3. CASE Consume(w)
  <2>1. PICK c \in Challenges : c = worker[w].id /\ challenge[c] # None
    BY <1>3, <1>t, PaymentJob DEF Consume, At, JobInv, PaymentSteps
  <2>2. challenge' = [challenge EXCEPT ![c].status = "consumed"]
    BY <1>3, <2>1 DEF Consume
  <2>3. /\ challenge'[c] = [challenge[c] EXCEPT !.status = "consumed"]
        /\ \A d \in Challenges \ {c} : challenge'[d] = challenge[d]
    BY <2>2, <1>t DEF TypeOK
  <2>4. /\ challenge'[c] \in Challenge
        /\ challenge'[c].status = "consumed" /\ challenge'[c].post = challenge[c].post
        /\ challenge'[c].xid = challenge[c].xid
        /\ challenge'[c].amount = challenge[c].amount
    BY <2>1, <2>3, <1>r DEF Challenge, ChallengeStatus
  <2>. QED  BY <2>1, <2>3, <2>4, <1>r, NoneIsNoRow
<1>. QED  BY <1>1, <1>2, <1>3

(* pending, verified, issued, consumed: whatever a request read before it  *)
(* slept, its write never takes a challenge back or exchanges its post.    *)
THEOREM ChallengesAdvance == Spec => ChallengesOnlyAdvance
<1>. DEFINE Advance == \A c \in Challenges : challenge[c] # None =>
              /\ challenge'[c] # None
              /\ Rank[challenge'[c].status] >= Rank[challenge[c].status]
              /\ challenge[c].post \in {None, challenge'[c].post}
<1>1. ClaimsInv /\ [Next]_vars => Advance
  <2>. SUFFICES ASSUME ClaimsInv, [Next]_vars
                PROVE  Advance
    OBVIOUS
  <2>r. \A c \in Challenges : challenge[c] # None =>
          Rank[challenge[c].status] \in Int
    BY RowFields DEF ClaimsInv, Rank, ChallengeStatus
  <2>1. CASE challenge' = challenge
    BY <2>1, <2>r
  <2>2. ASSUME NEW w \in Workers, NEW c \in Challenges, InsertChallenge(w, c)
        PROVE  Advance
    <3>1. \A d \in Challenges : challenge[d] # None => challenge'[d] = challenge[d]
      BY <2>2 DEF InsertChallenge, ClaimsInv, TypeOK
    <3>. QED  BY <3>1, <2>r
  <2>3. ASSUME NEW w \in Workers, MarkVerified(w) \/ Issue(w) \/ Consume(w)
        PROVE  Advance
    <3>1. PICK c \in Challenges :
            /\ challenge[c] # None /\ challenge'[c] # None
            /\ \A d \in Challenges \ {c} : challenge'[d] = challenge[d]
            /\ \/ /\ challenge[c].status = "pending" /\ challenge[c].post = None
                  /\ challenge'[c].status = "verified"
               \/ /\ challenge[c].status = "verified" /\ challenge'[c].status = "issued"
                  /\ challenge'[c].post = challenge[c].post
               \/ /\ challenge'[c].status = "consumed"
                  /\ challenge[c].status \in ChallengeStatus
                  /\ challenge'[c].post = challenge[c].post
               \/ challenge' = challenge
      BY <2>3, ChallengeSteps
    <3>2. Rank[challenge'[c].status] >= Rank[challenge[c].status]
      BY <3>1, <2>r DEF Rank, ChallengeStatus
    <3>. QED  BY <3>1, <3>2, <2>r
  <2>4. ASSUME NEW w \in Workers, InsertBinding(w)
        PROVE  challenge' = challenge
    BY <2>4 DEF InsertBinding
  <2>5. ASSUME NEW i \in Intents, Pay(i)
        PROVE  challenge' = challenge
    BY <2>5 DEF Pay, dbVars
  <2>. QED  BY <2>1, <2>2, <2>3, <2>4, <2>5, PromiseSteps
<1>. QED  BY <1>1, ClaimsInvariant, PTL DEF Spec, ChallengesOnlyAdvance

-----------------------------------------------------------------------------
(* FeeRequests *)

RequestOf(row) == IF row = None THEN None ELSE [xid |-> row.xid, amount |-> row.amount]
ProofOf(row) == IF row = None THEN None ELSE row.post

(* What FeeRequests reads of the rows, and how a written row changes it.   *)
LEMMA MappedRows ==
  ASSUME ClaimsInv
  PROVE  /\ \A c \in Challenges : challenge[c] # None =>
              /\ RequestOf(challenge[c]) = [xid |-> challenge[c].xid,
                                            amount |-> challenge[c].amount]
              /\ RequestOf(challenge[c]) # None
              /\ RequestOf(challenge[c]).amount = challenge[c].amount
              /\ RequestOf(challenge[c]).xid = challenge[c].xid
              /\ ProofOf(challenge[c]) = challenge[c].post
         /\ \A c \in Challenges : challenge[c] = None =>
              RequestOf(challenge[c]) = None /\ ProofOf(challenge[c]) = None
<1>1. ASSUME NEW c \in Challenges, challenge[c] # None
      PROVE  [xid |-> challenge[c].xid, amount |-> challenge[c].amount] # None
  <2>1. challenge[c] \in Challenge
    BY <1>1 DEF ClaimsInv, TypeOK
  <2>2. [xid |-> challenge[c].xid, amount |-> challenge[c].amount]
          \in [xid : XIds, amount : Amounts]
    BY <2>1 DEF Challenge
  <2>. QED  BY <2>2, NoneIsNoRow
<1>. QED  BY <1>1 DEF RequestOf, ProofOf

LEMMA StepMaps == ClaimsInv /\ [Next]_vars => [Requests!Next]_(Requests!vars)
<1>. SUFFICES ASSUME ClaimsInv, [Next]_vars
              PROVE  Requests!Next \/ UNCHANGED Requests!vars
  OBVIOUS
<1>. DEFINE request == [c \in Challenges |-> RequestOf(challenge[c])]
            proof == [c \in Challenges |-> ProofOf(challenge[c])]
<1>t. TypeOK /\ ClaimsInv'
  BY NextClaims DEF ClaimsInv
<1>m. /\ request = [c \in Challenges |->
             IF challenge[c] = None THEN None
             ELSE [xid |-> challenge[c].xid, amount |-> challenge[c].amount]]
      /\ proof = [c \in Challenges |->
             IF challenge[c] = None THEN None ELSE challenge[c].post]
  BY DEF RequestOf, ProofOf
<1>n. /\ request' = [c \in Challenges |->
             IF challenge'[c] = None THEN None
             ELSE [xid |-> challenge'[c].xid, amount |-> challenge'[c].amount]]
      /\ proof' = [c \in Challenges |->
             IF challenge'[c] = None THEN None ELSE challenge'[c].post]
  BY DEF RequestOf, ProofOf
<1>r. /\ \A c \in Challenges : request[c] = RequestOf(challenge[c])
      /\ \A c \in Challenges : proof[c] = ProofOf(challenge[c])
      /\ \A c \in Challenges : request'[c] = RequestOf(challenge'[c])
      /\ \A c \in Challenges : proof'[c] = ProofOf(challenge'[c])
  OBVIOUS
<1>f. \A c \in Challenges :
        (\A d \in Challenges \ {c} : challenge'[d] = challenge[d]) =>
          /\ request' = [request EXCEPT ![c] = request'[c]]
          /\ request'[c] = request[c] => request' = request
          /\ proof' = [proof EXCEPT ![c] = proof'[c]]
          /\ proof'[c] = proof[c] => proof' = proof
  OBVIOUS
<1>1. ASSUME NEW w \in Workers, InsertBinding(w)
      PROVE  Requests!Next \/ UNCHANGED Requests!vars
  <2>. DEFINE x == worker[w].xid
              a == worker[w].wallet
  <2>1. x \in XIds /\ a \in Wallets
    BY <1>1, <1>t, OtherJobs DEF InsertBinding, At
  <2>2. binding' = WithBinding(x, a) /\ UNCHANGED <<challenge, receipt>>
    BY <1>1 DEF InsertBinding, chainVars, escrowVars
  <2>. HIDE DEF x, a
  <2>3. CASE binding' = binding
    BY <2>2, <2>3 DEF Requests!vars
  <2>4. CASE binding' # binding
    <3>1. /\ binding[x] = None /\ \A y \in XIds : binding[y] # a
          /\ binding' = [binding EXCEPT ![x] = a]
      BY <2>2, <2>4 DEF WithBinding, Unbound
    <3>2. Requests!Own(x, a)
      BY <2>2, <3>1 DEF Requests!Own
    <3>. QED  BY <2>1, <3>2 DEF Requests!Next
  <2>. QED  BY <2>3, <2>4
<1>2. ASSUME NEW w \in Workers, NEW c \in Challenges, InsertChallenge(w, c)
      PROVE  Requests!Next
  <2>1. /\ worker[w] # None /\ worker[w].at = "ask" /\ challenge[c] = None
        /\ UNCHANGED <<binding, receipt>>
    BY <1>2 DEF InsertChallenge, At, chainVars, escrowVars
  <2>2. PICK x \in XIds :
          /\ x = worker[w].xid /\ worker[w].wallet \in Wallets
          /\ worker[w].amount \in Amounts /\ binding[x] = worker[w].wallet
    BY <1>t, <2>1, OtherJobs DEF ClaimsInv, JobInv
  <2>3. /\ challenge'[c] = [xid |-> x, wallet |-> worker[w].wallet,
                            amount |-> worker[w].amount,
                            limit |-> CumulativeLimit(worker[w]),
                            status |-> "pending", post |-> None,
                            expires |-> now + ChallengeLife]
        /\ \A d \in Challenges \ {c} : challenge'[d] = challenge[d]
    BY <1>2, <1>t, <2>2 DEF InsertChallenge, TypeOK
  <2>4. challenge'[c].xid = x /\ challenge'[c].amount = worker[w].amount
        /\ challenge'[c].post = None
    BY <2>3
  <2>5. challenge'[c] # None
    <3>1. challenge'[c].status = "pending" /\ challenge'[c] \in Challenge \cup {None}
      BY <2>3, <1>t DEF ClaimsInv, TypeOK
    <3>2. CumulativeLimit(worker[w]) \in Nat /\ now + ChallengeLife \in Nat
      <4>1. worker[w].claimed \in Nat /\ worker[w].amount \in Nat
        BY <1>t, <2>1, OtherJobs, ClaimsAssumption
      <4>2. now \in Nat /\ ChallengeLife \in Nat
        BY <1>t, ClaimsAssumption DEF TypeOK
      <4>. QED  BY <4>1, <4>2 DEF CumulativeLimit
    <3>3. challenge'[c] \in Challenge
      BY <2>2, <2>3, <3>2 DEF Challenge, ChallengeStatus
    <3>. QED  BY <3>3, NoneIsNoRow
  <2>6. /\ request'[c] = [xid |-> x, amount |-> worker[w].amount]
        /\ request'[c] # None
        /\ request'[c].amount = worker[w].amount
        /\ proof'[c] = None
    <3>1. [xid |-> x, amount |-> worker[w].amount] # None
      BY <2>2, NoneIsNoRow
    <3>2. /\ RequestOf(challenge'[c]) = [xid |-> x, amount |-> worker[w].amount]
          /\ ProofOf(challenge'[c]) = None
      BY <2>4, <2>5 DEF RequestOf, ProofOf
    <3>. QED  BY <1>r, <3>1, <3>2
  <2>7. request[c] = None /\ proof[c] = None
    BY <1>r, <2>1 DEF RequestOf, ProofOf
  <2>8. \A d \in Challenges \ {c} : challenge'[d] = challenge[d]
    BY <2>3
  <2>9. /\ request' = [request EXCEPT ![c] = request'[c]]
        /\ proof' = proof
    BY <2>6, <2>7, <2>8, <1>f
  <2>. HIDE DEF request, proof
  <2>10. request' = [request EXCEPT ![c] = [xid |-> x, amount |-> request'[c].amount]]
    BY <2>6, <2>9
  <2>11. binding[x] # None /\ request'[c].amount \in Nat \ {0}
    BY <2>2, <2>6, ClaimsAssumption
  <2>12. Requests!Ask(c, x)
    BY <2>1, <2>6, <2>7, <2>9, <2>10, <2>11, <1>m, <1>n DEF Requests!Ask
  <2>. QED  BY <2>2, <2>12 DEF Requests!Next
<1>3. ASSUME NEW w \in Workers, MarkVerified(w) \/ Issue(w) \/ Consume(w)
      PROVE  Requests!Next \/ UNCHANGED Requests!vars
  <2>1. PICK c \in Challenges :
          /\ challenge[c] # None /\ challenge'[c] # None
          /\ \A d \in Challenges \ {c} : challenge'[d] = challenge[d]
          /\ challenge'[c].xid = challenge[c].xid
          /\ challenge'[c].amount = challenge[c].amount
          /\ \/ /\ challenge[c].status = "pending" /\ challenge[c].post = None
                /\ challenge'[c].post = worker[w].post /\ worker[w].post \in Posts
                /\ UnusedPost(c, worker[w].post)
             \/ challenge'[c].post = challenge[c].post
    BY <1>3, ChallengeSteps
  <2>2. UNCHANGED <<binding, receipt>>
    BY <1>3 DEF MarkVerified, Issue, Consume, chainVars, escrowVars
  <2>3. /\ request'[c] = request[c] /\ request[c] # None
        /\ proof[c] = challenge[c].post /\ proof'[c] = challenge'[c].post
    <3>1. RequestOf(challenge[c]) # None
      BY <2>1, MappedRows
    <3>. QED  BY <1>r, <2>1, <3>1 DEF RequestOf, ProofOf
  <2>4. request' = request
    BY <1>f, <2>1, <2>3
  <2>5. CASE challenge'[c].post = challenge[c].post
    <3>1. proof' = proof
      BY <1>f, <2>1, <2>3, <2>5
    <3>. QED  BY <1>m, <1>n, <2>2, <2>4, <3>1 DEF Requests!vars
  <2>6. CASE challenge'[c].post # challenge[c].post
    <3>1. PICK p \in Posts : /\ p = worker[w].post /\ UnusedPost(c, p)
                            /\ challenge[c].post = None /\ challenge'[c].post = p
      BY <2>1, <2>6
    <3>2. p # None
      BY <3>1, ClaimsAssumption
    <3>3. \A d \in Challenges : proof[d] # p
      BY <1>r, <2>3, <3>1, <3>2 DEF UnusedPost, ProofOf
    <3>4. proof' = [proof EXCEPT ![c] = p]
      BY <1>f, <2>1, <2>3, <3>1
    <3>. HIDE DEF request, proof
    <3>5. Requests!Prove(c, p)
      BY <1>m, <1>n, <2>2, <2>3, <2>4, <3>1, <3>3, <3>4 DEF Requests!Prove
    <3>. QED  BY <3>1, <3>5 DEF Requests!Next
  <2>. QED  BY <2>5, <2>6
<1>4. ASSUME NEW i \in Intents, Pay(i)
      PROVE  Requests!Next
  <2>1. PICK c \in Challenges :
          /\ c = intent[i].challenge
          /\ challenge[c] # None /\ challenge[c].post # None /\ receipt[c] = None
          /\ Due(c) \in 1 .. challenge[c].amount
          /\ challenge[c].wallet = binding[challenge[c].xid]
    BY <1>4, PayPays
  <2>2. /\ receipt' = [receipt EXCEPT ![c] =
             [wallet |-> challenge[c].wallet, amount |-> Due(c)]]
        /\ UNCHANGED <<binding, challenge>>
    BY <1>4, <2>1 DEF Pay, dbVars
  <2>3. /\ request[c].xid = challenge[c].xid /\ request[c].amount = challenge[c].amount
        /\ proof[c] = challenge[c].post
    BY <1>r, <2>1 DEF RequestOf, ProofOf
  <2>4. request' = request /\ proof' = proof
    BY <2>2
  <2>5. receipt' = [receipt EXCEPT ![c] =
          [wallet |-> binding[request[c].xid], amount |-> Due(c)]]
    BY <2>1, <2>2, <2>3
  <2>6. Due(c) \in 1 .. request[c].amount /\ proof[c] # None
    BY <2>1, <2>3
  <2>. HIDE DEF request, proof
  <2>7. Requests!Pay(c)
    BY <1>m, <1>n, <2>1, <2>2, <2>4, <2>5, <2>6 DEF Requests!Pay
  <2>. QED  BY <2>7 DEF Requests!Next
<1>5. CASE UNCHANGED <<binding, challenge, receipt>>
  BY <1>5 DEF Requests!vars
<1>. QED  BY <1>1, <1>2, <1>3, <1>4, <1>5, PromiseSteps

(* The service and the escrow together keep the promise of FeeRequests: an *)
(* account gets one wallet for good, a post proves one request, and only a *)
(* proven request is paid, once, at most what it asked for, to the wallet  *)
(* of its account.                                                         *)
THEOREM RequestsImplemented == Spec => ImplementsRequests
<1>1. Init => Requests!Init
  BY DEF Init, Requests!Init
<1>2. QED
  BY <1>1, StepMaps, ClaimsInvariant, PTL DEF Spec, ImplementsRequests, Requests!Spec
=============================================================================
