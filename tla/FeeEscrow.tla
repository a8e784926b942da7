------------------------------ MODULE FeeEscrow ------------------------------
(***************************************************************************)
(* The on-chain creator-fee escrow (packages/fee-escrow/program). Every    *)
(* instruction is one atomic action: the chain applies all of it or, when  *)
(* a check fails, none of it. An allocation belongs to one pool; for each  *)
(* of the pool's two mints it owns a vault and a ledger. Around it run the *)
(* parts the program only sees from outside: the Meteora pool (who its     *)
(* creator is, whether it has graduated), the verifier service that signs  *)
(* claim authorizations, token deposits by anyone, and the clock.          *)
(***************************************************************************)
EXTENDS FeeShares, FiniteSets, Functions

CONSTANTS
  Pools,
  Wallets,
  Keys,         \* verifier public keys anyone may propose
  ValidKeys,    \* those that are not the default key and lie on the curve
  Nonces,
  Escrow,       \* the allocation account, as an owner
  ShareLists,   \* share lists a launcher may submit, valid or not
  Amounts,      \* token amounts one collection or deposit may bring
  Limits,       \* cumulative limits the service may authorize
  Lifetimes,    \* validity periods the service may put in a message
  ClaimWindow,  \* longest validity a claim may have (900 seconds)
  MaxAmount,    \* largest u64 token amount
  MaxEpoch,     \* largest u64 verifier epoch
  MaxTime,      \* bound on the clock
  MaxSigned     \* bound on the number of authorizations signed

ASSUME EscrowAssumption ==
  /\ ValidKeys \subseteq Keys /\ None \notin Keys
  /\ Escrow \notin Wallets /\ None \notin Wallets /\ Escrow # None
  /\ ShareLists \subseteq Seq(Share)
  /\ Amounts \subseteq Nat /\ Limits \subseteq Nat /\ Lifetimes \subseteq Int
  /\ ClaimWindow \in Nat \ {0}
  /\ MaxAmount \in Nat /\ MaxEpoch \in Nat \ {0}
  /\ MaxTime \in Nat /\ MaxSigned \in Nat

VARIABLES
  verifier,   \* config.verifier; None before initialize_config
  control,    \* paused flag and verifier epoch; epoch 0 before initialize_control
  creator,    \* creator recorded by each pool
  nftOwner,   \* owner of the creator position NFT; None until the pool graduates
  shares,     \* allocation.shares; << >> while the pool has no allocation
  received,   \* ledger.total_received of each pool and side
  vault,      \* balance of the allocation's token account
  claimed,    \* cumulative amount paid to each X id
  bound,      \* wallet each X id is bound to, over all allocations
  receipts,   \* receipt account of each nonce
  signed,     \* authorizations the verifier service has signed
  now,        \* unix timestamp of the clock sysvar
  donated,    \* history: tokens deposited in a vault outside a collection
  revoked     \* history: authorizations the last rotation ended

adminVars == <<verifier, control>>
poolVars == <<creator, nftOwner>>
payVars == <<claimed, bound, receipts>>
envVars == <<signed, now>>
history == <<donated, revoked>>
vars == <<adminVars, poolVars, shares, received, vault, payVars, envVars,
          history>>

Side == {"base", "quote"}

(* A signed claim message. *)
Authorization ==
  [pool : Pools, side : Side, xid : XIds, wallet : Wallets, limit : Limits,
   nonce : Nonces, issued : Nat, expires : Int, epoch : Nat, key : Keys]

Receipt ==
  [pool : Pools, side : Side, wallet : Wallets, amount : Nat,
   auth : Authorization]

ASSUME ReceiptAssumption == None \notin Receipt

TypeOK ==
  /\ verifier \in ValidKeys \cup {None}
  /\ control \in [paused : BOOLEAN, epoch : 0 .. MaxEpoch]
  /\ creator \in [Pools -> Wallets \cup {Escrow}]
  /\ nftOwner \in [Pools -> Wallets \cup {Escrow, None}]
  /\ shares \in [Pools -> ShareLists \cup {<< >>}]
  /\ received \in [Pools -> [Side -> 0 .. MaxAmount]]
  /\ vault \in [Pools -> [Side -> 0 .. MaxAmount]]
  /\ claimed \in [Pools -> [Side -> [XIds -> Nat]]]
  /\ bound \in [XIds -> Wallets \cup {None}]
  /\ receipts \in [Nonces -> Receipt \cup {None}]
  /\ signed \subseteq Authorization
  /\ now \in Nat
  /\ donated \in [Pools -> [Side -> Nat]]
  /\ revoked \subseteq signed

Init ==
  /\ verifier = None
  /\ control = [paused |-> FALSE, epoch |-> 0]
  /\ creator \in [Pools -> Wallets]
  /\ nftOwner = [p \in Pools |-> None]
  /\ shares = [p \in Pools |-> << >>]
  /\ received = [p \in Pools |-> [s \in Side |-> 0]]
  /\ vault = [p \in Pools |-> [s \in Side |-> 0]]
  /\ claimed = [p \in Pools |-> [s \in Side |-> [x \in XIds |-> 0]]]
  /\ bound = [x \in XIds |-> None]
  /\ receipts = [n \in Nonces |-> None]
  /\ signed = {}
  /\ now = 0
  /\ donated = [p \in Pools |-> [s \in Side |-> 0]]
  /\ revoked = {}

Allocated(p) == shares[p] # << >>
Graduated(p) == nftOwner[p] # None

-----------------------------------------------------------------------------
(* Administration, by the program's upgrade authority *)

InitializeConfig(k) ==
  /\ verifier = None
  /\ k \in ValidKeys
  /\ verifier' = k
  /\ UNCHANGED <<control, poolVars, shares, received, vault, payVars, envVars,
                 history>>

InitializeControl ==
  /\ verifier # None
  /\ control.epoch = 0
  /\ control' = [paused |-> FALSE, epoch |-> 1]
  /\ UNCHANGED <<verifier, poolVars, shares, received, vault, payVars, envVars,
                 history>>

SetPaused(flag) ==
  /\ control.epoch > 0
  /\ control' = [control EXCEPT !.paused = flag]
  /\ UNCHANGED <<verifier, poolVars, shares, received, vault, payVars, envVars,
                 history>>

SameEpoch == control.epoch   \* mutant of NextEpoch: authorizations outlive a rotation
NextEpoch == control.epoch + 1

(* rotate_config; checked_add refuses to pass the last epoch. It ends the  *)
(* authorizations for the current epoch and those before; one that was     *)
(* made out for an epoch to come is not among them.                        *)
RotateVerifier(k) ==
  /\ control.epoch > 0
  /\ k \in ValidKeys
  /\ NextEpoch <= MaxEpoch
  /\ verifier' = k
  /\ control' = [control EXCEPT !.epoch = NextEpoch]
  /\ revoked' = {m \in signed : m.epoch <= control.epoch}
  /\ UNCHANGED <<poolVars, shares, received, vault, payVars, envVars, donated>>

-----------------------------------------------------------------------------
(* Allocations and collections *)

AnyPhase(p) == TRUE          \* mutant of PreGraduation
PreGraduation(p) == ~Graduated(p)

(* The launcher hands its pool to a new allocation: the program checks the *)
(* pool, stores the shares, and Meteora's transfer makes the allocation    *)
(* the pool's creator.                                                     *)
InitializeAllocation(p, w, list) ==
  /\ control.epoch > 0 /\ ~control.paused
  /\ ~Allocated(p)
  /\ ValidShares(list)
  /\ PreGraduation(p)
  /\ creator[p] = w
  /\ shares' = [shares EXCEPT ![p] = list]
  /\ creator' = [creator EXCEPT ![p] = Escrow]
  /\ UNCHANGED <<adminVars, nftOwner, received, vault, payVars, envVars,
                 history>>

(* Which venue's fees the allocation may collect. *)
OwnsVenue(p, venue) ==
  \/ venue = "dbc" /\ creator[p] = Escrow
  \/ venue = "damm" /\ nftOwner[p] = Escrow

(* checked_add in record_collection, and the token program's own check.    *)
Fits(p, amount) ==
  \A s \in Side : /\ received[p][s] + amount[s] <= MaxAmount
                  /\ vault[p][s] + amount[s] <= MaxAmount

(* Anyone may collect; both mints are recorded or neither is, and the      *)
(* collection fails whole when a ledger or vault would pass u64.           *)
CollectFees(p, venue, amount) ==
  /\ Allocated(p)
  /\ OwnsVenue(p, venue)
  /\ Fits(p, amount)
  /\ received' = [received EXCEPT ![p] = [s \in Side |-> received[p][s] + amount[s]]]
  /\ vault' = [vault EXCEPT ![p] = [s \in Side |-> vault[p][s] + amount[s]]]
  /\ UNCHANGED <<adminVars, poolVars, shares, payVars, envVars, history>>

-----------------------------------------------------------------------------
(* Claims *)

(* require_claim_control *)
ClaimsOpen(epoch) ==
  ~control.paused /\ epoch > 0 /\ epoch = control.epoch

InWindow(m) ==
  /\ m.issued <= now /\ now <= m.expires
  /\ m.expires - m.issued \in 1 .. ClaimWindow

(* Mutants of Due: the share is not a bound; the authorization is not.     *)
DueByLimit(m) == m.limit
DueByShare(m) ==
  Entitlement(received[m.pool][m.side], Bps(shares[m.pool], m.xid))

(* Cumulative payment an authorization allows right now. *)
Due(m) ==
  Lesser(Entitlement(received[m.pool][m.side], Bps(shares[m.pool], m.xid)),
         m.limit)

Owed(m) == Due(m) - claimed[m.pool][m.side][m.xid]

AnyWallet(m) == TRUE         \* mutant of BindingAllows
BindingAllows(m) == bound[m.xid] \in {None, m.wallet}

ReusedNonce(m) == TRUE       \* mutant of NonceUnused
NonceUnused(m) == receipts[m.nonce] = None

Claim(m) ==
  /\ ClaimsOpen(m.epoch)
  /\ InWindow(m)
  /\ Allocated(m.pool)
  /\ m.xid \in Recipients(shares[m.pool])
  /\ m.key = verifier
  /\ BindingAllows(m)
  /\ Owed(m) > 0
  /\ vault[m.pool][m.side] >= Owed(m)
  /\ NonceUnused(m)
  /\ bound' = [bound EXCEPT ![m.xid] = m.wallet]
  /\ vault' = [vault EXCEPT ![m.pool][m.side] = @ - Owed(m)]
  /\ claimed' = [claimed EXCEPT ![m.pool][m.side][m.xid] = Due(m)]
  /\ receipts' = [receipts EXCEPT ![m.nonce] =
       [pool |-> m.pool, side |-> m.side, wallet |-> m.wallet,
        amount |-> Owed(m), auth |-> m]]
  /\ UNCHANGED <<adminVars, poolVars, shares, received, envVars,
                 history>>

-----------------------------------------------------------------------------
(* The surroundings of the program *)

(* The service signs a message for the epoch it read on chain, which a     *)
(* rotation may already have ended. Who else has a key, the current one,   *)
(* one of before or one to come, may sign any message with it: for an      *)
(* epoch that has not begun, and dated before or after the current time.   *)
Sign(p, s, x, w, limit, n, at, life, e, k) ==
  LET m == [pool |-> p, side |-> s, xid |-> x, wallet |-> w, limit |-> limit,
            nonce |-> n, issued |-> at, expires |-> at + life, epoch |-> e,
            key |-> k]
  IN  /\ Cardinality(signed) < MaxSigned
      /\ signed' = signed \cup {m}
      /\ UNCHANGED <<adminVars, poolVars, shares, received, vault, payVars,
                     now, history>>

(* A pool's creator may give the pool to another wallet. *)
TransferCreator(p, w) ==
  /\ creator[p] \in Wallets
  /\ creator' = [creator EXCEPT ![p] = w]
  /\ UNCHANGED <<adminVars, nftOwner, shares, received, vault, payVars,
                 envVars, history>>

(* Graduation gives the creator's position NFT to the pool's creator. *)
Graduate(p) ==
  /\ ~Graduated(p)
  /\ nftOwner' = [nftOwner EXCEPT ![p] = creator[p]]
  /\ UNCHANGED <<adminVars, creator, shares, received, vault, payVars, envVars,
                 history>>

(* Anyone may send tokens to a vault; no ledger credits them. *)
Donate(p, s, a) ==
  /\ vault[p][s] + a <= MaxAmount
  /\ vault' = [vault EXCEPT ![p][s] = @ + a]
  /\ donated' = [donated EXCEPT ![p][s] = @ + a]
  /\ UNCHANGED <<adminVars, poolVars, shares, received, payVars, envVars,
                 revoked>>

Tick ==
  /\ now < MaxTime
  /\ now' = now + 1
  /\ UNCHANGED <<adminVars, poolVars, shares, received, vault, payVars,
                 signed, history>>

Next ==
  \/ \E k \in Keys : InitializeConfig(k) \/ RotateVerifier(k)
  \/ InitializeControl
  \/ \E flag \in BOOLEAN : SetPaused(flag)
  \/ \E p \in Pools, w \in Wallets, list \in ShareLists :
       InitializeAllocation(p, w, list)
  \/ \E p \in Pools, venue \in {"dbc", "damm"}, amount \in [Side -> Amounts] :
       CollectFees(p, venue, amount)
  \/ \E m \in signed : Claim(m)
  \/ \E p \in Pools, s \in Side, x \in XIds, w \in Wallets, limit \in Limits,
        n \in Nonces, at \in 0 .. MaxTime, life \in Lifetimes, e \in 1 .. MaxEpoch,
        k \in ValidKeys :
       Sign(p, s, x, w, limit, n, at, life, e, k)
  \/ \E p \in Pools, w \in Wallets : TransferCreator(p, w)
  \/ \E p \in Pools : Graduate(p)
  \/ \E p \in Pools, s \in Side, a \in Amounts : Donate(p, s, a)
  \/ Tick

Spec == Init /\ [][Next]_vars

-----------------------------------------------------------------------------
(* Safety *)

EntitlementOf(p, s, x) == Entitlement(received[p][s], Bps(shares[p], x))

(* Everything the recipients of an allocation have been paid on one side,  *)
(* and everything they are still entitled to.                              *)
TotalClaimed(p, s) == SlotSum(PerSlot(shares[p], claimed[p][s]))

StillOwed(p, s) ==
  SlotSum([i \in Slots |->
    IF i \in DOMAIN shares[p]
      THEN EntitlementOf(p, s, shares[p][i].id)
             - claimed[p][s][shares[p][i].id]
      ELSE 0])

(* Conservation: a vault holds exactly what was collected and deposited    *)
(* less what the recipients were paid; no order of collections, deposits   *)
(* and claims creates or loses a token (claim, record_collection).         *)
Conservation ==
  \A p \in Pools, s \in Side :
    vault[p][s] = received[p][s] + donated[p][s] - TotalClaimed(p, s)

(* No recipient is ever paid beyond the floor of its share, however many   *)
(* claims the payment was split into ("splitting claims cannot manufacture *)
(* rounding gains", packages/fee-escrow/README.md).                        *)
NoOverpayment ==
  \A p \in Pools : Allocated(p) =>
    \A s \in Side, x \in Recipients(shares[p]) :
      claimed[p][s][x] <= EntitlementOf(p, s, x)

(* Whoever claims first cannot starve the others: collected fees alone,    *)
(* without counting deposits, cover every recipient's unpaid entitlement,  *)
(* so InsufficientVault never stops an entitled claim.                     *)
EveryoneCanBePaid ==
  \A p \in Pools, s \in Side : StillOwed(p, s) <= vault[p][s] - donated[p][s]

(* Overlapping authorizations for one recipient, signed before or after    *)
(* each other and used in any order, pay together no more than the largest *)
(* cumulative limit among them.                                            *)
WithinAuthorized ==
  \A p \in Pools, s \in Side, x \in XIds : claimed[p][s][x] > 0 =>
    \E m \in signed : /\ m.pool = p /\ m.side = s /\ m.xid = x
                      /\ claimed[p][s][x] <= m.limit

(* Nonces whose receipts record a payment to a recipient. *)
ReceiptsOf(p, s, x) ==
  {n \in Nonces : /\ receipts[n] # None
                  /\ receipts[n].pool = p /\ receipts[n].side = s
                  /\ receipts[n].auth.xid = x}

(* "A paid nonce cannot pay twice" (docs/x-fee-escrow.md): the receipts of *)
(* a recipient add up to what was paid to it, so no payment reused or      *)
(* overwrote the receipt of another (claim, the receipt account).          *)
ReceiptsAccountForPayments ==
  \A p \in Pools, s \in Side, x \in XIds :
    claimed[p][s][x] =
      SumFunction([n \in ReceiptsOf(p, s, x) |-> receipts[n].amount])

(* Every X id is paid to one wallet only, in every allocation and through  *)
(* every rotation: the first successful claim binds it for good.           *)
OneWalletPerXId ==
  \A n \in Nonces : receipts[n] # None =>
    bound[receipts[n].auth.xid] = receipts[n].wallet

(* Once a pool has an allocation its creator rights never leave it, on the *)
(* curve or after graduation, so nobody else can draw the creator fees.    *)
CreatorLocked ==
  \A p \in Pools : Allocated(p) =>
    creator[p] = Escrow /\ nftOwner[p] \in {None, Escrow}

-----------------------------------------------------------------------------
(* What a step may never do *)

(* "Rotation invalidates every previous epoch, even if an old key is       *)
(* selected again" (docs/x-fee-escrow.md): no payment is ever made on an   *)
(* authorization for the epoch a rotation ended or for one before, whoever *)
(* signed it, however it is dated and whatever key the verifier has after  *)
(* (rotate_config, require_claim_control). An authorization signed before  *)
(* the rotation for an epoch that begins after it is not revoked: it pays  *)
(* in that epoch if its key is the verifier's then.                        *)
RevokedNeverPays ==
  [][\A n \in Nonces : receipts'[n] # receipts[n] =>
       receipts'[n].auth \notin revoked]_vars

-----------------------------------------------------------------------------
(* The program keeps the promise of FeePayout: seen through its split,     *)
(* ledgers, claim accounts and bindings, every instruction either leaves   *)
(* the promise untouched or is one of its steps.                           *)
Payout == INSTANCE FeePayout WITH
  terms <- shares, total <- received, paid <- claimed, owner <- bound

ImplementsPayout == Payout!Spec
=============================================================================
