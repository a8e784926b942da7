---------------------------- MODULE CreateLaunch ---------------------------
(* The launch form: its creator edits it while a ticker lookup, an image,  *)
(* an X profile, a recipient and the submission itself are under way, may  *)
(* switch wallets or sign in from another tab, and loses the page to the X *)
(* redirect and comes back to a saved draft.                               *)
EXTENDS Naturals, FiniteSets, FiniteSetsExt, Functions

CONSTANTS Wallets, Handles, Tickers, XIds, None,
          Whole, Shares, MaxRows,
          MaxEdits                       \* bound on what the creator does

VARIABLES form,       \* the useState fields of CreateToken
          session,    \* the wallet the session cookie names
          profile,    \* walletProfiles
          lookups,    \* ticker requests under way, with their controller
          preparing,  \* the image selections prepareTokenImage works on
          adopting,   \* useConnectedX under way
          adding,     \* addMe under way: the rows of the render it closed over
          prefill,    \* the creator the page address names
          draft,      \* sessionStorage[draftKey]
          sent,       \* submit under way: the fields it closed over
          launches, edits

vars == <<form, session, profile, lookups, preparing, adopting, adding,
          prefill, draft, sent, launches, edits>>

NoRows == [x \in {} |-> 0]
Total(rows) == SumFunction(rows)

Earlier == MaxEdits + 1            \* the image a draft brought back
NoDraft == [owner |-> None]

Blank(w) == [wallet |-> w, ticker |-> None, answer |-> None, x |-> None,
             source |-> "link", image |-> 0, selection |-> 0, busy |-> FALSE,
             rows |-> NoRows, restored |-> w # None]

Init ==
  /\ form \in {Blank(w) : w \in Wallets \cup {None}}
  /\ session = None
  /\ profile \in [Wallets -> Handles] \cup {[w \in Wallets |-> None]}
  /\ prefill \in XIds \cup {None}
  /\ lookups = {} /\ preparing = {}
  /\ adopting = None /\ adding = None /\ draft = NoDraft /\ sent = None
  /\ launches = {} /\ edits = 0

Edit == edits < MaxEdits /\ edits' = edits + 1

(* --------------------------------- fields ------------------------------ *)

(* A new ticker clears the answer, aborts the lookup and starts another.   *)
Aborted(pending) == {[l EXCEPT !.aborted = TRUE] : l \in pending}
Looked(ticker) ==
  Aborted(lookups) \cup
    {[ticker |-> t, aborted |-> FALSE] : t \in {ticker} \ {None}}

TypeTicker(ticker) ==
  /\ Edit /\ ticker # form.ticker
  /\ form' = [form EXCEPT !.ticker = ticker, !.answer = None]
  /\ lookups' = Looked(ticker)
  /\ UNCHANGED <<session, profile, preparing, adopting, adding, prefill, draft,
                 sent, launches>>

Heard(l) == ~l.aborted

TickerAnswer(l) ==
  /\ l \in lookups /\ lookups' = lookups \ {l}
  /\ form' = IF Heard(l) THEN [form EXCEPT !.answer = l.ticker] ELSE form
  /\ UNCHANGED <<session, profile, preparing, adopting, adding, prefill, draft,
                 sent, launches, edits>>

(* selectImage: only the last selection may set the image.                 *)
SelectImage ==
  /\ Edit
  /\ form' = [form EXCEPT !.selection = @ + 1, !.image = 0, !.busy = TRUE]
  /\ preparing' = preparing \cup {form.selection + 1}
  /\ UNCHANGED <<session, profile, lookups, adopting, adding, prefill, draft,
                 sent, launches>>

LastSelection(n) == n = form.selection

ImagePrepared(n) ==
  /\ n \in preparing /\ preparing' = preparing \ {n}
  /\ \E image \in {0, n} :            \* 0: the file could not be read
       form' = IF LastSelection(n)
               THEN [form EXCEPT !.image = IF image = 0 THEN @ ELSE image,
                                 !.busy = FALSE]
               ELSE form
  /\ UNCHANGED <<session, profile, lookups, adopting, adding, prefill, draft,
                 sent, launches, edits>>

TypeProfileLink(handle) ==
  /\ Edit
  /\ form' = [form EXCEPT !.x = handle, !.source = "link"]
  /\ UNCHANGED <<session, profile, lookups, preparing, adopting, adding, prefill,
                 draft, sent, launches>>

(* useConnectedX: sign in as the wallet of the click, then read the        *)
(* profile of the session.  The reply sets the fields of whatever wallet   *)
(* is connected by then.                                                   *)
UseConnectedX ==
  /\ Edit /\ form.wallet # None /\ adopting = None /\ sent = None
  /\ adopting' = form.wallet /\ session' = form.wallet
  /\ UNCHANGED <<form, profile, lookups, preparing, adding, prefill, draft, sent,
                 launches>>

ConnectedProfile ==
  /\ adopting # None /\ adopting' = None
  /\ form' = IF session # None /\ profile[session] # None
             THEN [form EXCEPT !.x = profile[session], !.source = "connected"]
             ELSE form
  /\ UNCHANGED <<session, profile, lookups, preparing, adding, prefill, draft,
                 sent, launches, edits>>

(* -------------------------------- recipients --------------------------- *)

WithRow(rows, x) ==
  IF x \in DOMAIN rows THEN rows
  ELSE [y \in DOMAIN rows \cup {x} |->
          IF y = x THEN Max({0, Whole - Total(rows)}) ELSE rows[y]]

(* add: never a ninth row, never the same account twice.                   *)
Added(rows, x) ==
  IF Cardinality(DOMAIN rows) >= MaxRows THEN rows ELSE WithRow(rows, x)

AddRecipient(x) ==
  /\ Edit
  /\ form' = [form EXCEPT !.rows = Added(@, x)]
  /\ UNCHANGED <<session, profile, lookups, preparing, adopting, adding, prefill,
                 draft, sent, launches>>

SetShare(x, share) ==
  /\ Edit /\ x \in DOMAIN form.rows
  /\ form' = [form EXCEPT !.rows[x] = share]
  /\ UNCHANGED <<session, profile, lookups, preparing, adopting, adding, prefill,
                 draft, sent, launches>>

RemoveRecipients(gone) ==
  /\ Edit /\ gone # {} /\ gone \subseteq DOMAIN form.rows
  /\ form' = [form EXCEPT !.rows = [x \in DOMAIN @ \ gone |-> @[x]]]
  /\ UNCHANGED <<session, profile, lookups, preparing, adopting, adding, prefill,
                 draft, sent, launches>>

(* addMe appends to the rows of the render it was clicked in.              *)
AddMe ==
  /\ Edit /\ form.wallet # None /\ adding = None
  /\ Cardinality(DOMAIN form.rows) < MaxRows
  /\ adding' = form.rows /\ session' = form.wallet
  /\ UNCHANGED <<form, profile, lookups, preparing, adopting, prefill, draft,
                 sent, launches>>

MyProfile(x) ==
  /\ adding # None /\ adding' = None
  /\ form' = IF Added(adding, x) = adding THEN form
             ELSE [form EXCEPT !.rows = Added(adding, x)]
  /\ UNCHANGED <<session, profile, lookups, preparing, adopting, prefill, draft,
                 sent, launches, edits>>

(* The creator of the address joins the rows there are when the reply      *)
(* comes; no row limit is applied.                                         *)
PrefillReply ==
  /\ prefill # None /\ prefill' = None
  /\ form' = [form EXCEPT !.rows = WithRow(@, prefill)]
  /\ UNCHANGED <<session, profile, lookups, preparing, adopting, adding, draft,
                 sent, launches, edits>>

(* ---------------------------- wallet and draft ------------------------- *)

Saved == draft.owner # None
OwnDraft(w) == Saved /\ draft.owner = w /\ ~draft.old

(* A wallet connects: the X field is no longer a verified one; the first   *)
(* wallet after a load takes the draft of the browser, or discards it.     *)
Connect(w) ==
  LET kept == [form EXCEPT !.wallet = w, !.source = "link", !.restored = TRUE]
  IN
  /\ w # form.wallet /\ Edit
  /\ IF w = None \/ form.restored \/ prefill # None
     THEN form' = [kept EXCEPT !.restored = form.restored] /\ draft' = draft
     ELSE /\ draft' = NoDraft
          /\ form' = IF OwnDraft(w)
                     THEN [kept EXCEPT !.ticker = draft.ticker, !.x = draft.x,
                             !.answer = IF draft.ticker = form.ticker THEN @
                                        ELSE None,
                             !.source = draft.source, !.image = IF draft.image = 0 THEN 0 ELSE Earlier,
                             !.rows = draft.rows]
                     ELSE kept
  /\ lookups' = IF form'.ticker # form.ticker
                THEN Looked(form'.ticker) ELSE lookups
  /\ UNCHANGED <<session, profile, preparing, adopting, adding, prefill, sent,
                 launches>>

(* Connecting X saves the draft and leaves the page.                       *)
LeaveForX ==
  /\ Edit /\ form.wallet # None
  /\ draft' = [owner |-> form.wallet, ticker |-> form.ticker, x |-> form.x,
               source |-> form.source, image |-> form.image,
               rows |-> form.rows, old |-> FALSE]
  /\ form' = Blank(None)
  /\ lookups' = {} /\ preparing' = {} /\ adopting' = None /\ adding' = None
  /\ prefill' = None /\ sent' = None
  /\ \E handle \in Handles \cup {profile[form.wallet]} :
       profile' = [profile EXCEPT ![form.wallet] = handle]
  /\ UNCHANGED <<session, launches>>

(* The draft of an abandoned redirect lasts thirty minutes.                *)
DraftExpires ==
  /\ Saved /\ ~draft.old /\ draft' = [draft EXCEPT !.old = TRUE]
  /\ UNCHANGED <<form, session, profile, lookups, preparing, adopting, adding,
                 prefill, sent, launches, edits>>

(* Another tab signs in, or links another account.                         *)
OtherTab ==
  /\ Edit
  /\ \E w \in Wallets, handle \in Handles :
       \/ w # session /\ session' = w /\ UNCHANGED profile
       \/ /\ handle # profile[w] /\ profile' = [profile EXCEPT ![w] = handle]
          /\ UNCHANGED session
  /\ UNCHANGED <<form, lookups, preparing, adopting, adding, prefill, draft, sent,
                 launches>>

(* --------------------------------- submit ------------------------------ *)

(* valid in AllocationEditor, with the server's own schema for the rest.   *)
FeeAllocationValid(rows) ==
  Total(rows) <= Whole /\ \A x \in DOMAIN rows : rows[x] > 0

Reviewable ==
  /\ ~form.busy /\ FeeAllocationValid(form.rows) /\ prefill = None
  /\ form.answer # None

Submit ==
  /\ Edit /\ sent = None /\ form.wallet # None /\ Reviewable
  /\ sent' = [form |-> form, pc |-> "linked"]
  /\ session' = form.wallet
  /\ UNCHANGED <<form, profile, lookups, preparing, adopting, adding, prefill,
                 draft, launches>>

(* A creator who keeps a share must have linked X to this very wallet.     *)
Linked(f) ==
  Total(f.rows) < Whole /\ DOMAIN f.rows # {} =>
    session = f.wallet /\ profile[session] # None

CheckLinked ==
  /\ sent # None /\ sent.pc = "linked"
  /\ sent' = IF Linked(sent.form) /\ sent.form.image # 0
             THEN [sent EXCEPT !.pc = "launch"] ELSE None
  /\ UNCHANGED <<form, session, profile, lookups, preparing, adopting, adding,
                 prefill, draft, launches, edits>>

(* resolveProjectLinks on the server, for the wallet of the session: a     *)
(* connected account is verified against the profile, which must still be  *)
(* the one the form showed.                                                *)
SameProfile(f) == profile[session] # None /\ f.x \in {None, profile[session]}

Request(f) ==
  [ticker |-> f.ticker, answer |-> f.answer, image |-> f.image, x |-> f.x,
   verified |-> f.source = "connected", rows |-> f.rows]

LaunchRequest ==
  LET request == Request(sent.form)
  IN
  /\ sent # None /\ sent.pc = "launch" /\ session # None
  /\ sent' = None
  /\ launches' =
       IF request.verified => SameProfile(request)
       THEN launches \cup
              {[request |-> request,
                x |-> IF request.verified THEN profile[session] ELSE request.x]}
       ELSE launches
  /\ UNCHANGED <<form, session, profile, lookups, preparing, adopting, adding,
                 prefill, draft, edits>>

Next ==
  \/ \E ticker \in Tickers : TypeTicker(ticker)
  \/ \E l \in lookups : TickerAnswer(l)
  \/ SelectImage
  \/ \E n \in preparing : ImagePrepared(n)
  \/ \E handle \in Handles : TypeProfileLink(handle)
  \/ UseConnectedX \/ ConnectedProfile
  \/ \E x \in XIds : AddRecipient(x)
  \/ \E x \in XIds, share \in Shares : SetShare(x, share)
  \/ \E gone \in SUBSET XIds : RemoveRecipients(gone)
  \/ AddMe \/ \E x \in XIds : MyProfile(x)
  \/ PrefillReply
  \/ \E w \in Wallets \cup {None} : Connect(w)
  \/ LeaveForX \/ DraftExpires \/ OtherTab
  \/ Submit \/ CheckLinked \/ LaunchRequest

Spec == Init /\ [][Next]_vars

(* ------------------------------ properties ----------------------------- *)

(* Every field of the form and every request under way is well formed.     *)
TypeOK ==
  /\ form.wallet \in Wallets \cup {None}
  /\ form.ticker \in Tickers \cup {None} /\ form.answer \in Tickers \cup {None}
  /\ form.source \in {"link", "connected"}
  /\ form.image \in 0..Earlier /\ preparing \subseteq 1..form.selection
  /\ DOMAIN form.rows \subseteq XIds
  /\ session \in Wallets \cup {None} /\ profile \in [Wallets -> Handles \cup {None}]
  /\ edits \in 0..MaxEdits

(* What the form says of a ticker is said of the ticker in the field, and  *)
(* a launch was offered for the ticker that was looked up.                 *)
AnswerIsForTicker ==
  /\ form.answer \in {None, form.ticker}
  /\ \A l \in launches : l.request.answer = l.request.ticker

(* The image shown, and launched, is the last file that was chosen, though *)
(* an earlier and larger one may be ready after it.                        *)
LastImageWins ==
  /\ form.image \in {0, form.selection, Earlier}
  /\ form.busy => form.selection \in preparing

(* An account a token shows as its verified creator is the one the form    *)
(* showed when it was submitted, although the reply of a connected account *)
(* may come under another wallet and the account may be linked anew.       *)
VerifiedIsAsShown ==
  \A l \in launches : l.request.verified => l.request.x \in {None, l.x}

(* A draft comes back to the wallet that wrote it, while it is fresh, and  *)
(* at most once.                                                           *)
DraftIsItsOwners ==
  Saved /\ ~Saved'
      /\ <<form'.ticker, form'.rows>> # <<form.ticker, form.rows>>
    => draft.owner = form'.wallet /\ ~draft.old
=============================================================================
