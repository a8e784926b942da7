---------------------------- MODULE FeeDashboard ----------------------------
(* The page where a creator sees and claims shared fees: the account of    *)
(* the signed-in wallet, loaded by itself or on request, page by page, and *)
(* the claim of one balance.  The wallet may change, new allocations may   *)
(* arrive and a claim may be prepared while requests are under way.        *)
EXTENDS Naturals, FiniteSets, Sequences, SequencesExt

CONSTANTS Wallets, Tokens, None, PageSize,
          MaxClicks                        \* bound on what the creator does

VARIABLES wallet,      \* the connected wallet
          session,     \* the wallet of the session cookie
          allocations, \* the allocations of each wallet, newest first
          bound,       \* the wallets bound to their X account
          account,     \* useState of CreatorFees
          auto,        \* the effect's request: its wallet and controller
          asked,       \* the button's request: mine, more, bind or none
          flow,        \* useState of ClaimFlow
          running,     \* the request of run(action)
          challenges,  \* the server's challenges, verified or not
          clicks

vars == <<wallet, session, allocations, bound, account, auto, asked, flow,
          running, challenges, clicks>>

NoFlow == [challenge |-> 0, verified |-> FALSE]

Init ==
  /\ wallet \in Wallets /\ session \in Wallets \cup {None}
  /\ allocations \in [Wallets -> {<<>>, <<CHOOSE t \in Tokens : TRUE>>}]
  /\ bound = {} /\ account = None
  /\ auto = {[wallet |-> wallet, aborted |-> FALSE]}
  /\ asked = None /\ flow = NoFlow /\ running = None
  /\ challenges = <<>> /\ clicks = 0

Click == clicks < MaxClicks /\ clicks' = clicks + 1

(* ------------------------------ the account ---------------------------- *)

Page(w, offset) ==
  SubSeq(allocations[w], offset + 1,
         IF offset + PageSize < Len(allocations[w]) THEN offset + PageSize
         ELSE Len(allocations[w]))

(* feeDashboard answers for the wallet of the session.                     *)
Dashboard(w, offset, how) ==
  [wallet |-> w, rows |-> Page(w, offset), how |-> how, bound |-> w \in bound]

(* A wallet change clears the page and asks again, without a signature.    *)
Aborted(requests) == {[r EXCEPT !.aborted = TRUE] : r \in requests}

ChangeWallet(w) ==
  /\ Click /\ w # wallet /\ wallet' = w
  /\ account' = None /\ flow' = NoFlow
  /\ auto' = Aborted(auto) \cup {[wallet |-> w, aborted |-> FALSE]}
  /\ running' = IF running = None THEN None ELSE [running EXCEPT !.live = FALSE]
  /\ UNCHANGED <<session, allocations, bound, asked, challenges>>

AnyAnswer(r) == ~r.aborted
OwnAnswer(r) == ~r.aborted /\ session = wallet

AutoAnswer(r) ==
  /\ r \in auto /\ auto' = auto \ {r}
  /\ account' = IF session # None /\ OwnAnswer(r)
                THEN Dashboard(session, 0, "auto") ELSE account
  /\ UNCHANGED <<wallet, session, allocations, bound, asked, flow, running,
                 challenges, clicks>>

(* The buttons sign in first, as the wallet of the click; their answers    *)
(* are shown whatever wallet is connected by then.                         *)
Ask(what) ==
  /\ Click /\ asked = None
  /\ what = "more" => account # None
  /\ what = "bind" => account # None /\ ~account.bound
  /\ session' = wallet
  /\ asked' = [what |-> what,
               offset |-> IF what = "more" THEN Len(account.rows) ELSE 0]
  /\ UNCHANGED <<wallet, allocations, bound, account, auto, flow, running, challenges>>

Refuse ==
  /\ asked # None /\ asked' = None
  /\ UNCHANGED <<wallet, session, allocations, bound, account, auto, flow,
                 running, challenges, clicks>>

(* The rows of the next page that are not shown yet follow those that are. *)
Merged(rows, next) ==
  LET merged[n \in 0..Len(next)] ==
        IF n = 0 THEN rows
        ELSE IF next[n] \in ToSet(rows) THEN merged[n - 1]
             ELSE Append(merged[n - 1], next[n])
  IN merged[Len(next)]

AskedAnswer ==
  LET next == Dashboard(session, asked.offset, "asked") IN
  /\ asked # None /\ session # None /\ asked' = None
  /\ bound' = IF asked.what = "bind" THEN bound \cup {session} ELSE bound
  /\ account' = IF asked.what = "more" /\ account # None
                THEN [next EXCEPT !.rows = Merged(account.rows, @)]
                ELSE [next EXCEPT !.bound = session \in bound']
  /\ UNCHANGED <<wallet, session, allocations, auto, flow, running, challenges,
                 clicks>>

(* A launch shares fees with the wallet's account: the list grows in front.*)
NewAllocation(w, t) ==
  /\ t \notin ToSet(allocations[w])
  /\ allocations' = [allocations EXCEPT ![w] = <<t>> \o @]
  /\ UNCHANGED <<wallet, session, bound, account, auto, asked, flow, running,
                 challenges, clicks>>

OtherTab(w) ==
  /\ Click /\ w # session /\ session' = w
  /\ UNCHANGED <<wallet, allocations, bound, account, auto, asked, flow, running,
                 challenges>>

(* ------------------------------ one claim ------------------------------ *)

(* run: one request at a time; a new post forgets the old verification     *)
(* before the request for it is sent.                                      *)
Kept(f) == f
Forgotten(f) == [f EXCEPT !.verified = FALSE]

Run(action) ==
  /\ Click /\ running = None /\ account # None /\ account.bound
  /\ \/ action = "start"
     \/ action = "verify" /\ flow.challenge # 0 /\ ~flow.verified
     \/ action = "claim" /\ flow.verified
  /\ session' = wallet
  /\ flow' = IF action = "start" THEN Forgotten(flow) ELSE flow
  /\ running' = [action |-> action, live |-> TRUE, challenge |-> flow.challenge]
  /\ UNCHANGED <<wallet, allocations, bound, account, auto, asked, challenges>>

(* The answer of a panel that is gone, because the wallet changed, changes *)
(* nothing on the page.                                                    *)
RunAnswer ==
  LET live == running.live
      id == running.challenge
  IN
  /\ running # None /\ running' = None
  /\ \/ UNCHANGED <<flow, challenges>>                    \* the request failed
     \/ /\ running.action = "start"
        /\ challenges' = Append(challenges, [wallet |-> session, verified |-> FALSE])
        /\ flow' = IF live THEN [flow EXCEPT !.challenge = Len(challenges')]
                   ELSE flow
     \/ /\ running.action = "verify" /\ challenges[id].wallet = session
        /\ challenges' = [challenges EXCEPT ![id].verified = TRUE]
        /\ flow' = IF live THEN [flow EXCEPT !.verified = TRUE] ELSE flow
     \/ /\ running.action = "claim" /\ challenges[id].verified
        /\ UNCHANGED <<flow, challenges>>                 \* app.review(intent)
  /\ UNCHANGED <<wallet, session, allocations, bound, account, auto, asked, clicks>>

Next ==
  \/ \E w \in Wallets : ChangeWallet(w) \/ OtherTab(w)
  \/ \E r \in auto : AutoAnswer(r)
  \/ \E what \in {"mine", "more", "bind"} : Ask(what)
  \/ Refuse \/ AskedAnswer
  \/ \E w \in Wallets, t \in Tokens : NewAllocation(w, t)
  \/ \E action \in {"start", "verify", "claim"} : Run(action)
  \/ RunAnswer

Spec == Init /\ [][Next]_vars

(* ------------------------------ properties ----------------------------- *)

TypeOK ==
  /\ wallet \in Wallets /\ session \in Wallets \cup {None}
  /\ account # None => account.wallet \in Wallets /\ ToSet(account.rows) \subseteq Tokens
  /\ flow.challenge \in 0..Len(challenges) /\ bound \subseteq Wallets

(* The account a page loads by itself is that of the connected wallet,     *)
(* whatever session the browser has and however late the answer comes.     *)
UnaskedAccountIsOwn ==
  account # None /\ account.how = "auto" => account.wallet = wallet

(* Pages that overlap, because a launch added an allocation in front, show *)
(* no allocation twice.                                                    *)
EveryRowOnce ==
  account # None => IsInjective(account.rows)

(* A post shown as verified is one the server verified: a new post request *)
(* does not inherit the verification of the last one.                      *)
VerifiedIsThisPost ==
  flow.verified => challenges[flow.challenge].verified

(* What dashboard.tsx:58 says: a wallet change invalidates every private   *)
(* balance shown here. It is false: the answer to a button is shown        *)
(* whatever wallet is connected by then (loadMine, line 75).               *)
BalancesAreOwn == account # None => account.wallet = wallet
=============================================================================
