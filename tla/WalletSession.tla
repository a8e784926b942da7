--------------------------- MODULE WalletSession ---------------------------
(* Signing in with a wallet and linking an X account, in several tabs of   *)
(* one browser that share their cookies.  A tab has its own connected      *)
(* wallet; a session is a row a cookie points to.  Challenges and sessions *)
(* may expire, a verify request may be delivered twice, wallets may be     *)
(* switched while requests are under way, and the Strict wallet cookie may *)
(* be missing on the way back from X.                                      *)
EXTENDS Naturals, FiniteSets

CONSTANTS Wallets, XIds, Tabs, Handlers, None,
          MaxChallenges, MaxFlows, MaxLoads       \* bounds

VARIABLES challenges,   \* walletChallenges, the rows not yet consumed
          signatures,   \* the challenges a wallet has signed
          sessions,     \* walletSessions
          verifying,    \* verifyChallenge in each request handler
          jar,          \* the browser's cookies
          tab,
          profile,      \* walletProfiles
          issued, flows, loads

vars == <<challenges, signatures, sessions, verifying, jar, tab, profile,
          issued, flows, loads>>

NoCookies == [wallet |-> None, link |-> None, linkSession |-> None,
              ownership |-> None, state |-> None, appLink |-> None]
IdleTab(w) == [wallet |-> w, pc |-> "idle", id |-> 0, ticket |-> None,
               load |-> None, answer |-> None, shown |-> None]

Init ==
  /\ challenges = {} /\ signatures = {} /\ sessions = {} /\ jar = NoCookies
  /\ verifying = [h \in Handlers |-> None]
  /\ tab \in [Tabs -> {IdleTab(w) : w \in Wallets}]
  /\ profile = [w \in Wallets |-> None]
  /\ issued = 0 /\ flows = 0 /\ loads = 0

(* session(): the wallet of the live session a cookie names.               *)
Session(token) ==
  IF \E s \in sessions : s.token = token
  THEN (CHOOSE s \in sessions : s.token = token).wallet ELSE None

(* -------------------------------- sign-in ------------------------------ *)

(* authenticate: a session of the connected wallet is reused, otherwise    *)
(* the server issues a challenge for it.                                   *)
Authenticate(t) ==
  /\ tab[t].pc = "idle"
  /\ IF Session(jar.wallet) = tab[t].wallet
     THEN /\ tab' = [tab EXCEPT ![t].pc = "ready"]
          /\ UNCHANGED <<challenges, issued>>
     ELSE /\ issued < MaxChallenges /\ issued' = issued + 1
          /\ challenges' = challenges \cup
               {[id |-> issued', wallet |-> tab[t].wallet]}
          /\ tab' = [tab EXCEPT ![t].pc = "signing", ![t].id = issued']
  /\ UNCHANGED <<signatures, sessions, verifying, jar, profile, flows, loads>>

SignMessage(t) ==
  /\ tab[t].pc = "signing"
  /\ signatures' = signatures \cup {tab[t].id}
  /\ tab' = [tab EXCEPT ![t].pc = "verifying"]
  /\ UNCHANGED <<challenges, sessions, verifying, jar, profile, issued, flows, loads>>

Decline(t) ==
  /\ tab[t].pc = "signing" /\ tab' = [tab EXCEPT ![t].pc = "idle"]
  /\ UNCHANGED <<challenges, signatures, sessions, verifying, jar, profile,
                 issued, flows, loads>>

(* A verify request arrives, perhaps again.                                *)
ReceiveVerify(h, id) ==
  /\ verifying[h] = None /\ id \in signatures
  /\ \E t \in Tabs : tab[t].pc = "verifying" /\ tab[t].id = id
  /\ verifying' = [verifying EXCEPT ![h] = [id |-> id, row |-> None]]
  /\ UNCHANGED <<challenges, signatures, sessions, jar, tab, profile, issued,
                 flows, loads>>

(* DELETE RETURNING consumes the nonce.                                    *)
WithoutDelete(row) == challenges
Consumed(row) == challenges \ {row}

TakeChallenge(h) ==
  /\ verifying[h] # None /\ verifying[h].row = None
  /\ \/ \E row \in challenges :
          /\ row.id = verifying[h].id
          /\ challenges' = Consumed(row)
          /\ verifying' = [verifying EXCEPT ![h].row = row]
          /\ UNCHANGED tab
     \/ /\ \A row \in challenges : row.id # verifying[h].id
        /\ verifying' = [verifying EXCEPT ![h] = None]
        /\ tab' = [t \in Tabs |->
             IF tab[t].pc = "verifying" /\ tab[t].id = verifying[h].id
             THEN [tab[t] EXCEPT !.pc = "idle"] ELSE tab[t]]
        /\ UNCHANGED challenges
  /\ UNCHANGED <<signatures, sessions, jar, profile, issued, flows, loads>>

OpenSession(h) ==
  LET row == verifying[h].row
      token == <<row.id, Cardinality({s \in sessions : s.challenge = row.id})>>
  IN
  /\ verifying[h] # None /\ row # None
  /\ sessions' = sessions \cup
       {[token |-> token, wallet |-> row.wallet, challenge |-> row.id]}
  /\ jar' = [jar EXCEPT !.wallet = token]
  /\ tab' = [t \in Tabs |->
       IF tab[t].pc = "verifying" /\ tab[t].id = row.id
       THEN [tab[t] EXCEPT !.pc = "ready"] ELSE tab[t]]
  /\ verifying' = [verifying EXCEPT ![h] = None]
  /\ UNCHANGED <<challenges, signatures, profile, issued, flows, loads>>

Logout(t) ==
  /\ jar.wallet # None /\ tab[t].pc = "idle"
  /\ sessions' = {s \in sessions : s.token # jar.wallet}
  /\ jar' = [jar EXCEPT !.wallet = None]
  /\ UNCHANGED <<challenges, signatures, verifying, tab, profile, issued, flows, loads>>

Expire ==
  /\ \/ \E row \in challenges : challenges' = challenges \ {row} /\ UNCHANGED sessions
     \/ \E s \in sessions : sessions' = sessions \ {s} /\ UNCHANGED challenges
  /\ UNCHANGED <<signatures, verifying, jar, tab, profile, issued, flows, loads>>

(* Another account is chosen in the wallet (walletChanged).                *)
SwitchWallet(t, w) ==
  /\ w # tab[t].wallet /\ tab[t].pc \in {"idle", "ready"}
  /\ tab' = [tab EXCEPT ![t].wallet = w, ![t].pc = "idle",
                        ![t].load = None, ![t].answer = None]
  /\ UNCHANGED <<challenges, signatures, sessions, verifying, jar, profile,
                 issued, flows, loads>>

(* ------------------------------- X account ----------------------------- *)

(* beginXLink: a ticket for the session's wallet, a nonce cookie, and the  *)
(* same session in a cookie that survives the redirect.                    *)
BeginXLink(t) ==
  /\ tab[t].pc = "ready"
  /\ IF Session(jar.wallet) = None
     THEN tab' = [tab EXCEPT ![t].pc = "idle"] /\ UNCHANGED <<jar, flows>>
     ELSE /\ flows < MaxFlows /\ flows' = flows + 1
          /\ jar' = [jar EXCEPT !.link = flows', !.linkSession = jar.wallet]
          /\ tab' = [tab EXCEPT ![t].pc = "ticket",
               ![t].ticket = [nonce |-> flows', wallet |-> Session(jar.wallet)]]
  /\ UNCHANGED <<challenges, signatures, sessions, verifying, profile, issued, loads>>

StartOAuth(t) ==
  /\ tab[t].pc = "ticket"
  /\ jar' = [jar EXCEPT !.state = t, !.appLink = tab[t].ticket]
  /\ tab' = [tab EXCEPT ![t].pc = "atX"]
  /\ UNCHANGED <<challenges, signatures, sessions, verifying, profile, issued,
                 flows, loads>>

(* The way back from X: the state must be the last one issued, and the     *)
(* assertion names the ticket the cookie holds.                            *)
OAuthCallback(t, x) ==
  /\ tab[t].pc = "atX"
  /\ jar' = [jar EXCEPT !.state = None, !.appLink = None]
  /\ tab' = [tab EXCEPT
       ![t].pc = IF jar.state = t THEN "asserted" ELSE "idle",
       ![t].ticket = IF jar.state = t
                     THEN [nonce |-> jar.appLink.nonce, xId |-> x,
                           wallet |-> jar.appLink.wallet] ELSE None]
  /\ UNCHANGED <<challenges, signatures, sessions, verifying, profile, issued,
                 flows, loads>>

CancelOAuth(t) ==
  /\ tab[t].pc = "atX"
  /\ jar' = [jar EXCEPT !.state = None, !.appLink = None]
  /\ tab' = [tab EXCEPT ![t].pc = "idle", ![t].ticket = None]
  /\ UNCHANGED <<challenges, signatures, sessions, verifying, profile, issued,
                 flows, loads>>

AnyNonce(nonce) == jar.link # None
NonceMatches(nonce) == jar.link = nonce

(* The X id of another wallet's profile is refused by its unique key.      *)
Free(x, w) == \A v \in Wallets \ {w} : profile[v] = None \/ profile[v].xId # x

XCallback(t) ==
  /\ tab[t].pc = "asserted"
  /\ \E cookieSent \in BOOLEAN :
       LET data == tab[t].ticket
           current == IF cookieSent THEN Session(jar.wallet) ELSE None
           token == IF current # None THEN jar.wallet ELSE jar.linkSession
           linked == /\ NonceMatches(data.nonce)
                     /\ Session(token) = data.wallet /\ Free(data.xId, data.wallet)
       IN /\ profile' = IF ~linked THEN profile ELSE
               [profile EXCEPT ![data.wallet] =
                  [xId |-> data.xId, flow |-> data.nonce, session |-> token]]
          /\ jar' = [jar EXCEPT !.link = None, !.linkSession = None,
               !.ownership = IF ~linked THEN @ ELSE
                 [wallet |-> data.wallet, xId |-> data.xId,
                  flow |-> data.nonce, session |-> token]]
  /\ tab' = [tab EXCEPT ![t].pc = "idle", ![t].ticket = None]
  /\ UNCHANGED <<challenges, signatures, sessions, verifying, issued, flows, loads>>

SameSession(proof) == proof.session = jar.wallet

(* hasXSessionProof, asked for the profile of the requesting wallet.  The  *)
(* time of a link identifies it, as its flow does here.                    *)
HasXSessionProof(w) ==
  /\ Session(jar.wallet) = w /\ profile[w] # None /\ jar.ownership # None
  /\ jar.ownership.wallet = w /\ jar.ownership.xId = profile[w].xId
  /\ jar.ownership.flow = profile[w].flow /\ SameSession(jar.ownership)

(* ------------------------------ the wallet page ------------------------ *)

(* loadPortfolioForWallet without a click: only an existing session of the *)
(* connected wallet is used, and the answer must be about that wallet.     *)
(* Switching the wallet discards a load that is under way.                 *)
LoadPortfolio(t) ==
  /\ tab[t].load = None /\ loads < MaxLoads /\ loads' = loads + 1
  /\ tab' = IF Session(jar.wallet) = tab[t].wallet
            THEN [tab EXCEPT ![t].load = tab[t].wallet, ![t].answer = None]
            ELSE [tab EXCEPT ![t].shown = None]
  /\ UNCHANGED <<challenges, signatures, sessions, verifying, jar, profile,
                 issued, flows>>

ServePortfolio(t) ==
  /\ tab[t].load # None /\ tab[t].answer = None /\ Session(jar.wallet) # None
  /\ tab' = [tab EXCEPT ![t].answer = Session(jar.wallet)]
  /\ UNCHANGED <<challenges, signatures, sessions, verifying, jar, profile,
                 issued, flows, loads>>

AnyAnswer(t) == TRUE
AnswerIsOwn(t) == tab[t].answer = tab[t].load

ShowPortfolio(t) ==
  /\ tab[t].load # None
  /\ tab[t].answer # None \/ Session(jar.wallet) = None
  /\ tab' = [tab EXCEPT ![t].load = None, ![t].answer = None,
       ![t].shown = IF tab[t].answer # None /\ AnswerIsOwn(t)
                    THEN [for |-> tab[t].load, data |-> tab[t].answer] ELSE None]
  /\ UNCHANGED <<challenges, signatures, sessions, verifying, jar, profile,
                 issued, flows, loads>>

Next ==
  \/ \E t \in Tabs :
       \/ Authenticate(t) \/ SignMessage(t) \/ Decline(t) \/ Logout(t)
       \/ BeginXLink(t) \/ StartOAuth(t) \/ CancelOAuth(t) \/ XCallback(t)
       \/ LoadPortfolio(t) \/ ServePortfolio(t) \/ ShowPortfolio(t)
       \/ \E w \in Wallets : SwitchWallet(t, w)
       \/ \E x \in XIds : OAuthCallback(t, x)
  \/ \E h \in Handlers :
       \/ TakeChallenge(h) \/ OpenSession(h)
       \/ \E id \in signatures : ReceiveVerify(h, id)
  \/ Expire

Spec == Init /\ [][Next]_vars

(* ------------------------------ properties ----------------------------- *)

TypeOK ==
  /\ jar.link \in 1..MaxFlows \cup {None}
  /\ jar.wallet # None => jar.wallet[1] \in 1..MaxChallenges
  /\ \A s \in sessions : s.wallet \in Wallets
  /\ \A w \in Wallets : profile[w] # None => profile[w].xId \in XIds

(* "DELETE RETURNING consumes the nonce atomically" (auth.ts): a sign-in   *)
(* answered twice at once opens one session.                               *)
OneSessionPerChallenge ==
  \A r, s \in sessions : r.challenge = s.challenge => r = s

(* Of two overlapping link flows of one browser only the one begun last    *)
(* may write: its nonce replaced the other's (beginXLink, x-callback).      *)
LinkIsLatest == \A w \in Wallets : profile'[w] # profile[w] => profile'[w].flow = flows
LatestLinkWins == [][LinkIsLatest]_vars

(* The proof of X ownership only counts in the wallet session in which the *)
(* account was linked, and only while that link is the last one.           *)
ProofFollowsLink ==
  \A w \in Wallets : HasXSessionProof(w) => profile[w].session = jar.wallet

(* A tab shows the portfolio of its own wallet, whatever session another   *)
(* tab opened while it loaded.                                             *)
PortfolioIsOwn ==
  \A t \in Tabs :
    tab[t].shown # None /\ tab[t].shown.for = tab[t].wallet =>
      tab[t].shown.data = tab[t].wallet

(* What a session opens is open to its own wallet only, whatever two tabs  *)
(* of one browser do at once (auth.ts, x-session.ts, portfolio-view.tsx).  *)
SessionsAreOwn == OneSessionPerChallenge /\ ProofFollowsLink /\ PortfolioIsOwn
=============================================================================
