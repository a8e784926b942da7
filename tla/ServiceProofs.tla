---------------------------- MODULE ServiceProofs ----------------------------
(***************************************************************************)
(* Theorems about the parts of MCServices, which share nothing.            *)
(*                                                                         *)
(* Wallet and X sessions, for any wallets, X accounts, tabs of one browser *)
(* and requests that answer challenges. A request that answers a challenge *)
(* deletes its row before it opens a session, so a challenge is in one     *)
(* place only (ChallengeInv), whatever else expires or is answered twice.  *)
(* The cookies of a browser follow the flow that was begun last (JarInv),  *)
(* and a profile and the proof of X ownership are written together         *)
(* (ProfileInv).                                                           *)
(*                                                                         *)
(* The history indexer, which is HistoryIndexer itself, for any history,   *)
(* page, batch, number of runs and crashes, and with runs that outlive     *)
(* their lease. A run keeps a copy of the cursor row from its first read,  *)
(* and may write from it long after others wrote the row. What makes this  *)
(* safe is that everything a row says stays true: transactions are only    *)
(* appended, and trades only added. RowInv says what a row promises, of    *)
(* the row itself and of every copy; SaveInv and ScanInv what the scan has *)
(* found out since. Any row written from them keeps the promise, whatever  *)
(* the rest of the row holds by then.                                      *)
(*                                                                         *)
(* The catch-ups of empty charts: a pool that was caught up with rests     *)
(* until a minute has passed.                                              *)
(*                                                                         *)
(* The limits of requests, for any instances, outages and keys: every      *)
(* grant lies in a window of the shared count that began before it, so any *)
(* stretch of a window's length reaches into two windows (WindowInv), and  *)
(* no instance remembers a denial for longer than its window (DenialsInv). *)
(*                                                                         *)
(* The comments of buyers: whatever stands as a proof is a receipt of a    *)
(* finalized purchase, and receipts are only added (CommentsInv).          *)
(*                                                                         *)
(* The cost of a shared sale. A scan covers every trade up to the second   *)
(* it ended in (SaleState), so the rows up to a covered sale are all the   *)
(* trades (CoveredIsWhole). A replay that does not stop ends with the sum  *)
(* of what was bought and not sold (ReplayPosition). The trades that the   *)
(* index has behind the sale are sales of the same second, and without     *)
(* them the replay would end with more than the wallet held: a cost comes  *)
(* out only when there is none (EveryTradeCounts).                         *)
(***************************************************************************)
EXTENDS MCServices, FiniteSums, TLAPS

(* ------------------------------- sessions ------------------------------ *)

(* A challenge opens no second session, so every token counts none before. *)
Token == Nat \X {Links!Cardinality({})}
Row == [id : 1..issued, wallet : Wallets]
VerifyCall == [id : Nat, row : Row \cup {None}]
Ticket == [nonce : 1..flows, wallet : Wallets]
Assertion == [nonce : 1..flows, xId : XIds, wallet : Wallets]
Ownership == [wallet : Wallets, xId : XIds, flow : 1..flows, session : Token \cup {None}]
Profile == [xId : XIds, flow : 1..flows, session : Token \cup {None}]
Cookies ==
  [wallet : Token \cup {None}, link : 1..flows \cup {None},
   linkSession : Token \cup {None}, ownership : Ownership \cup {None},
   state : Tabs \cup {None}, appLink : Ticket \cup {None}]
Page ==
  [wallet : Wallets, pc : {"idle", "ready", "signing", "verifying", "ticket", "atX",
     "asserted"},
   id : Nat, ticket : Ticket \cup Assertion \cup {None},
   load : Wallets \cup {None}, answer : Wallets \cup {None},
   shown : [for : Wallets, data : Wallets] \cup {None}]

(* A session's token starts with the challenge it was opened for.          *)
SignInTypes ==
  /\ issued \in 0..MaxChallenges
  /\ challenges \subseteq Row /\ signatures \subseteq Nat
  /\ sessions \subseteq [token : Token, wallet : Wallets, challenge : 1..issued]
  /\ \A s \in sessions : s.token[1] = s.challenge
  /\ verifying \in [Handlers -> VerifyCall \cup {None}]

(* A challenge is in the table, in the hands of one request, or the one of *)
(* a session: never in two of these places, and in each only once.         *)
Holds(h) == verifying[h] # None /\ verifying[h].row # None
Taken(id) == \E h \in Handlers : Holds(h) /\ verifying[h].row.id = id
Opened(id) == \E s \in sessions : s.challenge = id

ChallengeInv ==
  /\ Links!OneSessionPerChallenge
  /\ \A r, s \in challenges : r.id = s.id => r = s
  /\ \A r \in challenges : ~Taken(r.id) /\ ~Opened(r.id)
  /\ \A g, h \in Handlers :
       Holds(g) /\ Holds(h) =>
         /\ verifying[g].row.id = verifying[h].row.id => g = h
         /\ ~Opened(verifying[h].row.id)

(* The browser: its last link flow is the one the server counted last, and *)
(* who comes back from X with the right state has a ticket.                *)
JarInv ==
  /\ flows \in 0..MaxFlows /\ jar \in Cookies
  /\ jar.wallet # None => jar.wallet[1] \in 1..MaxChallenges
  /\ jar.link # None => jar.link = flows
  /\ jar.state # None => jar.appLink \in Ticket

ProfileInv ==
  /\ profile \in [Wallets -> Profile \cup {None}]
  /\ jar.ownership # None =>
       profile[jar.ownership.wallet] =
         [xId |-> jar.ownership.xId, flow |-> jar.ownership.flow,
          session |-> jar.ownership.session]

(* A tab: on the way to X it has a ticket, back from it what X asserted.   *)
PageInv(p) ==
  /\ p \in Page
  /\ p.pc \in {"ticket", "atX"} => p.ticket \in Ticket
  /\ p.pc = "asserted" => p.ticket \in Assertion
  /\ p.shown # None => p.shown.data = p.shown.for

PagesInv == tab \in [Tabs -> Page] /\ \A t \in Tabs : PageInv(tab[t])

SessionInv == SignInTypes /\ ChallengeInv /\ JarInv /\ ProfileInv /\ PagesInv

-----------------------------------------------------------------------------
LEMMA SessionInit == ASSUME SessionAssumption PROVE Links!Init => SessionInv
<1> SUFFICES ASSUME Links!Init PROVE SessionInv
  OBVIOUS
<1>1. SignInTypes
  BY DEF SessionAssumption, Links!Init, SignInTypes, Row, VerifyCall
<1>2. jar \in Cookies
  BY DEF Links!Init, Links!NoCookies, Cookies
<1>3. \A w \in Wallets : Links!IdleTab(w) \in Page /\ PageInv(Links!IdleTab(w))
  BY DEF Links!Init, Links!IdleTab, Page, PageInv
<1>4. PagesInv
  BY <1>3 DEF Links!Init, PagesInv
<1>5. JarInv /\ ProfileInv
  BY <1>2 DEF SessionAssumption, Links!Init, JarInv, ProfileInv, Links!NoCookies
<1>6. ChallengeInv
  BY DEF Links!Init, ChallengeInv, Links!OneSessionPerChallenge, Holds, Taken, Opened
<1> QED BY <1>1, <1>4, <1>5, <1>6 DEF SessionInv

(* session() answers with a wallet, of a session that is there, or none.   *)
LEMMA SessionIsWallet ==
  ASSUME SignInTypes, NEW token
  PROVE  /\ Links!Session(token) \in Wallets \cup {None}
         /\ \A s \in sessions : s.token = token => Links!Session(token) \in Wallets
<1>1. ASSUME \E s \in sessions : s.token = token PROVE Links!Session(token) \in Wallets
  <2>1. (CHOOSE s \in sessions : s.token = token) \in sessions
    BY <1>1
  <2> QED BY <2>1, <1>1 DEF SignInTypes, Links!Session
<1> QED BY <1>1 DEF Links!Session

(* ------------------------- what a step leaves alone -------------------- *)

SignInVars == <<challenges, signatures, sessions, verifying, issued>>

LEMMA SignInStays ==
  ASSUME SignInTypes, ChallengeInv, UNCHANGED SignInVars
  PROVE  SignInTypes' /\ ChallengeInv'
BY DEF SignInVars, SignInTypes, ChallengeInv, Links!OneSessionPerChallenge, Holds, Taken,
   Opened,
       Row, VerifyCall

LEMMA JarStays ==
  ASSUME JarInv, ProfileInv, UNCHANGED <<jar, flows, profile>>
  PROVE  JarInv' /\ ProfileInv'
BY DEF JarInv, ProfileInv, Cookies, Profile, Ownership, Ticket

(* Flows only grow, so what a page holds stays typed.              *)
LEMMA PageGrows ==
  ASSUME flows \in Nat, flows' \in Nat, flows <= flows'
  PROVE  \A p : PageInv(p) => PageInv(p)'
BY DEF PageInv, Page, Ticket, Assertion

(* One tab moves.                                                          *)
LEMMA TabMoves ==
  ASSUME PagesInv, flows \in Nat, flows' \in Nat, flows <= flows',
         NEW t \in Tabs, NEW p, tab' = [tab EXCEPT ![t] = p], PageInv(p)'
  PROVE  PagesInv'
<1>1. \A u \in Tabs : tab'[u] = IF u = t THEN p ELSE tab[u]
  BY DEF PagesInv
<1>2. ASSUME NEW u \in Tabs, NEW q, q = tab'[u] PROVE PageInv(q)'
  <2>1. CASE u = t
    BY <1>1, <1>2, <2>1
  <2>2. CASE u # t
    <3>1. q = tab[u]
      BY <1>1, <1>2, <2>2
    <3>2. PageInv(q)
      BY <3>1 DEF PagesInv
    <3>. QED  BY <3>2, PageGrows
  <2>. QED  BY <2>1, <2>2
<1>3. \A u \in Tabs : PageInv(tab[u])'
  BY <1>2 DEF PageInv, Page, Ticket, Assertion
<1>. QED  BY <1>1, <1>3 DEF PagesInv, PageInv

LEMMA FlowsCount == SessionInv => flows \in Nat /\ flows <= flows
BY DEF SessionInv, JarInv

(* A step of one tab beside which nothing that is proved about moves.      *)
LEMMA OnlyTabMoves ==
  ASSUME SessionInv, UNCHANGED <<SignInVars, jar, flows, profile>>,
         NEW t \in Tabs, NEW p, tab' = [tab EXCEPT ![t] = p], PageInv(p)
  PROVE  SessionInv'
<1>1. PageInv(p)'
  BY FlowsCount, PageGrows
<1>2. PagesInv'
  BY <1>1, FlowsCount, TabMoves DEF SessionInv
<1>. QED  BY <1>2, SignInStays, JarStays DEF SessionInv

-----------------------------------------------------------------------------
(* ------------------------------- sign-in ------------------------------- *)

LEMMA AuthenticateStep ==
  ASSUME SessionAssumption, SessionInv, NEW t \in Tabs, Links!Authenticate(t)
  PROVE  SessionInv'
<1>0. tab[t] \in Page /\ PageInv(tab[t]) /\ tab[t].pc = "idle"
  BY DEF SessionInv, PagesInv, Links!Authenticate
<1>1. CASE Links!Session(jar.wallet) = tab[t].wallet
  <2>1. PICK p : p = [tab[t] EXCEPT !.pc = "ready"]
    OBVIOUS
  <2>2. PageInv(p)
    BY <1>0, <2>1 DEF PageInv, Page
  <2>3. tab' = [tab EXCEPT ![t] = p] /\ UNCHANGED <<SignInVars, jar, flows, profile>>
    BY <1>1, <2>1 DEF Links!Authenticate, SignInVars
  <2>. QED  BY <2>2, <2>3, OnlyTabMoves
<1>2. CASE Links!Session(jar.wallet) # tab[t].wallet
  <2>1. /\ issued < MaxChallenges /\ issued' = issued + 1
        /\ challenges' = challenges \cup {[id |-> issued', wallet |-> tab[t].wallet]}
        /\ UNCHANGED <<signatures, sessions, verifying, jar, flows, profile>>
    BY <1>2 DEF Links!Authenticate
  <2>2. issued \in Nat /\ issued' \in 1..MaxChallenges /\ issued' \in Nat
    BY <2>1 DEF SessionAssumption, SessionInv, SignInTypes
  <2>3. PICK p : p = [tab[t] EXCEPT !.pc = "signing", !.id = issued']
    OBVIOUS
  <2>4. PageInv(p)
    BY <1>0, <2>2, <2>3 DEF PageInv, Page
  <2>5. tab' = [tab EXCEPT ![t] = p]
    BY <1>2, <2>3 DEF Links!Authenticate
  <2>6. PagesInv'
    BY <2>1, <2>4, <2>5, FlowsCount, PageGrows, TabMoves DEF SessionInv
  <2>7. SignInTypes'
    BY <1>0, <2>1, <2>2 DEF SessionInv, SignInTypes, Row, VerifyCall, Page
  <2>8. PICK r : r = [id |-> issued', wallet |-> tab[t].wallet]
    OBVIOUS
  <2>9. /\ challenges' = challenges \cup {r} /\ r.id = issued + 1
        /\ \A s \in challenges : s.id # r.id
        /\ \A s \in sessions : s.challenge # r.id
        /\ \A h \in Handlers : Holds(h) => verifying[h].row.id # r.id
    BY <2>1, <2>2, <2>8 DEF SessionInv, SignInTypes, Row, VerifyCall, Holds
  <2>10. ChallengeInv'
    BY <2>1, <2>9 DEF SessionInv, ChallengeInv, Links!OneSessionPerChallenge, Holds,
       Taken, Opened
  <2>. QED  BY <2>1, <2>6, <2>7, <2>10, JarStays DEF SessionInv
<1>. QED  BY <1>1, <1>2

LEMMA SignStep ==
  ASSUME SessionInv, NEW t \in Tabs, Links!SignMessage(t) PROVE SessionInv'
<1>0. tab[t] \in Page /\ PageInv(tab[t])
  BY DEF SessionInv, PagesInv
<1>1. PICK p : p = [tab[t] EXCEPT !.pc = "verifying"]
  OBVIOUS
<1>2. PageInv(p)
  BY <1>0, <1>1 DEF PageInv, Page
<1>3. tab' = [tab EXCEPT ![t] = p] /\ UNCHANGED <<jar, flows, profile>>
  BY <1>1 DEF Links!SignMessage
<1>4. SignInTypes'
  BY <1>0 DEF SessionInv, Links!SignMessage, SignInTypes, Row, VerifyCall, Page
<1>5. ChallengeInv'
  BY DEF SessionInv, Links!SignMessage, ChallengeInv, Links!OneSessionPerChallenge,
     Holds, Taken, Opened
<1>6. PagesInv'
  BY <1>2, <1>3, FlowsCount, PageGrows, TabMoves DEF SessionInv
<1>. QED  BY <1>3, <1>4, <1>5, <1>6, JarStays DEF SessionInv

LEMMA DeclineStep ==
  ASSUME SessionInv, NEW t \in Tabs, Links!Decline(t) PROVE SessionInv'
<1>0. tab[t] \in Page /\ PageInv(tab[t])
  BY DEF SessionInv, PagesInv
<1>1. PICK p : p = [tab[t] EXCEPT !.pc = "idle"]
  OBVIOUS
<1>2. PageInv(p)
  BY <1>0, <1>1 DEF PageInv, Page
<1>3. tab' = [tab EXCEPT ![t] = p] /\ UNCHANGED <<SignInVars, jar, flows, profile>>
  BY <1>1 DEF Links!Decline, SignInVars
<1>. QED  BY <1>2, <1>3, OnlyTabMoves

LEMMA ReceiveStep ==
  ASSUME SessionInv, NEW h \in Handlers, NEW id \in signatures, Links!ReceiveVerify(h, id)
  PROVE  SessionInv'
<1>1. PICK q : q = [id |-> id, row |-> None]
  OBVIOUS
<1>2. q \in VerifyCall /\ q.row = None /\ verifying' = [verifying EXCEPT ![h] = q]
  BY <1>1 DEF SessionInv, SignInTypes, Links!ReceiveVerify, VerifyCall
<1>3. UNCHANGED <<challenges, signatures, sessions, issued, jar, flows, profile, tab>>
  BY DEF Links!ReceiveVerify
<1>4. SignInTypes'
  BY <1>2, <1>3 DEF SessionInv, SignInTypes, Row, VerifyCall
<1>5. \A g \in Handlers : Holds(g)' => Holds(g) /\ verifying'[g] = verifying[g]
  BY <1>2 DEF SessionInv, SignInTypes, Holds
<1>6. ChallengeInv'
  BY <1>3, <1>5 DEF SessionInv, ChallengeInv, Links!OneSessionPerChallenge, Taken, Opened
<1>7. PagesInv'
  BY <1>3 DEF SessionInv, PagesInv, PageInv, Page, Ticket, Assertion
<1>. QED  BY <1>3, <1>4, <1>6, <1>7, JarStays DEF SessionInv

(* Several tabs move back to where they hold nothing.                      *)
LEMMA TabsEnd ==
  ASSUME SessionInv, UNCHANGED flows, NEW S, NEW pc \in {"idle", "ready"},
         tab' = [t \in Tabs |-> IF t \in S THEN [tab[t] EXCEPT !.pc = pc] ELSE tab[t]]
  PROVE  PagesInv'
<1>1. ASSUME NEW t \in Tabs PROVE PageInv([tab[t] EXCEPT !.pc = pc]) /\ PageInv(tab[t])
  BY DEF SessionInv, PagesInv, PageInv, Page
<1>2. ASSUME NEW t \in Tabs, NEW q, q = tab'[t] PROVE PageInv(q)'
  BY <1>1, <1>2, FlowsCount, PageGrows
<1>3. \A t \in Tabs : PageInv(tab[t])'
  BY <1>2 DEF PageInv, Page, Ticket, Assertion
<1>. QED  BY <1>3 DEF PagesInv, PageInv

LEMMA TakeStep ==
  ASSUME SessionInv, NEW h \in Handlers, Links!TakeChallenge(h) PROVE SessionInv'
<1>0. /\ verifying[h] # None /\ verifying[h].row = None /\ verifying[h] \in VerifyCall
      /\ UNCHANGED <<signatures, sessions, issued, jar, flows, profile>>
  BY DEF SessionInv, SignInTypes, Links!TakeChallenge
<1>1. ASSUME NEW row \in challenges, row.id = verifying[h].id, challenges' =
   Links!Consumed(row),
             verifying' = [verifying EXCEPT ![h].row = row], UNCHANGED tab
      PROVE  SessionInv'
  <2>1. PICK q : q = [verifying[h] EXCEPT !.row = row]
    OBVIOUS
  <2>2. q \in VerifyCall /\ q.row = row /\ verifying' = [verifying EXCEPT ![h] = q]
    BY <1>0, <1>1, <2>1 DEF SessionInv, SignInTypes, VerifyCall
  <2>3. challenges' = challenges \ {row} /\ row \in Row
    BY <1>1 DEF Links!Consumed, SessionInv, SignInTypes
  <2>4. SignInTypes'
    BY <1>0, <2>2, <2>3 DEF SessionInv, SignInTypes, Row, VerifyCall
  <2>5. \A g \in Handlers \ {h} : verifying'[g] = verifying[g]
    BY <2>2 DEF SessionInv, SignInTypes
  <2>6. verifying'[h].row = row
    BY <2>2 DEF SessionInv, SignInTypes
  <2>7. /\ ~Taken(row.id) /\ ~Opened(row.id)
        /\ \A r \in challenges \ {row} : r.id # row.id
    BY DEF SessionInv, ChallengeInv
  <2>8. ChallengeInv'
    BY <1>0, <2>3, <2>5, <2>6, <2>7
    DEF SessionInv, ChallengeInv, Links!OneSessionPerChallenge, Taken, Opened, Holds
  <2>9. PagesInv'
    BY <1>0, <1>1 DEF SessionInv, PagesInv, PageInv, Page, Ticket, Assertion
  <2>. QED  BY <1>0, <2>4, <2>8, <2>9, JarStays DEF SessionInv
<1>2. CASE /\ verifying' = [verifying EXCEPT ![h] = None]
           /\ tab' = [t \in Tabs |->
                IF tab[t].pc = "verifying" /\ tab[t].id = verifying[h].id
                THEN [tab[t] EXCEPT !.pc = "idle"] ELSE tab[t]]
           /\ UNCHANGED challenges
  <2>1. SignInTypes'
    BY <1>0, <1>2 DEF SessionInv, SignInTypes, Row, VerifyCall
  <2>2. \A g \in Handlers : Holds(g)' => Holds(g) /\ verifying'[g] = verifying[g]
    BY <1>2 DEF SessionInv, SignInTypes, Holds
  <2>3. ChallengeInv'
    BY <1>0, <1>2, <2>2 DEF SessionInv, ChallengeInv, Links!OneSessionPerChallenge,
       Taken, Opened
  <2>4. PICK S : S = {t \in Tabs : tab[t].pc = "verifying" /\ tab[t].id = verifying[h].id}
    OBVIOUS
  <2>5. tab' = [t \in Tabs |-> IF t \in S THEN [tab[t] EXCEPT !.pc = "idle"] ELSE tab[t]]
    BY <1>2, <2>4
  <2>6. PagesInv'
    BY <1>0, <2>5, TabsEnd
  <2>. QED  BY <1>0, <2>1, <2>3, <2>6, JarStays DEF SessionInv
<1>. QED  BY <1>1, <1>2 DEF Links!TakeChallenge

LEMMA OpenStep ==
  ASSUME SessionAssumption, SessionInv, NEW h \in Handlers, Links!OpenSession(h)
  PROVE  SessionInv'
<1>0. PICK row : row = verifying[h].row
  OBVIOUS
<1>1. /\ Holds(h) /\ verifying[h] \in VerifyCall /\ row \in Row
      /\ UNCHANGED <<challenges, signatures, issued, flows, profile>>
      /\ verifying' = [verifying EXCEPT ![h] = None]
  BY <1>0 DEF SessionInv, SignInTypes, Links!OpenSession, VerifyCall, Holds
<1>2. PICK token : token = <<row.id, Links!Cardinality({s \in sessions : s.challenge = row.id})>>
  OBVIOUS
<1>3. /\ sessions' = sessions \cup
           {[token |-> token, wallet |-> row.wallet, challenge |-> row.id]}
      /\ jar' = [jar EXCEPT !.wallet = token]
  BY <1>0, <1>2 DEF Links!OpenSession
<1>4. ~Opened(row.id) /\ Taken(row.id)
      /\ \A g \in Handlers \ {h} : Holds(g) => verifying[g].row.id # row.id
  BY <1>0, <1>1 DEF SessionInv, ChallengeInv, Taken
<1>5. {s \in sessions : s.challenge = row.id} = {}
  BY <1>4 DEF Opened
<1>6. token = <<row.id, Links!Cardinality({})>> /\ row.id \in Nat /\ row.id \in 1..MaxChallenges
  <2>1. token = <<row.id, Links!Cardinality({})>>
    BY <1>2, <1>5
  <2>2. row.id \in 1..issued
    BY <1>1 DEF Row
  <2>. QED  BY <2>1, <2>2 DEF SessionAssumption, SessionInv, SignInTypes
<1>7. PICK s : s = [token |-> token, wallet |-> row.wallet, challenge |-> row.id]
  OBVIOUS
<1>8. /\ s \in [token : Token, wallet : Wallets, challenge : 1..issued]
      /\ s.token[1] = s.challenge /\ s.challenge = row.id /\ sessions' = sessions \cup {s}
  BY <1>1, <1>3, <1>6, <1>7 DEF Token, Row
<1>9. SignInTypes'
  BY <1>1, <1>8 DEF SessionInv, SignInTypes, Row, VerifyCall
<1>10. \A g \in Handlers : Holds(g)' => g # h /\ Holds(g) /\ verifying'[g] = verifying[g]
  BY <1>1 DEF SessionInv, SignInTypes, Holds
<1>11. ChallengeInv'
  BY <1>1, <1>4, <1>8, <1>10 DEF SessionInv, ChallengeInv, Links!OneSessionPerChallenge,
     Taken, Opened
<1>12. jar' \in Cookies /\ jar'.wallet = token /\ jar'.link = jar.link
       /\ jar'.state = jar.state /\ jar'.appLink = jar.appLink
       /\ jar'.ownership = jar.ownership
  BY <1>3, <1>6 DEF SessionInv, JarInv, Cookies, Token
<1>13. JarInv' /\ ProfileInv'
  BY <1>1, <1>6, <1>12 DEF SessionInv, JarInv, ProfileInv, Cookies, Profile, Ticket,
     Ownership
<1>14. PICK S : S = {t \in Tabs : tab[t].pc = "verifying" /\ tab[t].id = row.id}
  OBVIOUS
<1>15. tab' = [t \in Tabs |-> IF t \in S THEN [tab[t] EXCEPT !.pc = "ready"] ELSE tab[t]]
  BY <1>0, <1>14 DEF Links!OpenSession
<1>16. PagesInv'
  BY <1>1, <1>15, TabsEnd
<1>. QED  BY <1>9, <1>11, <1>13, <1>16 DEF SessionInv

LEMMA LogoutStep ==
  ASSUME SessionInv, NEW t \in Tabs, Links!Logout(t) PROVE SessionInv'
<1>1. /\ sessions' \subseteq sessions /\ jar' = [jar EXCEPT !.wallet = None]
      /\ UNCHANGED <<challenges, signatures, verifying, tab, profile, issued, flows>>
  BY DEF Links!Logout
<1>2. SignInTypes'
  BY <1>1 DEF SessionInv, SignInTypes, Row, VerifyCall
<1>3. ChallengeInv'
  BY <1>1 DEF SessionInv, ChallengeInv, Links!OneSessionPerChallenge, Taken, Opened,
     Holds
<1>4. JarInv' /\ ProfileInv'
  BY <1>1 DEF SessionInv, JarInv, ProfileInv, Cookies, Profile, Ticket, Ownership
<1>5. PagesInv'
  BY <1>1 DEF SessionInv, PagesInv, PageInv, Page, Ticket, Assertion
<1>. QED  BY <1>2, <1>3, <1>4, <1>5 DEF SessionInv

LEMMA ExpireStep ==
  ASSUME SessionInv, Links!Expire PROVE SessionInv'
<1>1. /\ sessions' \subseteq sessions /\ challenges' \subseteq challenges
      /\ UNCHANGED <<signatures, verifying, jar, tab, profile, issued, flows>>
  BY DEF Links!Expire
<1>2. SignInTypes'
  BY <1>1 DEF SessionInv, SignInTypes, Row, VerifyCall
<1>3. ChallengeInv'
  BY <1>1 DEF SessionInv, ChallengeInv, Links!OneSessionPerChallenge, Taken, Opened,
     Holds
<1>4. PagesInv'
  BY <1>1 DEF SessionInv, PagesInv, PageInv, Page, Ticket, Assertion
<1>. QED  BY <1>1, <1>2, <1>3, <1>4, JarStays DEF SessionInv

LEMMA SwitchStep ==
  ASSUME SessionInv, NEW t \in Tabs, NEW w \in Wallets, Links!SwitchWallet(t, w)
  PROVE  SessionInv'
<1>0. tab[t] \in Page /\ PageInv(tab[t])
  BY DEF SessionInv, PagesInv
<1>1. PICK p : p = [tab[t] EXCEPT !.wallet = w, !.pc = "idle", !.load = None, !.answer = None]
  OBVIOUS
<1>2. PageInv(p)
  BY <1>0, <1>1 DEF Links!SwitchWallet, PageInv, Page
<1>3. tab' = [tab EXCEPT ![t] = p] /\ UNCHANGED <<SignInVars, jar, flows, profile>>
  BY <1>0, <1>1 DEF Links!SwitchWallet, SignInVars, Page
<1>. QED  BY <1>2, <1>3, OnlyTabMoves

-----------------------------------------------------------------------------
(* ------------------------------ X account ------------------------------ *)

LEMMA BeginStep ==
  ASSUME SessionAssumption, SessionInv, NEW t \in Tabs, Links!BeginXLink(t)
  PROVE  SessionInv'
<1>0. tab[t] \in Page /\ PageInv(tab[t]) /\ UNCHANGED <<SignInVars, profile>>
  BY DEF SessionInv, PagesInv, Links!BeginXLink, SignInVars
<1>1. CASE Links!Session(jar.wallet) = None
  <2>1. PICK p : p = [tab[t] EXCEPT !.pc = "idle"]
    OBVIOUS
  <2>2. PageInv(p)
    BY <1>0, <2>1 DEF PageInv, Page
  <2>3. tab' = [tab EXCEPT ![t] = p] /\ UNCHANGED <<jar, flows>>
    BY <1>1, <2>1 DEF Links!BeginXLink
  <2>. QED  BY <1>0, <2>2, <2>3, OnlyTabMoves
<1>2. CASE Links!Session(jar.wallet) # None
  <2>1. flows < MaxFlows /\ flows' = flows + 1
        /\ jar' = [jar EXCEPT !.link = flows', !.linkSession = jar.wallet]
    BY <1>2 DEF Links!BeginXLink
  <2>2. flows \in Nat /\ flows' \in 1..MaxFlows /\ flows' \in Nat /\ flows <= flows'
    BY <2>1 DEF SessionAssumption, SessionInv, JarInv
  <2>3. Links!Session(jar.wallet) \in Wallets
    BY <1>2, SessionIsWallet DEF SessionInv
  <2>4. PICK p : p = [tab[t] EXCEPT !.pc = "ticket",
                        !.ticket = [nonce |-> flows', wallet |-> Links!Session(jar.wallet)]]
    OBVIOUS
  <2>5. tab' = [tab EXCEPT ![t] = p]
    BY <1>2, <2>4 DEF Links!BeginXLink
  <2>6. PICK q : q = tab[t]
    OBVIOUS
  <2>7. PICK k : k = [nonce |-> flows', wallet |-> Links!Session(jar.wallet)]
    OBVIOUS
  <2>8. k \in Ticket' /\ p = [q EXCEPT !.pc = "ticket", !.ticket = k]
    BY <2>2, <2>3, <2>4, <2>6, <2>7 DEF Ticket
  <2>9. PageInv(q)'
    BY <1>0, <2>2, <2>6, PageGrows
  <2>10. PageInv(p)'
    BY <2>8, <2>9 DEF PageInv, Page
  <2>11. PagesInv'
    BY <2>2, <2>5, <2>10, TabMoves DEF SessionInv
  <2>12. /\ (jar \in Cookies)' /\ jar'.link = flows' /\ jar'.wallet = jar.wallet
         /\ jar'.state = jar.state /\ jar'.appLink = jar.appLink
         /\ jar'.ownership = jar.ownership
    <3>0. PICK old : old = jar
      OBVIOUS
    <3>1. old \in Cookies'
      BY <2>2, <3>0 DEF SessionInv, JarInv, Cookies, Ticket, Ownership
    <3>2. PICK link : link = flows' /\ link \in (1..flows)'
      BY <2>2
    <3>3. jar' = [old EXCEPT !.link = link, !.linkSession = old.wallet]
      BY <2>1, <3>0, <3>2
    <3>4. PICK new : new = jar'
      OBVIOUS
    <3>5. /\ new \in Cookies' /\ new.link = link /\ new.wallet = old.wallet
          /\ new.state = old.state /\ new.appLink = old.appLink
          /\ new.ownership = old.ownership
      BY <3>1, <3>2, <3>3, <3>4 DEF Cookies
    <3>. QED  BY <3>0, <3>2, <3>4, <3>5
  <2>13. JarInv'
    BY <2>1, <2>2, <2>12 DEF SessionAssumption, SessionInv, JarInv, Ticket
  <2>14. ProfileInv'
    BY <1>0, <2>2, <2>12 DEF SessionInv, ProfileInv, Profile
  <2>. QED  BY <1>0, <2>11, <2>13, <2>14, SignInStays DEF SessionInv
<1>. QED  BY <1>1, <1>2

(* The cookies of the OAuth state change, nothing else of the jar.         *)
LEMMA StateMoves ==
  ASSUME SessionInv, UNCHANGED <<SignInVars, flows, profile>>,
         NEW state \in Tabs \cup {None}, NEW ticket \in Ticket \cup {None},
         state # None => ticket \in Ticket,
         jar' = [jar EXCEPT !.state = state, !.appLink = ticket],
         NEW t \in Tabs, NEW p, tab' = [tab EXCEPT ![t] = p], PageInv(p)
  PROVE  SessionInv'
<1>1. jar' \in Cookies /\ jar'.state = state /\ jar'.appLink = ticket
      /\ jar'.link = jar.link /\ jar'.wallet = jar.wallet /\ jar'.ownership = jar.ownership
  BY DEF SessionInv, JarInv, Cookies
<1>2. JarInv' /\ ProfileInv'
  BY <1>1 DEF SessionInv, JarInv, ProfileInv, Cookies, Profile, Ticket, Ownership
<1>3. PagesInv'
  BY FlowsCount, PageGrows, TabMoves DEF SessionInv
<1>. QED  BY <1>2, <1>3, SignInStays DEF SessionInv

LEMMA StartStep ==
  ASSUME SessionInv, NEW t \in Tabs, Links!StartOAuth(t) PROVE SessionInv'
<1>0. tab[t] \in Page /\ PageInv(tab[t]) /\ UNCHANGED <<SignInVars, flows, profile>>
  BY DEF SessionInv, PagesInv, Links!StartOAuth, SignInVars
<1>1. PICK p : p = [tab[t] EXCEPT !.pc = "atX"]
  OBVIOUS
<1>2. tab[t].ticket \in Ticket
  BY <1>0 DEF Links!StartOAuth, PageInv
<1>3. PageInv(p)
  BY <1>0, <1>1, <1>2 DEF PageInv, Page
<1>4. tab' = [tab EXCEPT ![t] = p]
  BY <1>1 DEF Links!StartOAuth
<1>5. PICK k : k = tab[t].ticket
  OBVIOUS
<1>6. jar' = [jar EXCEPT !.state = t, !.appLink = k]
  BY <1>5 DEF Links!StartOAuth
<1>. QED  BY <1>0, <1>2, <1>3, <1>4, <1>5, <1>6, StateMoves

LEMMA CancelStep ==
  ASSUME SessionInv, NEW t \in Tabs, Links!CancelOAuth(t) PROVE SessionInv'
<1>0. tab[t] \in Page /\ PageInv(tab[t]) /\ UNCHANGED <<SignInVars, flows, profile>>
  BY DEF SessionInv, PagesInv, Links!CancelOAuth, SignInVars
<1>1. PICK p : p = [tab[t] EXCEPT !.pc = "idle", !.ticket = None]
  OBVIOUS
<1>2. PageInv(p)
  BY <1>0, <1>1 DEF PageInv, Page
<1>3. tab' = [tab EXCEPT ![t] = p] /\ jar' = [jar EXCEPT !.state = None, !.appLink = None]
  BY <1>1 DEF Links!CancelOAuth
<1>. QED  BY <1>0, <1>2, <1>3, StateMoves

LEMMA CallbackStep ==
  ASSUME SessionAssumption, SessionInv, NEW t \in Tabs, NEW x \in XIds,
         Links!OAuthCallback(t, x)
  PROVE  SessionInv'
<1>0. /\ tab[t] \in Page /\ PageInv(tab[t]) /\ UNCHANGED <<SignInVars, flows, profile>>
      /\ jar' = [jar EXCEPT !.state = None, !.appLink = None]
  BY DEF SessionInv, PagesInv, Links!OAuthCallback, SignInVars
<1>1. CASE jar.state = t
  <2>1. jar.appLink \in Ticket
    BY <1>1 DEF SessionAssumption, SessionInv, JarInv, Cookies
  <2>2. PICK p : p = [tab[t] EXCEPT !.pc = "asserted",
           !.ticket = [nonce |-> jar.appLink.nonce, xId |-> x, wallet |-> jar.appLink.wallet]]
    OBVIOUS
  <2>3. PageInv(p)
    BY <1>0, <2>1, <2>2 DEF PageInv, Page, Ticket, Assertion
  <2>4. tab' = [tab EXCEPT ![t] = p]
    BY <1>1, <2>2 DEF Links!OAuthCallback
  <2>. QED  BY <1>0, <2>3, <2>4, StateMoves
<1>2. CASE jar.state # t
  <2>1. PICK p : p = [tab[t] EXCEPT !.pc = "idle", !.ticket = None]
    OBVIOUS
  <2>2. PageInv(p)
    BY <1>0, <2>1 DEF PageInv, Page
  <2>3. tab' = [tab EXCEPT ![t] = p]
    BY <1>2, <2>1 DEF Links!OAuthCallback
  <2>. QED  BY <1>0, <2>2, <2>3, StateMoves
<1>. QED  BY <1>1, <1>2

LEMMA XCallbackStep ==
  ASSUME SessionAssumption, SessionInv, NEW t \in Tabs, Links!XCallback(t)
  PROVE  SessionInv' /\ Links!LinkIsLatest
<1>0. tab[t] \in Page /\ PageInv(tab[t]) /\ UNCHANGED <<SignInVars, flows>>
  BY DEF SessionInv, PagesInv, Links!XCallback, SignInVars
<1>1. PICK data : data = tab[t].ticket
  OBVIOUS
<1>2. data \in Assertion
  BY <1>0, <1>1 DEF Links!XCallback, PageInv
<1>3. PICK p : p = [tab[t] EXCEPT !.pc = "idle", !.ticket = None]
  OBVIOUS
<1>4. PageInv(p) /\ tab' = [tab EXCEPT ![t] = p]
  <2>1. PageInv(p)
    BY <1>0, <1>3 DEF PageInv, Page
  <2>2. tab' = [tab EXCEPT ![t] = p]
    BY <1>3 DEF Links!XCallback
  <2>. QED  BY <2>1, <2>2
<1>5. PagesInv'
  BY <1>0, <1>4, FlowsCount, PageGrows, TabMoves DEF SessionInv
<1>6. CASE profile' = profile /\ jar' = [jar EXCEPT !.link = None, !.linkSession = None]
  <2>1. jar' \in Cookies /\ jar'.state = jar.state /\ jar'.appLink = jar.appLink
        /\ jar'.link = None /\ jar'.wallet = jar.wallet /\ jar'.ownership = jar.ownership
    BY <1>6 DEF SessionInv, JarInv, Cookies
  <2>2. JarInv' /\ ProfileInv'
    BY <1>0, <1>6, <2>1 DEF SessionInv, JarInv, ProfileInv, Cookies, Profile, Ticket,
       Ownership
  <2>. QED  BY <1>0, <1>5, <1>6, <2>2, SignInStays DEF SessionInv, Links!LinkIsLatest
<1>7. ASSUME NEW token \in Token \cup {None}, Links!NonceMatches(data.nonce),
             profile' = [profile EXCEPT ![data.wallet] =
               [xId |-> data.xId, flow |-> data.nonce, session |-> token]],
             jar' = [jar EXCEPT !.link = None, !.linkSession = None,
               !.ownership = [wallet |-> data.wallet, xId |-> data.xId,
                              flow |-> data.nonce, session |-> token]]
      PROVE  SessionInv' /\ Links!LinkIsLatest
  <2>1. data.wallet \in Wallets /\ data.nonce \in 1..flows /\ data.xId \in XIds
    BY <1>2 DEF Assertion
  <2>2. data.nonce = flows
    BY <1>7, <2>1 DEF Links!NonceMatches, SessionAssumption, SessionInv, JarInv
  <2>3. PICK proof : proof = [wallet |-> data.wallet, xId |-> data.xId,
                              flow |-> data.nonce, session |-> token]
    OBVIOUS
  <2>4. proof \in Ownership /\ proof.wallet = data.wallet /\ proof.xId = data.xId
        /\ proof.flow = data.nonce /\ proof.session = token
    BY <2>1, <2>3 DEF Ownership
  <2>5. jar' \in Cookies /\ jar'.state = jar.state /\ jar'.appLink = jar.appLink
        /\ jar'.link = None /\ jar'.wallet = jar.wallet /\ jar'.ownership = proof
    BY <1>7, <2>3, <2>4 DEF SessionInv, JarInv, Cookies
  <2>6. PICK row : row = [xId |-> data.xId, flow |-> data.nonce, session |-> token]
    OBVIOUS
  <2>7. row \in Profile /\ row.flow = flows /\ profile' = [profile EXCEPT ![data.wallet] = row]
    BY <1>7, <2>1, <2>2, <2>6 DEF Profile
  <2>8. JarInv'
    BY <1>0, <2>5 DEF SessionInv, JarInv, Cookies, Ticket, Ownership
  <2>9. profile'[data.wallet] = row
    BY <2>1, <2>7 DEF SessionInv, ProfileInv
  <2>10. ProfileInv'
    BY <1>0, <2>4, <2>5, <2>6, <2>7, <2>9 DEF SessionInv, ProfileInv, Profile
  <2>11. Links!LinkIsLatest
    BY <2>1, <2>7 DEF SessionInv, ProfileInv, Links!LinkIsLatest
  <2>. QED  BY <1>0, <1>5, <2>8, <2>10, <2>11, SignInStays DEF SessionInv
<1>8. PICK cookieSent \in BOOLEAN :
        LET current == IF cookieSent THEN Links!Session(jar.wallet) ELSE None
            token == IF current # None THEN jar.wallet ELSE jar.linkSession
            linked == /\ Links!NonceMatches(data.nonce)
                      /\ Links!Session(token) = data.wallet
                      /\ Links!Free(data.xId, data.wallet)
        IN /\ profile' = IF ~linked THEN profile ELSE
                [profile EXCEPT ![data.wallet] =
                   [xId |-> data.xId, flow |-> data.nonce, session |-> token]]
           /\ jar' = [jar EXCEPT !.link = None, !.linkSession = None,
                !.ownership = IF ~linked THEN @ ELSE
                  [wallet |-> data.wallet, xId |-> data.xId,
                   flow |-> data.nonce, session |-> token]]
  BY <1>1 DEF Links!XCallback
<1>9. jar.wallet \in Token \cup {None} /\ jar.linkSession \in Token \cup {None}
  BY DEF SessionInv, JarInv, Cookies
<1>10. PICK token \in Token \cup {None} :
         token = IF (IF cookieSent THEN Links!Session(jar.wallet) ELSE None) # None
                 THEN jar.wallet ELSE jar.linkSession
  BY <1>9
<1>. DEFINE linked == /\ Links!NonceMatches(data.nonce)
                      /\ Links!Session(token) = data.wallet
                      /\ Links!Free(data.xId, data.wallet)
<1>11. CASE linked
  BY <1>7, <1>8, <1>10, <1>11
<1>12. CASE ~linked
  <2>1. profile' = profile
        /\ jar' = [jar EXCEPT !.link = None, !.linkSession = None, !.ownership = @]
    BY <1>8, <1>10, <1>12
  <2>2. jar' = [jar EXCEPT !.link = None, !.linkSession = None]
    BY <2>1 DEF SessionInv, JarInv, Cookies
  <2>. QED  BY <1>6, <2>1, <2>2
<1>. QED  BY <1>11, <1>12

-----------------------------------------------------------------------------
(* ----------------------------- the wallet page ------------------------- *)

LEMMA LoadStep ==
  ASSUME SessionInv, NEW t \in Tabs, Links!LoadPortfolio(t) PROVE SessionInv'
<1>0. tab[t] \in Page /\ PageInv(tab[t])
  BY DEF SessionInv, PagesInv
<1>1. PICK p : p = IF Links!Session(jar.wallet) = tab[t].wallet
                   THEN [tab[t] EXCEPT !.load = tab[t].wallet, !.answer = None]
                   ELSE [tab[t] EXCEPT !.shown = None]
  OBVIOUS
<1>2. PageInv(p)
  BY <1>0, <1>1 DEF PageInv, Page
<1>3. tab' = [tab EXCEPT ![t] = p] /\ UNCHANGED <<SignInVars, jar, flows, profile>>
  BY <1>1 DEF Links!LoadPortfolio, SignInVars
<1>. QED  BY <1>2, <1>3, OnlyTabMoves

LEMMA ServeStep ==
  ASSUME SessionInv, NEW t \in Tabs, Links!ServePortfolio(t) PROVE SessionInv'
<1>0. tab[t] \in Page /\ PageInv(tab[t])
  BY DEF SessionInv, PagesInv
<1>1. PICK p : p = [tab[t] EXCEPT !.answer = Links!Session(jar.wallet)]
  OBVIOUS
<1>2. PageInv(p)
  BY <1>0, <1>1, SessionIsWallet DEF Links!ServePortfolio, PageInv, Page, SessionInv
<1>3. tab' = [tab EXCEPT ![t] = p] /\ UNCHANGED <<SignInVars, jar, flows, profile>>
  BY <1>0, <1>1 DEF Links!ServePortfolio, SignInVars, Page
<1>. QED  BY <1>2, <1>3, OnlyTabMoves

LEMMA ShowStep ==
  ASSUME SessionInv, NEW t \in Tabs, Links!ShowPortfolio(t) PROVE SessionInv'
<1>0. tab[t] \in Page /\ PageInv(tab[t]) /\ tab[t].load \in Wallets
  BY DEF SessionInv, PagesInv, PageInv, Page, Links!ShowPortfolio
<1>1. PICK view : view = IF tab[t].answer # None /\ Links!AnswerIsOwn(t)
                         THEN [for |-> tab[t].load, data |-> tab[t].answer] ELSE None
  OBVIOUS
<1>2. /\ view \in [for : Wallets, data : Wallets] \cup {None}
      /\ view # None => view.data = view.for
  BY <1>0, <1>1 DEF Links!AnswerIsOwn
<1>3. PICK p : p = [tab[t] EXCEPT !.load = None, !.answer = None, !.shown = view]
  OBVIOUS
<1>4. PageInv(p)
  BY <1>0, <1>2, <1>3 DEF PageInv, Page
<1>5. tab' = [tab EXCEPT ![t] = p] /\ UNCHANGED <<SignInVars, jar, flows, profile>>
  BY <1>1, <1>3 DEF Links!ShowPortfolio, SignInVars
<1>. QED  BY <1>4, <1>5, OnlyTabMoves

-----------------------------------------------------------------------------
(* Every step keeps the invariant, and writes a profile only for the last  *)
(* link flow.                                                              *)
LEMMA SessionStep ==
  ASSUME SessionAssumption, SessionInv, [Links!Next]_(Links!vars)
  PROVE  SessionInv' /\ Links!LinkIsLatest
<1>1. ASSUME NEW t \in Tabs, Links!XCallback(t) PROVE SessionInv' /\ Links!LinkIsLatest
  BY <1>1, XCallbackStep
<1>2. ASSUME NEW t \in Tabs,
             \/ Links!Authenticate(t) \/ Links!SignMessage(t)
             \/ Links!Decline(t) \/ Links!Logout(t)
             \/ Links!BeginXLink(t) \/ Links!StartOAuth(t) \/ Links!CancelOAuth(t)
             \/ Links!LoadPortfolio(t) \/ Links!ServePortfolio(t)
             \/ Links!ShowPortfolio(t)
             \/ \E w \in Wallets : Links!SwitchWallet(t, w)
             \/ \E x \in XIds : Links!OAuthCallback(t, x)
      PROVE  SessionInv' /\ UNCHANGED profile
  <2>1. SessionInv'
    BY <1>2, AuthenticateStep, SignStep, DeclineStep, LogoutStep, BeginStep, StartStep,
       CancelStep, LoadStep, ServeStep, ShowStep, SwitchStep, CallbackStep
  <2>2. UNCHANGED profile
    BY <1>2 DEF Links!Authenticate, Links!SignMessage, Links!Decline,
       Links!Logout, Links!BeginXLink, Links!StartOAuth,
       Links!CancelOAuth, Links!LoadPortfolio, Links!ServePortfolio, Links!ShowPortfolio,
       Links!SwitchWallet, Links!OAuthCallback
  <2>. QED  BY <2>1, <2>2
<1>3. ASSUME NEW h \in Handlers,
             \/ Links!TakeChallenge(h) \/ Links!OpenSession(h)
             \/ \E id \in signatures : Links!ReceiveVerify(h, id)
      PROVE  SessionInv' /\ UNCHANGED profile
  <2>1. SessionInv'
    BY <1>3, TakeStep, OpenStep, ReceiveStep
  <2>2. UNCHANGED profile
    BY <1>3 DEF Links!TakeChallenge, Links!OpenSession, Links!ReceiveVerify
  <2>. QED  BY <2>1, <2>2
<1>4. CASE Links!Expire
  BY <1>4, ExpireStep DEF Links!Expire, Links!LinkIsLatest
<1>5. CASE UNCHANGED Links!vars
  <2>1. PagesInv'
    BY <1>5 DEF Links!vars, SessionInv, PagesInv, PageInv, Page, Ticket, Assertion
  <2>. QED  BY <1>5, <2>1, SignInStays, JarStays DEF Links!vars, SessionInv, SignInVars,
     Links!LinkIsLatest
<1>. QED  BY <1>1, <1>2, <1>3, <1>4, <1>5 DEF Links!Next, Links!LinkIsLatest

(* The invariant of sign-in and X links holds in every state, for any      *)
(* number of wallets, tabs, requests and flows.                            *)
THEOREM SessionsInvariant == Links!Spec => []SessionInv
<1>1. Links!Init => SessionInv
  BY SessionInit, SessionAssumption
<1>2. SessionInv /\ [Links!Next]_(Links!vars) => SessionInv'
  BY SessionStep, SessionAssumption
<1>. QED  BY <1>1, <1>2, PTL DEF Links!Spec

(* What holds of a step of the sessions holds of a step of the services.   *)
LEMMA ServicesStep ==
  ASSUME [MCServicesNext]_<<part, historyVars, sessionVars, limitVars, rotationVars,
                            commentVars, saleVars>>,
         part' = "links"
  PROVE  part = "links" /\ [Links!Next]_(Links!vars)
BY DEF MCServicesNext, sessionVars, Links!vars

LEMMA LinksInvariant == MCServicesSpec => [](part = "links" => SessionInv)
<1> DEFINE I == part = "links" => SessionInv
<1>1. MCServicesInit => I
  BY SessionInit, SessionAssumption DEF MCServicesInit
<1>2. I /\ [MCServicesNext]_<<part, historyVars, sessionVars, limitVars, rotationVars,
                               commentVars, saleVars>> => I'
  BY ServicesStep, SessionStep, SessionAssumption
<1>. QED  BY <1>1, <1>2, PTL DEF MCServicesSpec

(* A challenge opens one session, however often it is answered, and the    *)
(* proof of X ownership counts in the session it was made in               *)
(* (verifyChallenge, hasXSessionProof).                                    *)
THEOREM OwnSessions == MCServicesSpec => []SessionsAreOwn
<1>1. SessionInv => Links!TypeOK
  BY SessionAssumption DEF SessionInv, SignInTypes, JarInv, Cookies, ProfileInv, Profile,
     Links!TypeOK
<1>2. SessionInv => Links!OneSessionPerChallenge
  BY DEF SessionInv, ChallengeInv
<1>3. SessionInv => Links!ProofFollowsLink
  BY DEF SessionInv, ProfileInv, Links!ProofFollowsLink, Links!HasXSessionProof,
     Links!SameSession
<1>4. SessionInv => Links!PortfolioIsOwn
  BY DEF SessionInv, PagesInv, PageInv, Links!PortfolioIsOwn
<1>5. (part = "links" => SessionInv) => SessionsAreOwn
  BY <1>1, <1>2, <1>3, <1>4 DEF SessionsAreOwn, Links!SessionsAreOwn
<1>. QED  BY <1>5, LinksInvariant, PTL

(* Of two overlapping link flows of one browser only the one begun last    *)
(* writes a profile: the nonce cookie is the last flow's (beginXLink,      *)
(* x-callback).                                                            *)
THEOREM LatestLink == MCServicesSpec => LatestLinkWins
<1> DEFINE I == part = "links" => SessionInv
           LinkStep == part = "links" => Links!LinkIsLatest
<1>1. I /\ [MCServicesNext]_<<part, historyVars, sessionVars, limitVars, rotationVars,
                               commentVars, saleVars>> => [LinkStep]_sessionVars
  <2> SUFFICES ASSUME I, part = "links", part' = part,
                      [MCServicesNext]_<<part, historyVars, sessionVars, limitVars,
                                         rotationVars, commentVars, saleVars>>
               PROVE  Links!LinkIsLatest
    BY DEF MCServicesNext
  <2>1. SessionInv /\ [Links!Next]_(Links!vars)
    BY ServicesStep
  <2>. QED  BY <2>1, SessionStep, SessionAssumption
<1>. QED  BY <1>1, LinksInvariant, PTL DEF MCServicesSpec, LatestLinkWins

(* ---------------------------- history indexer ------------------------- *)

Job ==
  [step : Steps, venue : Venues, previous : Cursor, started : Time \cup {NoTime},
   head : Nat, next : Nat, last : Nat, short : BOOLEAN, complete : BOOLEAN,
   at : Nat, creation : Time \cup {NoTime}, then : Steps \cup {"leave"}]

\* History is in the order of its times.
ChainInv ==
  /\ now \in 1 .. MaxTime
  /\ chain \in [Venues -> Seq([time : Time, usd : Volumes])]
  /\ Len(chain["damm"]) <= MaxTx["damm"]
  /\ \A v \in Venues : \A i, j \in DOMAIN chain[v] :
       i <= j => chain[v][i].time <= chain[v][j].time
  /\ \A v \in Venues : \A i \in DOMAIN chain[v] : chain[v][i].time <= now

\* The history of the DAMM pool fits a page.
OnePage == MaxTx["damm"] <= PageSize

\* Nothing to miss at a position, or only what the first batch may lose when
\* a page does not reach it again.
Fine(v, i) ==
  IsSwap(<<v, i>>) =>
    <<v, i>> \in stored \/ (v = "damm" /\ i \in 2 .. Concurrency /\ ~ OnePage)

Known(v, first, last) == \A i \in first .. last : Fine(v, i)

\* A position that was final when it was read, or none.
Final(v, i) ==
  i \in 0 .. Len(chain[v]) /\ (i # 0 => chain[v][i].time < now)

\* All that had happened by a time is at positions up to i.
UpTo(v, time, i) ==
  time < now /\ \A j \in DOMAIN chain[v] : chain[v][j].time <= time => j <= i

\* The initialization of the DAMM pool was visited: what is left of the scan
\* is in its batch, or the page that follows reaches it again.
Initialized(v, head, at) ==
  /\ head # 0 /\ Fine(v, 1)
  /\ head <= Concurrency \/ at \in 1 .. Concurrency + 1

RowInv(v, row) ==
  /\ Final(v, row.cursor) /\ Known(v, 1, row.cursor)
  /\ row.through # NoTime => UpTo(v, row.through, row.cursor)
  /\ Final(v, row.head)
  /\ row.started # NoTime => row.started < now
  /\ row.head # 0 => row.started # NoTime /\ UpTo(v, row.started, row.head)
  /\ row.before \in 0 .. Len(chain[v])
  /\ row.before # 0 => row.head # 0 /\ Known(v, row.before, row.head)
  /\ v = "damm" /\ row.start # NoTime /\ row.cursor = 0 =>
       Initialized(v, row.head, row.before)

\* What the scan may save at any time.
SaveInv(v, job) ==
  /\ Final(v, job.head) /\ UpTo(v, job.started, job.head)
  /\ job.at \in 0 .. Len(chain[v])
  /\ job.at # 0 => job.head # 0 /\ Known(v, job.at, job.head)
  /\ v = "damm" /\ job.creation # NoTime /\ job.previous.cursor = 0 =>
       Initialized(v, job.head, job.at)

\* The page: all above next is known, and the rest goes down to last.
ScanInv(v, job) ==
  /\ job.last >= 1 /\ job.last <= job.next + 1 /\ job.next <= Len(chain[v])
  /\ Known(v, job.next + 1, job.head)
  /\ job.at = job.next + 1 \/ (job.at = 0 /\ job.head <= job.next)
  /\ job.last <= job.next => job.head # 0
  /\ job.complete => job.head # 0 /\ Known(v, 1, job.last - 1)
  /\ v = "damm" /\ job.creation # NoTime /\ job.previous.cursor = 0 =>
       job.head <= Concurrency \/ job.last = 1
  /\ v = "damm" /\ job.previous.cursor = 0 /\ OnePage => job.last = 1

JobInv(job) ==
  LET v == job.venue IN
  /\ job.step \in {"list", "scan", "checkpoint", "finish"} =>
       /\ RowInv(v, job.previous)
       /\ job.previous.cursor # 0 => index[v].cursor # 0
       /\ job.started # NoTime /\ job.started < now
       /\ job.previous.started # NoTime => job.started = job.previous.started
  /\ job.step = "list" =>
       job.at = job.previous.before /\ job.creation = job.previous.start
  /\ job.step \in {"scan", "checkpoint", "finish"} => SaveInv(v, job)
  /\ job.step = "checkpoint" =>
       /\ job.then \in {"leave", "scan", "finish"}
       /\ job.then # "leave" => ScanInv(v, job)
       /\ job.then = "scan" => job.last <= job.next
       /\ job.then = "finish" => job.last = job.next + 1
  /\ job.step = "scan" => ScanInv(v, job) /\ job.last <= job.next
  /\ job.step = "finish" => ScanInv(v, job) /\ job.last = job.next + 1

IndexerInv ==
  /\ ChainInv
  /\ index \in [Venues -> Cursor] /\ worker \in [Workers -> Job]
  /\ \A v \in Venues : RowInv(v, index[v])
  /\ \A w \in Workers : JobInv(worker[w])

-----------------------------------------------------------------------------
(* Least and greatest elements *)

LEMMA MinOfNats ==
  ASSUME NEW S \in SUBSET Nat, S # {}
  PROVE  Min(S) \in S /\ \A x \in S : Min(S) <= x
<1>. DEFINE R == {ss \in Nat \X Nat : ss[1] < ss[2]}
<1>1. IsWellFoundedOn(R, Nat)
  BY NatLessThanWellFounded DEF OpToRel
<1>2. PICK x \in S : \A y \in S : ~ (<<y, x>> \in R)
  BY <1>1, WFMin, Zenon
<1>3. \A y \in S : y \in Nat /\ x \in Nat /\ ~ (y < x)
  BY <1>2
<1>4. \A y \in S : x <= y
  BY <1>3
<1>. QED  BY <1>4 DEF Min

LEMMA MaxOfNats ==
  ASSUME NEW S \in SUBSET Nat, S # {}, NEW n \in Nat, \A x \in S : x <= n
  PROVE  Max(S) \in S /\ \A x \in S : Max(S) >= x
<1>. DEFINE T == {n - x : x \in S}
<1>1. T \in SUBSET Nat /\ T # {}
  <2>1. \A x \in S : x \in Nat /\ x <= n
    OBVIOUS
  <2>2. \A x \in S : n - x \in Nat
    BY <2>1
  <2>3. T \subseteq Nat
    BY <2>2
  <2>. QED  BY <2>3
<1>2. Min(T) \in T /\ \A y \in T : Min(T) <= y
  BY <1>1, MinOfNats
<1>3. PICK x \in S : Min(T) = n - x
  BY <1>2
<1>4. ASSUME NEW y \in S PROVE x >= y
  <2>1. n - y \in T
    OBVIOUS
  <2>2. n - x <= n - y
    BY <1>2, <1>3, <2>1
  <2>. QED  BY <2>2
<1>. QED  BY <1>4 DEF Max

LEMMA MaxOfTwo ==
  ASSUME NEW k \in Int, NEW l \in Int
  PROVE  /\ Max({k, l}) \in {k, l}
         /\ Max({k, l}) >= k /\ Max({k, l}) >= l
<1>1. \E m \in {k, l} : \A y \in {k, l} : m >= y
  OBVIOUS
<1>. QED  BY <1>1 DEF Max

LEMMA MinOfTwo ==
  ASSUME NEW k \in Int, NEW l \in Int
  PROVE  Min({k, l}) \in {k, l} /\ Min({k, l}) <= k /\ Min({k, l}) <= l
<1>1. \E m \in {k, l} : \A y \in {k, l} : m <= y
  OBVIOUS
<1>. QED  BY <1>1 DEF Min

LEMMA MinOfInterval ==
  ASSUME NEW k \in Nat, NEW l \in Nat, k <= l
  PROVE  Min(k .. l) = k
<1>1. Min(k .. l) \in k .. l /\ \A x \in k .. l : Min(k .. l) <= x
  BY MinOfNats
<1>. QED  BY <1>1

LEMMA SeqElement ==
  ASSUME NEW S, NEW s \in Seq(S), NEW i \in 1 .. Len(s)
  PROVE  s[i] \in S
  OBVIOUS

\* The finalized transactions are the first Finalized(v).
LEMMA FinalizedPrefix ==
  ASSUME ChainInv, NEW v \in Venues
  PROVE  /\ Finalized(v) \in 0 .. Len(chain[v])
         /\ \A i \in DOMAIN chain[v] : i <= Finalized(v) <=> chain[v][i].time <= root
<1>. DEFINE S == {i \in DOMAIN chain[v] : chain[v][i].time <= root}
            n == Len(chain[v])
<1>. HIDE DEF S, n
<1>1. n \in Nat /\ DOMAIN chain[v] = 1 .. n /\ now \in Nat /\ root \in Int
  <2>1. chain[v] \in Seq([time : Time, usd : Volumes])
    BY DEF ChainInv
  <2>. QED  BY <2>1 DEF ChainInv, root, n
<1>2. \A i, j \in 1 .. n : i <= j => chain[v][i].time <= chain[v][j].time
  BY <1>1 DEF ChainInv, n
<1>3. \A i \in 1 .. n : chain[v][i].time \in Int
  <2>1. chain[v] \in Seq([time : Time, usd : Volumes])
    BY DEF ChainInv
  <2>2. \A i \in 1 .. n : chain[v][i] \in [time : Time, usd : Volumes]
    BY <2>1, <1>1, SeqElement DEF n
  <2>. QED  BY <2>2, HistoryAssumption DEF Time
<1>4. CASE S = {}
  <2>1. Finalized(v) = 0
    BY <1>4, FS_EmptySet DEF Finalized, S
  <2>. QED  BY <1>1, <1>4, <2>1 DEF S, n
<1>5. CASE S # {}
  <2>1. S \in SUBSET Nat /\ \A i \in S : i <= n
    BY <1>1 DEF S
  <2>2. PICK m \in S : \A i \in S : m >= i
    <3>1. Max(S) \in S /\ \A i \in S : Max(S) >= i
      BY <1>1, <1>5, <2>1, MaxOfNats
    <3>. QED  BY <3>1
  <2>3. m \in 1 .. n /\ chain[v][m].time <= root
    BY <1>1, <2>2 DEF S
  <2>4. \A i \in 1 .. m : i \in S
    BY <1>1, <1>2, <1>3, <2>3 DEF S
  <2>5. S = 1 .. m
    <3>1. \A i \in S : i \in Nat /\ i >= 1 /\ i <= m
      BY <1>1, <2>2 DEF S
    <3>2. m \in Nat /\ S \subseteq 1 .. m
      BY <3>1, <2>3, <1>1
    <3>. QED  BY <3>2, <2>4
  <2>6. Finalized(v) = m
    <3>1. m \in Nat /\ m >= 1
      BY <2>3, <1>1
    <3>2. Cardinality(1 .. m) = m
      BY <3>1, FS_Interval
    <3>. QED  BY <3>2, <2>5 DEF Finalized, S
  <2>. QED  BY <1>1, <2>1, <2>3, <2>5, <2>6 DEF S, n
<1>. QED  BY <1>4, <1>5

LEMMA TimesAreInts == Time \subseteq Int /\ NoTime \in Int /\ NoTime \notin Time
  BY HistoryAssumption DEF Time, NoTime

LEMMA ChainFacts ==
  ASSUME ChainInv, NEW v \in Venues
  PROVE  /\ Len(chain[v]) \in Nat /\ DOMAIN chain[v] = 1 .. Len(chain[v])
         /\ now \in Nat /\ root \in Time /\ root = now - 1
         /\ \A i \in DOMAIN chain[v] : chain[v][i] \in [time : Time, usd : Volumes]
         /\ \A i \in DOMAIN chain[v] : chain[v][i].time \in Time /\ chain[v][i].time \in Int
<1>1. chain[v] \in Seq([time : Time, usd : Volumes])
  BY DEF ChainInv
<1>2. Len(chain[v]) \in Nat /\ DOMAIN chain[v] = 1 .. Len(chain[v])
  BY <1>1
<1>3. \A i \in DOMAIN chain[v] : chain[v][i] \in [time : Time, usd : Volumes]
  BY <1>1, <1>2, SeqElement
<1>4. now \in Nat /\ root \in Time /\ root = now - 1
  <2>1. MaxTime \in Nat /\ now \in 1 .. MaxTime
    BY HistoryAssumption DEF ChainInv
  <2>. QED  BY <2>1 DEF root, Time
<1>. QED  BY <1>2, <1>3, <1>4, TimesAreInts

LEMMA ChainFactsNext ==
  ASSUME ChainInv', NEW v \in Venues
  PROVE  /\ Len(chain'[v]) \in Nat /\ DOMAIN chain'[v] = 1 .. Len(chain'[v]) /\ now' \in Nat
         /\ \A i \in DOMAIN chain'[v] : chain'[v][i].time \in Int
<1>1. chain'[v] \in Seq([time : Time, usd : Volumes])
  BY DEF ChainInv
<1>2. Len(chain'[v]) \in Nat /\ DOMAIN chain'[v] = 1 .. Len(chain'[v])
  BY <1>1
<1>3. \A i \in DOMAIN chain'[v] : chain'[v][i] \in [time : Time, usd : Volumes]
  BY <1>1, <1>2, SeqElement
<1>4. now' \in Nat
  <2>1. MaxTime \in Nat /\ now' \in 1 .. MaxTime
    BY HistoryAssumption DEF ChainInv
  <2>. QED  BY <2>1
<1>. QED  BY <1>2, <1>3, <1>4, TimesAreInts

-----------------------------------------------------------------------------
(* A batch, and the receipts a scan passes *)

LEMMA BatchIsInterval ==
  ASSUME NEW job \in Job, job.last >= 1, job.last <= job.next
  PROVE  \E l \in job.last .. job.next :
           /\ Batch(job) = l .. job.next /\ Min(Batch(job)) = l
           /\ l <= 1 => job.next <= Concurrency
<1>1. job.last \in Nat /\ job.next \in Nat /\ Concurrency \in Nat \ {0}
  BY HistoryAssumption DEF Job
<1>2. PICK l \in {job.last, job.next - Concurrency + 1} :
        l = Max({job.last, job.next - Concurrency + 1})
  <2>1. job.last \in Int /\ job.next - Concurrency + 1 \in Int
    BY <1>1
  <2>. QED  BY <2>1, MaxOfTwo
<1>3. l >= job.last /\ l >= job.next - Concurrency + 1
  BY <1>1, <1>2, MaxOfTwo
<1>4. l \in job.last .. job.next /\ l \in Nat /\ l <= job.next
  BY <1>1, <1>2, <1>3
<1>5. Batch(job) = l .. job.next
  BY <1>2 DEF Batch
<1>6. Min(l .. job.next) = l
  BY <1>1, <1>4, MinOfInterval
<1>. QED  BY <1>1, <1>3, <1>4, <1>5, <1>6

\* What is passed is the end of the batch, and worked.
LEMMA PassedIsInterval ==
  ASSUME NEW l \in Nat, NEW next \in Nat, l <= next, NEW ok \in SUBSET (l .. next)
  PROVE  \E k \in l .. next + 1 :
           /\ Passed(l .. next, ok) = k .. next /\ k .. next \subseteq ok
           /\ k <= next => Min(Passed(l .. next, ok)) = k
<1>. DEFINE failed == (l .. next) \ ok
<1>1. CASE failed = {}
  <2>1. Passed(l .. next, ok) = l .. next /\ l .. next \subseteq ok
    BY <1>1 DEF Passed
  <2>2. Min(l .. next) = l
    BY MinOfInterval
  <2>. QED  BY <2>1, <2>2
<1>2. CASE failed # {}
  <2>1. failed \in SUBSET Nat /\ \A x \in failed : x <= next
    OBVIOUS
  <2>2. PICK m \in failed : m = Max(failed) /\ \A x \in failed : m >= x
    BY <1>2, <2>1, MaxOfNats
  <2>3. m \in l .. next
    OBVIOUS
  <2>4. Passed(l .. next, ok) = {i \in l .. next : i > m}
    BY <1>2, <2>2 DEF Passed
  <2>5. {i \in l .. next : i > m} = (m + 1) .. next
    BY <2>3
  <2>6. (m + 1) .. next \subseteq ok
    <3>1. SUFFICES ASSUME NEW i \in (m + 1) .. next PROVE i \in ok
      OBVIOUS
    <3>2. i \in l .. next /\ ~ (m >= i)
      BY <2>3
    <3>3. i \notin failed
      BY <3>2, <2>2
    <3>. QED  BY <3>2, <3>3
  <2>7. m + 1 <= next => Min((m + 1) .. next) = m + 1
    BY <2>3, MinOfInterval
  <2>8. m + 1 \in l .. next + 1
    BY <2>3
  <2>9. Passed(l .. next, ok) = (m + 1) .. next
    BY <2>4, <2>5
  <2>10. m + 1 <= next => Min(Passed(l .. next, ok)) = m + 1
    BY <2>7, <2>9
  <2>. QED  BY <2>6, <2>8, <2>9, <2>10
<1>. QED  BY <1>1, <1>2

-----------------------------------------------------------------------------
(* What was found out stays true: history and the trades only grow *)

Grows ==
  /\ now <= now' /\ stored \subseteq stored'
  /\ \A v \in Venues :
       /\ Len(chain[v]) <= Len(chain'[v])
       /\ \A i \in DOMAIN chain[v] : chain'[v][i] = chain[v][i]
       /\ \A i \in DOMAIN chain'[v] : i > Len(chain[v]) => chain'[v][i].time >= now

LEMMA FineStays ==
  ASSUME ChainInv, Grows, NEW v \in Venues, NEW i \in DOMAIN chain[v], Fine(v, i)
  PROVE  Fine(v, i)'
<1>1. chain'[v][i] = chain[v][i]
  BY DEF Grows
<1>. QED  BY <1>1 DEF Fine, IsSwap, Grows

LEMMA KnownStays ==
  ASSUME ChainInv, Grows, NEW v \in Venues, NEW k \in Nat, NEW l \in Nat,
         k >= 1, l <= Len(chain[v]), Known(v, k, l)
  PROVE  Known(v, k, l)'
<1>1. \A i \in k .. l : i \in DOMAIN chain[v]
  BY ChainFacts
<1>2. ASSUME NEW i \in k .. l PROVE Fine(v, i)'
  BY <1>1, FineStays DEF Known
<1>. QED  BY <1>2 DEF Known

LEMMA FinalStays ==
  ASSUME ChainInv, ChainInv', Grows, NEW v \in Venues, NEW i \in Nat, Final(v, i)
  PROVE  Final(v, i)'
<1>1. /\ Len(chain[v]) \in Nat /\ DOMAIN chain[v] = 1 .. Len(chain[v]) /\ now \in Nat
      /\ \A j \in DOMAIN chain[v] : chain[v][j].time \in Int
  BY ChainFacts
<1>2. Len(chain'[v]) \in Nat /\ now' \in Nat
  BY ChainFactsNext
<1>3. i <= Len(chain'[v])
  BY <1>1, <1>2 DEF Final, Grows
<1>4. CASE i # 0
  <2>1. i \in DOMAIN chain[v] /\ chain[v][i].time < now
    BY <1>1, <1>4 DEF Final
  <2>2. chain'[v][i] = chain[v][i] /\ now <= now'
    BY <2>1 DEF Grows
  <2>3. chain'[v][i].time < now'
    BY <1>1, <1>2, <2>1, <2>2
  <2>. QED  BY <1>2, <1>3, <2>3 DEF Final
<1>. QED  BY <1>2, <1>3, <1>4 DEF Final

LEMMA UpToStays ==
  ASSUME ChainInv, ChainInv', Grows, NEW v \in Venues, NEW time \in Int, NEW i \in Nat,
         UpTo(v, time, i)
  PROVE  UpTo(v, time, i)'
<1>1. Len(chain[v]) \in Nat /\ DOMAIN chain[v] = 1 .. Len(chain[v]) /\ now \in Nat
  BY ChainFacts
<1>2. /\ Len(chain'[v]) \in Nat /\ DOMAIN chain'[v] = 1 .. Len(chain'[v]) /\ now' \in Nat
      /\ \A j \in DOMAIN chain'[v] : chain'[v][j].time \in Int
  BY ChainFactsNext
<1>3. time < now /\ now <= now'
  BY DEF UpTo, Grows
<1>4. ASSUME NEW j \in DOMAIN chain'[v], chain'[v][j].time <= time PROVE j <= i
  <2>1. ~ (chain'[v][j].time >= now)
    BY <1>1, <1>2, <1>3, <1>4
  <2>2. j \in DOMAIN chain[v] /\ chain'[v][j] = chain[v][j]
    BY <1>1, <1>2, <2>1 DEF Grows
  <2>. QED  BY <1>4, <2>2 DEF UpTo
<1>. QED  BY <1>1, <1>2, <1>3, <1>4 DEF UpTo

LEMMA InitializedStays ==
  ASSUME ChainInv, Grows, NEW v \in Venues, NEW head \in Nat, NEW at \in Nat,
         Final(v, head), Initialized(v, head, at)
  PROVE  Initialized(v, head, at)'
<1>1. 1 \in DOMAIN chain[v]
  BY ChainFacts DEF Final, Initialized
<1>2. Fine(v, 1)'
  BY <1>1, FineStays DEF Initialized
<1>. QED  BY <1>2 DEF Initialized

LEMMA RowStays ==
  ASSUME ChainInv, ChainInv', Grows, NEW v \in Venues, NEW row \in Cursor, RowInv(v, row)
  PROVE  RowInv(v, row)'
<1>1. /\ row.cursor \in Nat /\ row.before \in Nat /\ row.head \in Nat
      /\ row.started \in Int /\ row.through \in Int
  BY TimesAreInts DEF Cursor
<1>2. Len(chain[v]) \in Nat /\ Len(chain'[v]) \in Nat /\ Len(chain[v]) <= Len(chain'[v])
  BY ChainFacts, ChainFactsNext DEF Grows
<1>3. Final(v, row.cursor)' /\ Final(v, row.head)'
  BY <1>1, FinalStays DEF RowInv
<1>4. Known(v, 1, row.cursor)'
  <2>1. row.cursor <= Len(chain[v]) /\ Known(v, 1, row.cursor)
    BY <1>2 DEF RowInv, Final
  <2>. QED  BY <1>1, <2>1, KnownStays
<1>5. (row.through # NoTime => UpTo(v, row.through, row.cursor))'
  BY <1>1, UpToStays DEF RowInv
<1>6. (row.started # NoTime => row.started < now)'
  <2>1. now \in Nat /\ now' \in Nat /\ now <= now'
    BY ChainFacts, ChainFactsNext DEF Grows
  <2>. QED  BY <1>1, <2>1 DEF RowInv
<1>7. (row.head # 0 => row.started # NoTime /\ UpTo(v, row.started, row.head))'
  BY <1>1, UpToStays DEF RowInv
<1>8. (row.before \in 0 .. Len(chain[v]))'
  BY <1>1, <1>2 DEF RowInv
<1>9. (row.before # 0 => row.head # 0 /\ Known(v, row.before, row.head))'
  <2>1. row.head <= Len(chain[v])
    BY <1>2 DEF RowInv, Final
  <2>2. row.before # 0 => row.head # 0 /\ Known(v, row.before, row.head) /\ row.before >= 1
    BY <1>1 DEF RowInv
  <2>. QED  BY <1>1, <2>1, <2>2, KnownStays
<1>10. (v = "damm" /\ row.start # NoTime /\ row.cursor = 0 => Initialized(v, row.head, row.before))'
  BY <1>1, InitializedStays DEF RowInv
<1>. QED  BY <1>3, <1>4, <1>5, <1>6, <1>7, <1>8, <1>9, <1>10 DEF RowInv

LEMMA SaveStays ==
  ASSUME ChainInv, ChainInv', Grows, NEW v \in Venues, NEW job \in Job, SaveInv(v, job)
  PROVE  SaveInv(v, job)'
<1>1. job.at \in Nat /\ job.head \in Nat /\ job.started \in Int
  BY TimesAreInts DEF Job
<1>2. Len(chain[v]) \in Nat /\ Len(chain'[v]) \in Nat /\ Len(chain[v]) <= Len(chain'[v])
  BY ChainFacts, ChainFactsNext DEF Grows
<1>3. Final(v, job.head)'
  BY <1>1, FinalStays DEF SaveInv
<1>4. UpTo(v, job.started, job.head)'
  BY <1>1, UpToStays DEF SaveInv
<1>5. (job.at \in 0 .. Len(chain[v]))'
  BY <1>1, <1>2 DEF SaveInv
<1>6. (job.at # 0 => job.head # 0 /\ Known(v, job.at, job.head))'
  <2>1. job.head <= Len(chain[v])
    BY <1>2 DEF SaveInv, Final
  <2>2. job.at # 0 => job.head # 0 /\ Known(v, job.at, job.head) /\ job.at >= 1
    BY <1>1 DEF SaveInv
  <2>. QED  BY <1>1, <2>1, <2>2, KnownStays
<1>7. (v = "damm" /\ job.creation # NoTime /\ job.previous.cursor = 0 =>
         Initialized(v, job.head, job.at))'
  BY <1>1, InitializedStays DEF SaveInv
<1>. QED  BY <1>3, <1>4, <1>5, <1>6, <1>7 DEF SaveInv

LEMMA PageStays ==
  ASSUME ChainInv, ChainInv', Grows, NEW v \in Venues, NEW job \in Job,
         SaveInv(v, job), ScanInv(v, job)
  PROVE  ScanInv(v, job)'
<1>1. job.at \in Nat /\ job.head \in Nat /\ job.next \in Nat /\ job.last \in Nat
  BY DEF Job
<1>2. Len(chain[v]) \in Nat /\ Len(chain'[v]) \in Nat /\ Len(chain[v]) <= Len(chain'[v])
  BY ChainFacts, ChainFactsNext DEF Grows
<1>3. (job.last >= 1 /\ job.last <= job.next + 1 /\ job.next <= Len(chain[v]))'
  BY <1>1, <1>2 DEF ScanInv
<1>4. Known(v, job.next + 1, job.head)'
  <2>1. job.head <= Len(chain[v])
    BY <1>2 DEF SaveInv, Final
  <2>2. Known(v, job.next + 1, job.head) /\ job.next + 1 >= 1 /\ job.next + 1 \in Nat
    BY <1>1 DEF ScanInv
  <2>. QED  BY <1>1, <2>1, <2>2, KnownStays
<1>5. (job.complete => job.head # 0 /\ Known(v, 1, job.last - 1))'
  <2>1. job.last - 1 \in Nat /\ job.last - 1 <= Len(chain[v])
    BY <1>1, <1>2 DEF ScanInv
  <2>. QED  BY <2>1, KnownStays DEF ScanInv
<1>. QED  BY <1>3, <1>4, <1>5 DEF ScanInv

LEMMA JobStays ==
  ASSUME ChainInv, ChainInv', Grows, NEW job \in Job, JobInv(job),
         \A v \in Venues : index[v].cursor # 0 => index'[v].cursor # 0
  PROVE  JobInv(job)'
<1>1. /\ job.venue \in Venues /\ job.previous \in Cursor /\ job.started \in Int
  BY TimesAreInts DEF Job
<1>2. now \in Nat /\ now' \in Nat /\ now <= now'
  <2>1. "dbc" \in Venues
    BY DEF Venues
  <2>. QED  BY <2>1, ChainFacts, ChainFactsNext DEF Grows
<1>3. RowInv(job.venue, job.previous) => RowInv(job.venue, job.previous)'
  BY <1>1, RowStays
<1>4. SaveInv(job.venue, job) => SaveInv(job.venue, job)'
  BY <1>1, SaveStays
<1>5. SaveInv(job.venue, job) /\ ScanInv(job.venue, job) => ScanInv(job.venue, job)'
  BY <1>1, PageStays
<1>6. job.started < now => job.started < now'
  BY <1>1, <1>2
<1>. QED  BY <1>1, <1>3, <1>4, <1>5, <1>6 DEF JobInv

-----------------------------------------------------------------------------
(* The runs take one step at a time *)

\* A step that moves the run w to the job, or no run at all.
Moves(w, job) == worker' = [worker EXCEPT ![w] = job]

KeepsCursors == \A v \in Venues : index[v].cursor # 0 => index'[v].cursor # 0

LEMMA StepKeepsInv ==
  ASSUME IndexerInv, ChainInv', Grows, index' \in [Venues -> Cursor], KeepsCursors,
         \A v \in Venues : RowInv(v, index[v])',
         NEW job \in Job, JobInv(job)',
         (worker' = worker) \/ \E w \in Workers : Moves(w, job)
  PROVE  IndexerInv'
<1>1. worker' \in [Workers -> Job]
  BY DEF IndexerInv, Moves
<1>2. ASSUME NEW w \in Workers PROVE JobInv(worker[w])'
  <2>1. PICK j \in Job : j = worker[w]
    BY DEF IndexerInv
  <2>2. JobInv(j)
    BY <2>1 DEF IndexerInv
  <2>3. JobInv(j)'
    BY <2>2, JobStays DEF IndexerInv, KeepsCursors
  <2>4. worker'[w] = j \/ worker'[w] = job
    BY <2>1 DEF IndexerInv, Moves
  <2>. QED  BY <2>3, <2>4 DEF JobInv
<1>. QED  BY <1>1, <1>2 DEF IndexerInv

LEMMA SameHistory ==
  ASSUME IndexerInv, UNCHANGED <<now, chain, stored>>
  PROVE  ChainInv' /\ Grows
<1>1. ChainInv'
  BY DEF IndexerInv, ChainInv
<1>2. ASSUME NEW v \in Venues
      PROVE  /\ Len(chain[v]) \in Nat /\ now \in Nat /\ DOMAIN chain[v] = 1 .. Len(chain[v])
  BY ChainFacts DEF IndexerInv
<1>3. "dbc" \in Venues
  BY DEF Venues
<1>. QED  BY <1>1, <1>2, <1>3 DEF Grows

\* The rows of the index when they are not written.
LEMMA SameIndex ==
  ASSUME IndexerInv, ChainInv', Grows, UNCHANGED index
  PROVE  /\ index' \in [Venues -> Cursor] /\ KeepsCursors
         /\ \A v \in Venues : RowInv(v, index[v])'
<1>1. index' \in [Venues -> Cursor] /\ KeepsCursors
  BY DEF IndexerInv, KeepsCursors
<1>2. ASSUME NEW v \in Venues PROVE RowInv(v, index[v])'
  <2>1. PICK row \in Cursor : row = index[v]
    BY DEF IndexerInv
  <2>2. RowInv(v, row)'
    BY <2>1, RowStays DEF IndexerInv
  <2>. QED  BY <2>1, <2>2 DEF RowInv
<1>. QED  BY <1>1, <1>2

\* A row that is written with a promise that holds.
LEMMA RowIsSaved ==
  ASSUME IndexerInv, UNCHANGED <<now, chain, stored>>, NEW v \in Venues, NEW row \in Cursor,
         RowInv(v, row), index[v].cursor # 0 => row.cursor # 0,
         index' = [index EXCEPT ![v] = row]
  PROVE  /\ index' \in [Venues -> Cursor] /\ KeepsCursors
         /\ \A u \in Venues : RowInv(u, index[u])'
<1>1. ChainInv' /\ Grows
  BY SameHistory
<1>2. index' \in [Venues -> Cursor] /\ KeepsCursors
  BY DEF IndexerInv, KeepsCursors
<1>3. ASSUME NEW u \in Venues PROVE RowInv(u, index[u])'
  <2>1. PICK r \in Cursor : r = IF u = v THEN row ELSE index[u]
    BY DEF IndexerInv
  <2>2. RowInv(u, r)
    BY <2>1 DEF IndexerInv
  <2>3. RowInv(u, r)'
    BY <1>1, <2>2, RowStays DEF IndexerInv
  <2>4. index'[u] = r
    BY <2>1 DEF IndexerInv
  <2>. QED  BY <2>3, <2>4 DEF RowInv
<1>. QED  BY <1>2, <1>3

LEMMA IdleJobs ==
  /\ NoJob \in Job /\ \A v \in Venues : Reading(v) \in Job
  /\ JobInv(NoJob) /\ \A v \in Venues : JobInv(Reading(v))
  /\ NoCursor \in Cursor
<1>1. NoCursor \in Cursor
  BY TimesAreInts DEF NoCursor, Cursor
<1>2. NoJob \in Job /\ \A v \in Venues : Reading(v) \in Job
  BY <1>1 DEF NoJob, Reading, Job, Steps, Venues
<1>3. JobInv(NoJob) /\ \A v \in Venues : JobInv(Reading(v))
  BY DEF NoJob, Reading, JobInv
<1>. QED  BY <1>1, <1>2, <1>3

\* Steps that only move a run, to a job that keeps its promises.
LEMMA MoveKeepsInv ==
  ASSUME IndexerInv, UNCHANGED <<now, chain, stored, index>>, NEW w \in Workers,
         NEW job \in Job, JobInv(job), Moves(w, job)
  PROVE  IndexerInv'
<1>1. ChainInv' /\ Grows
  BY SameHistory
<1>2. /\ index' \in [Venues -> Cursor] /\ KeepsCursors
      /\ \A v \in Venues : RowInv(v, index[v])'
  BY <1>1, SameIndex
<1>3. JobInv(job)'
  BY <1>1, <1>2, JobStays DEF KeepsCursors, IndexerInv
<1>. QED  BY <1>1, <1>2, <1>3, StepKeepsInv

\* Steps that move no run and write no row.
LEMMA GrowthKeepsInv ==
  ASSUME IndexerInv, ChainInv', Grows, UNCHANGED <<index, worker>>
  PROVE  IndexerInv'
<1>1. /\ index' \in [Venues -> Cursor] /\ KeepsCursors
      /\ \A v \in Venues : RowInv(v, index[v])'
  BY SameIndex
<1>2. NoJob \in Job /\ JobInv(NoJob)'
  BY IdleJobs DEF NoJob, JobInv
<1>. QED  BY <1>1, <1>2, StepKeepsInv

LEMMA SaveKeepsInv ==
  ASSUME IndexerInv, UNCHANGED <<now, chain, stored>>, NEW v \in Venues, NEW row \in Cursor,
         RowInv(v, row), index[v].cursor # 0 => row.cursor # 0,
         index' = [index EXCEPT ![v] = row],
         NEW w \in Workers, NEW job \in Job, JobInv(job), Moves(w, job)
  PROVE  IndexerInv'
<1>1. ChainInv' /\ Grows
  BY SameHistory
<1>2. /\ index' \in [Venues -> Cursor] /\ KeepsCursors
      /\ \A u \in Venues : RowInv(u, index[u])'
  BY RowIsSaved
<1>3. JobInv(job)'
  BY <1>1, <1>2, JobStays DEF KeepsCursors, IndexerInv
<1>. QED  BY <1>1, <1>2, <1>3, StepKeepsInv

-----------------------------------------------------------------------------
(* The steps of a run *)

LEMMA ReadKeepsInv ==
  ASSUME IndexerInv, NEW w \in Workers, ReadCursor(w)
  PROVE  IndexerInv'
<1>1. PICK job \in Job : job = worker[w]
  BY DEF IndexerInv
<1>2. job.venue \in Venues
  BY DEF Job
<1>3. PICK row \in Cursor : row = index[job.venue]
  BY <1>2 DEF IndexerInv
<1>4. RowInv(job.venue, row)
  BY <1>2, <1>3 DEF IndexerInv
<1>5. root \in Time /\ root = now - 1 /\ now \in Nat
  BY <1>2, ChainFacts DEF IndexerInv
<1>6. PICK begun \in Time \cup {NoTime} :
        begun = IF row.started # NoTime THEN row.started ELSE root
  BY <1>5 DEF Cursor
<1>7. begun # NoTime /\ begun < now
  BY <1>4, <1>5, <1>6, TimesAreInts DEF RowInv
<1>8. PICK new \in Job :
        /\ new = [job EXCEPT !.step = "list", !.previous = row, !.at = row.before,
                             !.creation = row.start, !.started = begun]
        /\ new.step = "list" /\ new.previous = row /\ new.at = row.before
        /\ new.creation = row.start /\ new.started = begun /\ new.venue = job.venue
  <2>. DEFINE nw == [job EXCEPT !.step = "list", !.previous = row, !.at = row.before,
                                !.creation = row.start, !.started = begun]
  <2>1. nw \in Job
    BY DEF Job, Cursor, Steps
  <2>2. /\ nw.step = "list" /\ nw.previous = row /\ nw.at = row.before
        /\ nw.creation = row.start /\ nw.started = begun /\ nw.venue = job.venue
    BY DEF Job
  <2>. QED  BY <2>1, <2>2
<1>9. JobInv(new)
  BY <1>3, <1>4, <1>6, <1>7, <1>8 DEF JobInv
<1>10. Moves(w, new)
  BY <1>1, <1>3, <1>6, <1>8 DEF ReadCursor, Moves
<1>. QED  BY <1>9, <1>10, MoveKeepsInv DEF ReadCursor

LEMMA ListKeepsInv ==
  ASSUME IndexerInv, NEW w \in Workers, ListPage(w)
  PROVE  IndexerInv'
<1>1. PICK job \in Job : job = worker[w]
  BY DEF IndexerInv
<1>2. PICK v \in Venues : v = job.venue
  BY DEF Job
<1>3. PICK prev \in Cursor : prev = job.previous
  BY DEF Job
<1>4. /\ prev.cursor \in Nat /\ prev.before \in Nat /\ prev.head \in Nat
      /\ prev.started \in Int /\ job.started \in Int
  BY <1>3, TimesAreInts DEF Cursor, Job
<1>5. ChainInv /\ JobInv(job) /\ job.step = "list"
  BY <1>1 DEF IndexerInv, ListPage
<1>6. /\ RowInv(v, prev) /\ job.at = prev.before /\ job.creation = prev.start
      /\ prev.cursor # 0 => index[v].cursor # 0
      /\ job.started # NoTime /\ job.started < now
      /\ prev.started # NoTime => job.started = prev.started
  BY <1>2, <1>3, <1>5 DEF JobInv
<1>7. PICK n \in Nat : n = Len(chain[v]) /\ DOMAIN chain[v] = 1 .. n
  BY <1>5, ChainFacts
<1>8. now \in Nat /\ root = now - 1 /\ root \in Int /\ \A i \in 1 .. n : chain[v][i].time \in Int
  BY <1>5, <1>7, ChainFacts
<1>9. PICK f \in 0 .. n : f = Finalized(v)
  BY <1>5, <1>7, FinalizedPrefix
<1>10. \A i \in 1 .. n : i <= f <=> chain[v][i].time <= root
  BY <1>5, <1>7, <1>9, FinalizedPrefix
<1>11. PICK top \in 0 .. n : top = Top(v, prev.before)
  BY <1>4, <1>6, <1>7, <1>9 DEF Top, RowInv
<1>12. PageSize \in Nat /\ PageSize >= Concurrency /\ Concurrency \in Nat /\ Concurrency >= 1
  BY HistoryAssumption
<1>13. PICK bottom \in 1 .. top + 1 :
         /\ bottom = Bottom(top) /\ (top - PageSize + 1 <= 1 => bottom = 1)
         /\ (top = 0 => bottom = 1)
         /\ (top >= 1 => bottom <= top)
  <2>1. 1 \in Int /\ top - PageSize + 1 \in Int
    BY <1>12
  <2>2. PICK l \in {1, top - PageSize + 1} :
          l = Max({1, top - PageSize + 1}) /\ l >= 1 /\ l >= top - PageSize + 1
    BY <2>1, MaxOfTwo
  <2>. QED  BY <1>12, <2>2 DEF Bottom
<1>14. PICK boundary \in BOOLEAN :
         boundary <=> prev.cursor # 0 /\ prev.cursor \in bottom .. top
  OBVIOUS
<1>15. PICK last \in 1 .. top + 1 :
         last = IF boundary THEN prev.cursor + 1 ELSE bottom
  BY <1>4, <1>14
<1>16. PICK launch \in BOOLEAN : launch = ReachesLaunch(job, bottom, top)
  BY DEF ReachesLaunch
<1>17. PICK head \in Nat :
         head = IF prev.head # 0 THEN prev.head
                ELSE IF top >= bottom THEN top ELSE prev.cursor
  BY <1>4
<1>18. PICK short \in BOOLEAN : short = (top - bottom + 1 < PageSize)
  <2>1. (top - bottom + 1 < PageSize) \in BOOLEAN
    BY <1>12
  <2>. QED  BY <2>1, Zenon
<1>19. PICK new \in Job :
         /\ new = [job EXCEPT !.step = IF last > top THEN "finish" ELSE "scan",
                     !.next = top, !.last = last, !.short = short,
                     !.complete = boundary \/ launch, !.head = head]
         /\ new.step = (IF last > top THEN "finish" ELSE "scan") /\ new.venue = v
         /\ new.next = top /\ new.last = last /\ (new.complete <=> boundary \/ launch)
         /\ new.head = head /\ new.previous = prev /\ new.at = prev.before
         /\ new.creation = prev.start /\ new.started = job.started
  <2>. DEFINE nw == [job EXCEPT !.step = IF last > top THEN "finish" ELSE "scan",
                       !.next = top, !.last = last, !.short = short,
                       !.complete = boundary \/ launch, !.head = head]
  <2>1. top \in Nat /\ last \in Nat
    OBVIOUS
  <2>2. PICK step \in {"finish", "scan"} : step = IF last > top THEN "finish" ELSE "scan"
    OBVIOUS
  <2>3. PICK complete \in BOOLEAN : complete = (boundary \/ launch)
    OBVIOUS
  <2>4. nw = [job EXCEPT !.step = step, !.next = top, !.last = last, !.short = short,
                !.complete = complete, !.head = head]
    BY <2>2, <2>3
  <2>5. nw \in Job
    BY <2>1, <2>4 DEF Job, Steps
  <2>6. /\ nw.step = step /\ nw.venue = v /\ nw.next = top /\ nw.last = last
        /\ nw.complete = complete /\ nw.head = head /\ nw.previous = prev
        /\ nw.at = prev.before /\ nw.creation = prev.start /\ nw.started = job.started
    BY <1>2, <1>3, <1>6, <2>4 DEF Job
  <2>. HIDE DEF nw
  <2>7. nw.complete <=> boundary \/ launch
    BY <2>3, <2>6, Zenon
  <2>. QED  BY <2>2, <2>5, <2>6, <2>7 DEF nw
\* What is final is below the page that starts at the newest.
<1>20. prev.before # 0 => prev.head # 0 /\ top = prev.before - 1
  BY <1>4, <1>6, <1>11 DEF RowInv, Top
<1>21. prev.before = 0 => top = f
  BY <1>9, <1>11 DEF Top
<1>22. \A i \in Nat : Final(v, i) => i <= f
  BY <1>7, <1>8, <1>10 DEF Final
<1>23. Final(v, prev.head) /\ Final(v, prev.cursor)
  BY <1>6 DEF RowInv
<1>24. top >= bottom => head # 0
  BY <1>17
<1>25. prev.head = 0 => head = f /\ top = f
  BY <1>4, <1>13, <1>17, <1>20, <1>21, <1>22, <1>23
<1>26. SaveInv(v, new)
  <2>1. CASE prev.head # 0
    <3>1. head = prev.head
      BY <2>1, <1>17
    <3>2. prev.started # NoTime /\ UpTo(v, prev.started, head)
      BY <2>1, <3>1, <1>6 DEF RowInv
    <3>3. job.started = prev.started
      BY <3>2, <1>6
    <3>. QED  BY <3>1, <3>2, <3>3, <1>6, <1>19, <1>23 DEF SaveInv, RowInv
  <2>2. CASE prev.head = 0
    <3>1. head = f /\ prev.before = 0
      BY <2>2, <1>20, <1>25
    <3>2. Final(v, head)
      BY <3>1, <1>7, <1>8, <1>10 DEF Final
    <3>3. UpTo(v, job.started, head)
      BY <3>1, <1>4, <1>6, <1>7, <1>8, <1>10 DEF UpTo
    <3>4. ~ (v = "damm" /\ prev.start # NoTime /\ prev.cursor = 0)
      BY <2>2, <1>6 DEF RowInv, Initialized
    <3>. QED  BY <3>1, <3>2, <3>3, <3>4, <1>7, <1>19 DEF SaveInv
  <2>. QED  BY <2>1, <2>2
<1>27. ScanInv(v, new)
  <2>1. last >= 1 /\ last <= top + 1 /\ top <= Len(chain[v])
    BY <1>7
  <2>2. prev.before = top + 1 \/ (prev.before = 0 /\ head <= top)
    BY <1>4, <1>9, <1>17, <1>20, <1>21, <1>22, <1>23, <1>25
  <2>3. Known(v, top + 1, head)
    <3>1. CASE prev.before # 0
      BY <3>1, <1>4, <1>6, <1>17, <1>20 DEF RowInv
    <3>2. CASE prev.before = 0
      BY <3>2, <2>2 DEF Known
    <3>. QED  BY <3>1, <3>2
  <2>4. last <= top => head # 0
    BY <1>13, <1>24
  <2>5. boundary \/ launch => head # 0 /\ Known(v, 1, last - 1)
    <3>1. CASE boundary
      <4>1. last - 1 = prev.cursor /\ top >= bottom
        BY <3>1, <1>4, <1>14, <1>15
      <4>. QED  BY <4>1, <1>6, <1>24 DEF RowInv
    <3>2. CASE launch /\ ~boundary
      <4>1. bottom = 1 /\ top >= bottom /\ last = 1
        BY <3>2, <1>15, <1>16 DEF ReachesLaunch
      <4>. QED  BY <4>1, <1>24 DEF Known
    <3>. QED  BY <3>1, <3>2
  <2>6. v = "damm" /\ prev.start # NoTime /\ prev.cursor = 0 =>
          head <= Concurrency \/ last = 1
    <3>1. SUFFICES ASSUME v = "damm", prev.start # NoTime, prev.cursor = 0, ~ (head <= Concurrency)
                   PROVE  last = 1
      OBVIOUS
    <3>2. Initialized(v, prev.head, prev.before)
      BY <3>1, <1>6 DEF RowInv
    <3>3. prev.before \in 1 .. Concurrency + 1
      BY <3>1, <3>2, <1>17 DEF Initialized
    <3>4. top <= Concurrency
      BY <3>3, <1>12, <1>20
    <3>5. bottom = 1
      BY <3>4, <1>12, <1>13
    <3>. QED  BY <3>1, <3>5, <1>14, <1>15
  <2>7. v = "damm" /\ prev.cursor = 0 /\ OnePage => last = 1
    <3>1. SUFFICES ASSUME v = "damm", prev.cursor = 0, OnePage PROVE last = 1
      OBVIOUS
    <3>2. MaxTx["damm"] \in Nat /\ n <= MaxTx["damm"]
      BY <3>1, <1>5, <1>7, HistoryAssumption DEF ChainInv
    <3>3. top <= PageSize
      BY <3>1, <3>2, <1>12 DEF OnePage
    <3>. QED  BY <3>1, <3>3, <1>12, <1>13, <1>14, <1>15
  <2>. QED  BY <2>1, <2>2, <2>3, <2>4, <2>5, <2>6, <2>7, <1>19 DEF ScanInv
<1>28. JobInv(new)
  <2>1. last > top => last = top + 1
    OBVIOUS
  <2>2. ~ (last > top) => last <= top
    OBVIOUS
  <2>3. /\ new.step = "finish" => new.last = new.next + 1
        /\ new.step = "scan" => new.last <= new.next
        /\ new.step \in {"finish", "scan"}
    BY <2>1, <2>2, <1>19
  <2>4. /\ RowInv(v, new.previous) /\ (new.previous.cursor # 0 => index[v].cursor # 0)
        /\ new.started # NoTime /\ new.started < now /\ new.venue = v
        /\ (new.previous.started # NoTime => new.started = new.previous.started)
    BY <1>6, <1>19
  <2>. QED  BY <2>3, <2>4, <1>26, <1>27 DEF JobInv
<1>29. Moves(w, new)
  <2>1. new = [worker[w] EXCEPT !.step = IF last > top THEN "finish" ELSE "scan",
                 !.next = top, !.last = last, !.short = top - bottom + 1 < PageSize,
                 !.complete = boundary \/ ReachesLaunch(job, bottom, top), !.head = head]
    BY <1>1, <1>16, <1>18, <1>19, Zenon
  <2>. QED  BY <2>1, <1>1, <1>2, <1>3, <1>11, <1>13, <1>14, <1>15, <1>17 DEF ListPage, Moves
<1>. QED  BY <1>28, <1>29, MoveKeepsInv DEF ListPage

LEMMA RowsOfSwaps ==
  ASSUME NEW v \in Venues, NEW is, NEW i \in is, IsSwap(<<v, i>>)
  PROVE  <<v, i>> \in Rows(v, is)
<1>1. CASE v = "dbc"
  BY <1>1 DEF Rows, CurveRows
<1>2. CASE v = "damm"
  BY <1>2 DEF Rows, GraduatedRows
<1>. QED  BY <1>1, <1>2 DEF Venues

LEMMA VisitKeepsInv ==
  ASSUME IndexerInv, NEW w \in Workers, VisitBatch(w)
  PROVE  IndexerInv'
<1>1. PICK job \in Job : job = worker[w]
  BY DEF IndexerInv
<1>2. PICK v \in Venues : v = job.venue
  BY DEF Job
<1>3. /\ job.next \in Nat /\ job.last \in Nat /\ job.head \in Nat /\ job.at \in Nat
      /\ Concurrency \in Nat /\ Concurrency >= 1
  BY HistoryAssumption DEF Job
<1>4. ChainInv /\ JobInv(job) /\ job.step = "scan"
  BY <1>1 DEF IndexerInv, VisitBatch
<1>5. /\ RowInv(v, job.previous) /\ SaveInv(v, job) /\ ScanInv(v, job) /\ job.last <= job.next
      /\ job.previous.cursor # 0 => index[v].cursor # 0
      /\ job.started # NoTime /\ job.started < now
      /\ job.previous.started # NoTime => job.started = job.previous.started
  BY <1>2, <1>4 DEF JobInv
<1>6. PICK n \in Nat : n = Len(chain[v]) /\ DOMAIN chain[v] = 1 .. n /\ job.next <= n
                       /\ \A i \in 1 .. n : chain[v][i].time \in Time
  BY <1>4, <1>5, ChainFacts DEF ScanInv
<1>7. job.last >= 1
  BY <1>5 DEF ScanInv
<1>8. PICK l \in job.last .. job.next :
        /\ Batch(job) = l .. job.next /\ Min(Batch(job)) = l
        /\ l <= 1 => job.next <= Concurrency
  BY <1>5, <1>7, BatchIsInterval
<1>9. l \in Nat /\ l >= 1 /\ l <= job.next /\ l - 1 \in Nat
  BY <1>3, <1>7
<1>10. PICK visited \in SUBSET Batch(worker[w]), ok \in SUBSET Batch(worker[w]) :
         LET batch  == Batch(worker[w])
             passed == Passed(batch, ok)
             ends   == worker[w].previous.cursor = 0 /\ \E i \in passed : Initializes(worker[w], i) IN
         /\ ok \subseteq visited
         /\ stored' = stored \cup Rows(worker[w].venue, visited)
         /\ worker' = [worker EXCEPT ![w] =
              [worker[w] EXCEPT
                        !.step = "checkpoint",
                        !.at = IF passed = {} THEN worker[w].at ELSE Min(passed),
                        !.creation = IF \E i \in ok : Initializes(worker[w], i)
                                     THEN chain[worker[w].venue][1].time ELSE worker[w].creation,
                        !.next = Min(batch) - 1,
                        !.then = IF passed # batch THEN "leave"
                                 ELSE IF ends \/ Min(batch) = worker[w].last THEN "finish" ELSE "scan"]]
  BY Zenon DEF VisitBatch
<1>11. /\ visited \in SUBSET (l .. job.next) /\ ok \in SUBSET (l .. job.next) /\ ok \subseteq visited
       /\ stored' = stored \cup Rows(v, visited)
  BY <1>1, <1>2, <1>8, <1>10
<1>12. PICK passed : passed = Passed(Batch(worker[w]), ok)
  OBVIOUS
<1>13. PICK at : at = IF passed = {} THEN worker[w].at ELSE Min(passed)
  OBVIOUS
<1>14. PICK creation : creation = IF \E i \in ok : Initializes(worker[w], i)
                                  THEN chain[worker[w].venue][1].time ELSE worker[w].creation
  OBVIOUS
<1>15. PICK then : then = IF passed # Batch(worker[w]) THEN "leave"
                          ELSE IF \/ worker[w].previous.cursor = 0 /\ \E i \in passed : Initializes(worker[w], i)
                                  \/ Min(Batch(worker[w])) = worker[w].last THEN "finish" ELSE "scan"
  OBVIOUS
<1>16. worker' = [worker EXCEPT ![w] = [worker[w] EXCEPT
                    !.step = "checkpoint", !.at = at, !.creation = creation,
                    !.next = Min(Batch(worker[w])) - 1, !.then = then]]
  BY <1>10, <1>12, <1>13, <1>14, <1>15, Zenon
<1>17. PICK k \in l .. job.next + 1 :
         /\ passed = k .. job.next /\ k .. job.next \subseteq ok
         /\ k <= job.next => Min(passed) = k
  BY <1>1, <1>3, <1>8, <1>9, <1>11, <1>12, PassedIsInterval
<1>18. k \in Nat /\ k >= l /\ k <= job.next + 1
  BY <1>3, <1>9
<1>19. /\ (k .. job.next = {}) <=> k = job.next + 1
       /\ (k .. job.next = l .. job.next) <=> k = l
  <2>1. k # job.next + 1 => k \in k .. job.next
    BY <1>3, <1>18
  <2>2. l \in l .. job.next /\ (k # l => l \notin k .. job.next)
    BY <1>3, <1>9, <1>18
  <2>3. k = job.next + 1 => k .. job.next = {}
    BY <1>3, <1>18
  <2>. QED  BY <2>1, <2>2, <2>3
<1>20. at \in Nat
  BY <1>1, <1>3, <1>17, <1>18, <1>19, <1>13
<1>21. at = (IF k = job.next + 1 THEN job.at ELSE k)
  BY <1>1, <1>3, <1>17, <1>18, <1>19, <1>13
<1>22. (\E i \in ok : Initializes(job, i)) <=> v = "damm" /\ 1 \in ok
  BY <1>2 DEF Initializes
<1>23. /\ creation \in Time \cup {NoTime}
       /\ ~ (v = "damm" /\ 1 \in ok) => creation = job.creation
  <2>1. 1 \in ok => 1 \in 1 .. n
    BY <1>3, <1>6, <1>9, <1>11
  <2>2. creation = IF v = "damm" /\ 1 \in ok THEN chain[v][1].time ELSE job.creation
    BY <1>1, <1>2, <1>22, <1>14
  <2>. QED  BY <2>1, <2>2, <1>6 DEF Job
\* The scan passes the initialization only in the last batch of the page.
<1>24. job.previous.cursor = 0 /\ (\E i \in k .. job.next : Initializes(job, i)) =>
         l = job.last
  <2>1. ASSUME NEW i \in k .. job.next, Initializes(job, i) PROVE l = 1
    BY <2>1, <1>3, <1>9, <1>18 DEF Initializes
  <2>. QED  BY <2>1, <1>3, <1>7, <1>9
<1>25. then \in {"leave", "scan", "finish"}
  BY <1>15
<1>26. /\ then # "leave" => k = l
       /\ then = "finish" => l = job.last
       /\ then = "scan" => l # job.last
  <2>1. passed # l .. job.next => then = "leave"
    BY <1>1, <1>8, <1>15
  <2>2. passed = l .. job.next =>
          then = IF \/ job.previous.cursor = 0 /\ \E i \in k .. job.next : Initializes(job, i)
                    \/ l = job.last THEN "finish" ELSE "scan"
    BY <1>1, <1>8, <1>17, <1>15
  <2>. QED  BY <2>1, <2>2, <1>17, <1>19, <1>24
<1>27. PICK new \in Job :
         /\ new = [job EXCEPT !.step = "checkpoint", !.at = at, !.creation = creation,
                              !.next = l - 1, !.then = then]
         /\ new.step = "checkpoint" /\ new.at = at /\ new.creation = creation
         /\ new.next = l - 1 /\ new.then = then /\ new.venue = v /\ new.head = job.head
         /\ new.previous = job.previous /\ new.started = job.started /\ new.last = job.last
         /\ new.complete = job.complete
  <2>. DEFINE nw == [job EXCEPT !.step = "checkpoint", !.at = at, !.creation = creation,
                                !.next = l - 1, !.then = then]
  <2>1. nw \in Job
    BY <1>9, <1>20, <1>23, <1>25 DEF Job, Steps
  <2>2. /\ nw.step = "checkpoint" /\ nw.at = at /\ nw.creation = creation
        /\ nw.next = l - 1 /\ nw.then = then /\ nw.venue = v /\ nw.head = job.head
        /\ nw.previous = job.previous /\ nw.started = job.started /\ nw.last = job.last
        /\ nw.complete = job.complete
    BY <1>2 DEF Job
  <2>. QED  BY <2>1, <2>2
<1>28. Moves(w, new)
  BY <1>1, <1>8, <1>27, <1>16 DEF Moves
<1>29. ChainInv' /\ Grows
  <2>1. ChainInv' /\ UNCHANGED <<now, chain>>
    BY <1>4 DEF VisitBatch, ChainInv
  <2>2. ASSUME NEW u \in Venues
        PROVE  Len(chain[u]) \in Nat /\ now \in Nat /\ DOMAIN chain[u] = 1 .. Len(chain[u])
    BY <1>4, ChainFacts
  <2>3. stored \subseteq stored'
    BY <1>11
  <2>. QED  BY <2>1, <2>2, <2>3 DEF Grows
<1>30. chain' = chain /\ now' = now /\ index' = index
  BY DEF VisitBatch
<1>31. /\ index' \in [Venues -> Cursor] /\ KeepsCursors
       /\ \A u \in Venues : RowInv(u, index[u])'
  BY <1>29, <1>30, SameIndex
\* What was known is known, and now also what was passed.
<1>32. /\ RowInv(v, job.previous)' /\ SaveInv(v, job)' /\ ScanInv(v, job)'
  BY <1>4, <1>5, <1>29, RowStays, SaveStays, PageStays DEF Job
<1>33. ASSUME NEW i \in ok PROVE Fine(v, i)'
  <2>1. i \in visited
    BY <1>11
  <2>2. IsSwap(<<v, i>>) => <<v, i>> \in stored'
    BY <2>1, <1>11, RowsOfSwaps
  <2>. QED  BY <2>2, <1>30 DEF Fine, IsSwap
<1>34. Known(v, job.next + 1, job.head)'
  BY <1>32 DEF ScanInv
<1>35. Known(v, k, job.head)'
  <2>1. ASSUME NEW i \in k .. job.head PROVE Fine(v, i)'
    <3>1. i \in k .. job.next \/ i \in job.next + 1 .. job.head
      BY <1>3, <1>18
    <3>. QED  BY <3>1, <1>17, <1>33, <1>34 DEF Known
  <2>. QED  BY <2>1 DEF Known
<1>36. job.head # 0 /\ (job.at = job.next + 1 \/ (job.at = 0 /\ job.head <= job.next))
  BY <1>5 DEF ScanInv
<1>37. creation # NoTime /\ v = "damm" /\ job.previous.cursor = 0 =>
         Initialized(v, job.head, at)' /\ (job.head <= Concurrency \/ l = 1 \/ job.last = 1)
  <2>. SUFFICES ASSUME creation # NoTime, v = "damm", job.previous.cursor = 0
                PROVE  Initialized(v, job.head, at)' /\ (job.head <= Concurrency \/ l = 1 \/ job.last = 1)
    OBVIOUS
  <2>1. CASE 1 \in ok
    <3>1. l = 1 /\ job.next <= Concurrency
      BY <2>1, <1>3, <1>8, <1>9, <1>11
    <3>2. Fine(v, 1)'
      BY <2>1, <1>33
    <3>3. job.head <= Concurrency \/ at \in 1 .. Concurrency + 1
      BY <3>1, <1>3, <1>9, <1>18, <1>21, <1>36
    <3>. QED  BY <3>1, <3>2, <3>3, <1>36 DEF Initialized
  <2>2. CASE 1 \notin ok
    <3>1. job.creation # NoTime
      BY <2>2, <1>22, <1>23
    <3>2. Initialized(v, job.head, job.at) /\ Initialized(v, job.head, job.at)'
      BY <3>1, <1>5, <1>32 DEF SaveInv
    <3>3. job.head <= Concurrency \/ at \in 1 .. Concurrency + 1
      BY <3>2, <1>3, <1>9, <1>18, <1>21, <1>36 DEF Initialized
    <3>4. job.head <= Concurrency \/ job.last = 1
      BY <3>1, <1>5 DEF ScanInv
    <3>. QED  BY <3>2, <3>3, <3>4 DEF Initialized
  <2>. QED  BY <2>1, <2>2
<1>38. SaveInv(v, new)'
  <2>1. (Final(v, job.head) /\ UpTo(v, job.started, job.head))'
    BY <1>32 DEF SaveInv
  <2>2. at \in 0 .. Len(chain'[v])
    BY <1>3, <1>5, <1>6, <1>18, <1>21, <1>30 DEF SaveInv
  <2>3. at # 0 => Known(v, at, job.head)'
    BY <1>21, <1>32, <1>35 DEF SaveInv
  <2>. QED  BY <2>1, <2>2, <2>3, <1>27, <1>36, <1>37 DEF SaveInv
<1>39. then # "leave" => ScanInv(v, new)'
  <2>. SUFFICES ASSUME then # "leave" PROVE ScanInv(v, new)'
    OBVIOUS
  <2>1. k = l /\ at = l
    BY <1>3, <1>9, <1>21, <1>26
  <2>2. job.last >= 1 /\ job.last <= (l - 1) + 1 /\ l - 1 <= Len(chain'[v])
    BY <1>3, <1>6, <1>7, <1>9, <1>30
  <2>3. Known(v, (l - 1) + 1, job.head)'
    <3>1. (l - 1) + 1 = k
      BY <2>1, <1>9
    <3>. QED  BY <3>1, <1>35
  <2>4. at = (l - 1) + 1
    BY <2>1, <1>9
  <2>5. job.complete => Known(v, 1, job.last - 1)'
    BY <1>32 DEF ScanInv
  <2>6. creation # NoTime /\ v = "damm" /\ job.previous.cursor = 0 =>
          job.head <= Concurrency \/ job.last = 1
    BY <1>3, <1>7, <1>9, <1>37
  <2>7. v = "damm" /\ job.previous.cursor = 0 /\ OnePage => job.last = 1
    BY <1>5 DEF ScanInv
  <2>. QED  BY <2>2, <2>3, <2>4, <2>5, <2>6, <2>7, <1>27, <1>36 DEF ScanInv
<1>40. JobInv(new)'
  <2>1. then = "scan" => job.last <= l - 1
    BY <1>3, <1>9, <1>26
  <2>2. then = "finish" => job.last = (l - 1) + 1
    BY <1>9, <1>26
  <2>3. /\ RowInv(v, new.previous)' /\ (new.previous.cursor # 0 => index'[v].cursor # 0)
        /\ new.started # NoTime /\ new.started < now'
        /\ (new.previous.started # NoTime => new.started = new.previous.started)
    BY <1>5, <1>27, <1>30, <1>32
  <2>4. /\ new.then \in {"leave", "scan", "finish"}
        /\ new.then # "leave" => ScanInv(v, new)'
        /\ new.then = "scan" => new.last <= new.next
        /\ new.then = "finish" => new.last = new.next + 1
    BY <2>1, <2>2, <1>25, <1>27, <1>39
  <2>. QED  BY <2>3, <2>4, <1>27, <1>38 DEF JobInv
<1>. QED  BY <1>28, <1>29, <1>31, <1>40, StepKeepsInv

\* What a scan saves is true of the row it is written over.
LEMMA SavedIsTrue ==
  ASSUME IndexerInv, NEW job \in Job, JobInv(job), job.step \in {"checkpoint", "finish"}
  PROVE  /\ Saved(job) \in Cursor /\ RowInv(job.venue, Saved(job))
         /\ Saved(job).cursor = index[job.venue].cursor
<1>1. PICK v \in Venues : v = job.venue
  BY DEF Job
<1>2. PICK row \in Cursor : row = index[v]
  BY DEF IndexerInv
<1>3. RowInv(v, row)
  BY <1>2 DEF IndexerInv
<1>4. /\ SaveInv(v, job) /\ (job.previous.cursor # 0 => row.cursor # 0)
      /\ job.started # NoTime /\ job.started < now
  BY <1>1, <1>2 DEF JobInv
<1>5. v = "damm" => index["damm"] = row
  BY <1>2
<1>6. v = "dbc" => index["dbc"] = row
  BY <1>2
<1>7. PICK new \in Cursor :
        /\ new = Saved(job)
        /\ new.cursor = row.cursor /\ new.through = row.through /\ new.head = job.head
        /\ new.started = job.started /\ new.before = job.at
        /\ v = "damm" => new.start = job.creation
  <2>1. CASE v = "dbc"
    <3>. DEFINE new == [row EXCEPT !.head = job.head, !.started = job.started, !.before = job.at]
    <3>1. new = Saved(job)
      BY <2>1, <1>1, <1>6 DEF Saved, SavedCurve
    <3>2. new \in Cursor
      BY DEF Cursor, Job
    <3>3. /\ new.cursor = row.cursor /\ new.through = row.through /\ new.head = job.head
          /\ new.started = job.started /\ new.before = job.at
      BY DEF Cursor
    <3>. QED  BY <2>1, <3>1, <3>2, <3>3
  <2>2. CASE v = "damm"
    <3>. DEFINE new == [row EXCEPT !.head = job.head, !.started = job.started, !.before = job.at,
                                   !.start = job.creation]
    <3>1. new = Saved(job)
      BY <2>2, <1>1, <1>5 DEF Saved, SavedGraduated
    <3>2. new \in Cursor
      BY DEF Cursor, Job
    <3>3. /\ new.cursor = row.cursor /\ new.through = row.through /\ new.head = job.head
          /\ new.started = job.started /\ new.before = job.at /\ new.start = job.creation
      BY DEF Cursor
    <3>. QED  BY <3>1, <3>2, <3>3
  <2>. QED  BY <2>1, <2>2 DEF Venues
<1>8. /\ Final(v, new.cursor) /\ Known(v, 1, new.cursor)
      /\ new.through # NoTime => UpTo(v, new.through, new.cursor)
  BY <1>3, <1>7 DEF RowInv
<1>9. /\ Final(v, new.head) /\ UpTo(v, new.started, new.head) /\ new.started # NoTime
      /\ new.started < now /\ new.before \in 0 .. Len(chain[v])
      /\ new.before # 0 => new.head # 0 /\ Known(v, new.before, new.head)
  BY <1>4, <1>7 DEF SaveInv
<1>10. v = "damm" /\ new.start # NoTime /\ new.cursor = 0 => Initialized(v, new.head, new.before)
  BY <1>4, <1>7 DEF SaveInv
<1>11. RowInv(v, new)
  BY <1>8, <1>9, <1>10 DEF RowInv
<1>. QED  BY <1>1, <1>2, <1>7, <1>11

LEMMA CheckpointKeepsInv ==
  ASSUME IndexerInv, NEW w \in Workers, Checkpoint(w)
  PROVE  IndexerInv'
<1>1. PICK job \in Job : job = worker[w]
  BY DEF IndexerInv
<1>2. job.venue \in Venues /\ JobInv(job) /\ job.step = "checkpoint"
  BY <1>1 DEF Job, IndexerInv, Checkpoint
<1>3. PICK row \in Cursor : row = Saved(job) /\ RowInv(job.venue, row)
                            /\ row.cursor = index[job.venue].cursor
  BY <1>2, SavedIsTrue
<1>4. PICK new \in Job :
        /\ new = IF job.then = "leave" THEN AfterScan(job) ELSE [job EXCEPT !.step = job.then]
        /\ JobInv(new)
  <2>1. CASE job.then = "leave"
    <3>1. AfterScan(job) \in Job /\ JobInv(AfterScan(job))
      BY IdleJobs DEF AfterScan, Venues
    <3>. QED  BY <2>1, <3>1
  <2>2. CASE job.then # "leave"
    <3>. DEFINE nw == [job EXCEPT !.step = job.then]
    <3>1. job.then \in {"scan", "finish"}
      BY <2>2, <1>2 DEF JobInv
    <3>2. nw \in Job
      BY <3>1 DEF Job, Steps
    <3>3. /\ nw.step = job.then /\ nw.venue = job.venue /\ nw.previous = job.previous
          /\ nw.started = job.started /\ nw.head = job.head /\ nw.next = job.next
          /\ nw.last = job.last /\ nw.complete = job.complete /\ nw.at = job.at
          /\ nw.creation = job.creation
      BY DEF Job
    <3>4. PICK j \in Job : j = nw
      BY <3>2
    <3>5. SaveInv(j.venue, j) /\ ScanInv(j.venue, j)
      BY <2>2, <3>3, <3>4, <1>2 DEF JobInv, SaveInv, ScanInv
    <3>6. JobInv(j)
      BY <2>2, <3>1, <3>3, <3>4, <3>5, <1>2 DEF JobInv
    <3>. QED  BY <2>2, <3>4, <3>6
  <2>. QED  BY <2>1, <2>2
<1>5. index' = [index EXCEPT ![job.venue] = row] /\ Moves(w, new)
  BY <1>1, <1>3, <1>4 DEF Checkpoint, Moves
<1>. QED  BY <1>2, <1>3, <1>4, <1>5, SaveKeepsInv DEF Checkpoint

\* A scan that reached its boundary, or that saw the pool's initialization,
\* has nothing to miss but what the first batch may lose.
LEMMA ScanIsWhole ==
  ASSUME IndexerInv, NEW job \in Job, JobInv(job), job.step = "finish",
         job.complete \/ (job.venue = "damm" /\ job.previous.cursor = 0 /\ job.creation # NoTime)
  PROVE  job.head # 0 /\ Known(job.venue, 1, job.head)
<1>1. /\ job.head \in Nat /\ job.next \in Nat /\ job.last \in Nat
  BY DEF Job
<1>2. SaveInv(job.venue, job) /\ ScanInv(job.venue, job) /\ job.last = job.next + 1
  BY DEF JobInv
<1>3. CASE job.last = 1 \/ job.complete
  <2>1. job.head # 0
    BY <1>2, <1>3 DEF ScanInv, SaveInv, Initialized
  <2>2. Known(job.venue, 1, job.next)
    BY <1>1, <1>2, <1>3 DEF ScanInv, Known
  <2>3. Known(job.venue, job.next + 1, job.head)
    BY <1>2 DEF ScanInv
  <2>4. ASSUME NEW i \in 1 .. job.head PROVE Fine(job.venue, i)
    <3>1. i \in 1 .. job.next \/ i \in job.next + 1 .. job.head
      BY <1>1
    <3>. QED  BY <3>1, <2>2, <2>3 DEF Known
  <2>. QED  BY <2>1, <2>4 DEF Known
<1>4. CASE ~ (job.last = 1 \/ job.complete)
  <2>1. job.venue = "damm" /\ job.head <= Concurrency
    BY <1>2, <1>4 DEF ScanInv
  <2>2. job.head # 0 /\ Fine("damm", 1)
    BY <1>2, <1>4, <2>1 DEF SaveInv, Initialized
  <2>4. ~ OnePage
    BY <1>2, <1>4 DEF ScanInv
  <2>3. ASSUME NEW i \in 1 .. job.head PROVE Fine("damm", i)
    <3>1. i = 1 \/ i \in 2 .. Concurrency
      BY <1>1, <2>1, HistoryAssumption
    <3>. QED  BY <3>1, <2>2, <2>4 DEF Fine
  <2>. QED  BY <2>1, <2>2, <2>3 DEF Known
<1>. QED  BY <1>3, <1>4

LEMMA CertifiedIsTrue ==
  ASSUME IndexerInv, NEW job \in Job, JobInv(job), job.step = "finish",
         NEW start \in Time \cup {NoTime},
         job.complete \/ (job.venue = "damm" /\ job.previous.cursor = 0 /\ job.creation # NoTime)
  PROVE  /\ Certified(job, start) \in Cursor /\ RowInv(job.venue, Certified(job, start))
         /\ Certified(job, start).cursor # 0
<1>1. job.head # 0 /\ Known(job.venue, 1, job.head)
  BY ScanIsWhole
<1>2. /\ Final(job.venue, job.head) /\ UpTo(job.venue, job.started, job.head)
  BY DEF JobInv, SaveInv
<1>3. PICK row \in Cursor :
        /\ row = Certified(job, start) /\ row.cursor = job.head /\ row.before = 0 /\ row.head = 0
        /\ row.started = NoTime /\ row.through = job.started
  <2>1. job.head \in Nat /\ job.started \in Time \cup {NoTime}
    BY DEF Job
  <2>2. Certified(job, start) \in Cursor
    BY <2>1 DEF Certified, Cursor
  <2>. QED  BY <2>2 DEF Certified
<1>4. Final(job.venue, 0) /\ 0 \in 0 .. Len(chain[job.venue])
  <2>1. Len(chain[job.venue]) \in Nat
    BY ChainFacts DEF IndexerInv, Job
  <2>. QED  BY <2>1 DEF Final
<1>5. RowInv(job.venue, row)
  BY <1>1, <1>2, <1>3, <1>4 DEF RowInv
<1>. QED  BY <1>1, <1>3, <1>5

LEMMA FinishCurveKeepsInv ==
  ASSUME IndexerInv, NEW w \in Workers, FinishCurve(w)
  PROVE  IndexerInv'
<1>1. PICK job \in Job : job = worker[w]
  BY DEF IndexerInv
<1>2. JobInv(job) /\ job.step = "finish" /\ job.venue = "dbc"
  BY <1>1 DEF IndexerInv, FinishCurve
<1>3. PICK start \in Time \cup {NoTime} :
        start = IF job.previous.start = NoTime THEN 0 ELSE job.previous.start
  BY HistoryAssumption DEF Job, Cursor, Time
<1>4. PICK row \in Cursor :
        /\ row = IF job.complete THEN Certified(job, start) ELSE SavedCurve(job)
        /\ RowInv("dbc", row) /\ (index["dbc"].cursor # 0 => row.cursor # 0)
  <2>1. CASE job.complete
    BY <2>1, <1>2, CertifiedIsTrue
  <2>2. CASE ~ job.complete
    BY <2>2, <1>2, SavedIsTrue DEF Saved
  <2>. QED  BY <2>1, <2>2
<1>5. index' = [index EXCEPT !["dbc"] = row] /\ Moves(w, NoJob)
  BY <1>1, <1>3, <1>4 DEF FinishCurve, Moves
<1>6. "dbc" \in Venues
  BY DEF Venues
<1>. QED  BY <1>4, <1>5, <1>6, IdleJobs, SaveKeepsInv DEF FinishCurve

LEMMA FinishGraduatedKeepsInv ==
  ASSUME IndexerInv, NEW w \in Workers, FinishGraduated(w)
  PROVE  IndexerInv'
<1>1. PICK job \in Job : job = worker[w]
  BY DEF IndexerInv
<1>2. JobInv(job) /\ job.step = "finish" /\ job.venue = "damm"
  BY <1>1 DEF IndexerInv, FinishGraduated
<1>3. Moves(w, Reading("dbc")) /\ "dbc" \in Venues /\ "damm" \in Venues
  BY DEF FinishGraduated, Moves, Venues
<1>. DEFINE complete == job.complete \/ (job.previous.cursor = 0 /\ job.creation # NoTime)
<1>4. CASE complete
  <2>1. job.creation \in Time \cup {NoTime}
    BY DEF Job
  <2>2. PICK row \in Cursor : row = Certified(job, job.creation) /\ RowInv("damm", row) /\ row.cursor # 0
    BY <1>2, <1>4, <2>1, CertifiedIsTrue
  <2>3. index' = [index EXCEPT !["damm"] = row]
    BY <1>1, <1>4, <2>2 DEF FinishGraduated
  <2>. QED  BY <1>3, <2>2, <2>3, IdleJobs, SaveKeepsInv DEF FinishGraduated
<1>5. CASE ~ complete /\ ~ job.short
  <2>1. PICK row \in Cursor : /\ row = SavedGraduated(job) /\ RowInv("damm", row)
                              /\ row.cursor = index["damm"].cursor
    BY <1>2, SavedIsTrue DEF Saved
  <2>2. index' = [index EXCEPT !["damm"] = row]
    BY <1>1, <1>5, <2>1 DEF FinishGraduated
  <2>. QED  BY <1>3, <2>1, <2>2, IdleJobs, SaveKeepsInv DEF FinishGraduated
<1>6. CASE ~ complete /\ job.short
  <2>1. index' = index
    BY <1>1, <1>6 DEF FinishGraduated
  <2>. QED  BY <1>3, <2>1, IdleJobs, MoveKeepsInv DEF FinishGraduated
<1>. QED  BY <1>4, <1>5, <1>6

\* The other steps of a run leave it idle, at its start, or before a read.
LEMMA OtherStepsKeepInv ==
  ASSUME IndexerInv, NEW w \in Workers,
         ClaimLease(w) \/ RefreshSnapshot(w) \/ Deadline(w) \/ Crash(w)
  PROVE  IndexerInv'
<1>1. "dbc" \in Venues /\ "damm" \in Venues
  BY DEF Venues
<1>2. CASE ClaimLease(w)
  <2>1. PICK new : new = [NoJob EXCEPT !.step = "snapshot"]
    OBVIOUS
  <2>2. new \in Job /\ JobInv(new)
    <3>1. NoJob \in Job
      BY IdleJobs
    <3>2. new \in Job /\ new.step = "snapshot"
      BY <2>1, <3>1 DEF Job, Steps
    <3>. QED  BY <3>2 DEF JobInv
  <2>3. Moves(w, new) /\ UNCHANGED <<now, chain, stored, index>>
    BY <1>2, <2>1 DEF ClaimLease, Moves
  <2>. QED  BY <2>2, <2>3, MoveKeepsInv
<1>3. CASE RefreshSnapshot(w)
  <2>1. \E v \in Venues : Moves(w, Reading(v))
    <3>1. CASE graduated'
      BY <1>1, <1>3, <3>1 DEF RefreshSnapshot, Moves
    <3>2. CASE ~ graduated'
      BY <1>1, <1>3, <3>2 DEF RefreshSnapshot, Moves
    <3>. QED  BY <3>1, <3>2
  <2>2. UNCHANGED <<now, chain, stored, index>>
    BY <1>3 DEF RefreshSnapshot
  <2>. QED  BY <2>1, <2>2, IdleJobs, MoveKeepsInv
<1>4. CASE Deadline(w) \/ Crash(w)
  <2>1. \E job \in {NoJob, AfterScan(worker[w])} : Moves(w, job)
    BY <1>4 DEF Deadline, Crash, Moves
  <2>2. Moves(w, NoJob) \/ Moves(w, Reading("dbc"))
    BY <2>1 DEF AfterScan
  <2>3. UNCHANGED <<now, chain, stored, index>>
    BY <1>4 DEF Deadline, Crash
  <2>. QED  BY <1>1, <2>2, <2>3, IdleJobs, MoveKeepsInv
<1>. QED  BY <1>2, <1>3, <1>4

-----------------------------------------------------------------------------
(* The steps of the chain and of the trades stored outside the scans *)

LEMMA TimePassesKeepsInv ==
  ASSUME IndexerInv, Tick
  PROVE  IndexerInv'
<1>1. ASSUME NEW v \in Venues
      PROVE  /\ Len(chain[v]) \in Nat /\ now \in Nat /\ DOMAIN chain[v] = 1 .. Len(chain[v])
             /\ \A i \in DOMAIN chain[v] : chain[v][i].time \in Int
  BY ChainFacts DEF IndexerInv
<1>2. now \in Nat /\ now' = now + 1 /\ now' \in 1 .. MaxTime /\ chain' = chain /\ stored' = stored
  <2>1. MaxTime \in Nat /\ now \in 1 .. MaxTime
    BY HistoryAssumption DEF IndexerInv, ChainInv
  <2>. QED  BY <2>1 DEF Tick
<1>3. ChainInv'
  <2>1. ASSUME NEW v \in Venues, NEW i \in DOMAIN chain[v] PROVE chain[v][i].time <= now + 1
    BY <1>1, <1>2 DEF IndexerInv, ChainInv
  <2>. QED  BY <1>2, <2>1 DEF IndexerInv, ChainInv
<1>4. Grows
  BY <1>1, <1>2 DEF Grows
<1>. QED  BY <1>3, <1>4, GrowthKeepsInv DEF Tick

LEMMA TradesGrow ==
  ASSUME IndexerInv, NEW v \in Venues, NEW usd \in Volumes, Trades(v, usd)
  PROVE  ChainInv' /\ Grows
<1>. DEFINE R == [time : Time, usd : Volumes]
<1>1. PICK tx \in R : tx = [time |-> now, usd |-> usd] /\ tx.time = now /\ now \in Nat
  <2>1. MaxTime \in Nat /\ now \in 1 .. MaxTime
    BY HistoryAssumption DEF IndexerInv, ChainInv
  <2>2. now \in Time /\ now \in Nat
    BY <2>1 DEF Time
  <2>3. [time |-> now, usd |-> usd] \in R
    BY <2>2
  <2>. QED  BY <2>2, <2>3
<1>2. chain \in [Venues -> Seq(R)] /\ chain' = [chain EXCEPT ![v] = Append(chain[v], tx)]
  BY <1>1 DEF IndexerInv, ChainInv, Trades
<1>. HIDE DEF R
<1>3. ASSUME NEW u \in Venues
      PROVE  /\ Len(chain[u]) \in Nat /\ DOMAIN chain[u] = 1 .. Len(chain[u])
             /\ \A i \in DOMAIN chain[u] : chain[u][i].time \in Int
  BY ChainFacts DEF IndexerInv
<1>4. PICK n \in Nat : n = Len(chain[v])
  BY <1>3
<1>5. /\ chain'[v] \in Seq(R) /\ Len(chain'[v]) = n + 1
      /\ \A i \in 1 .. n : chain'[v][i] = chain[v][i]
      /\ chain'[v][n + 1] = tx
  <2>1. chain[v] \in Seq(R) /\ chain'[v] = Append(chain[v], tx)
    BY <1>2
  <2>. QED  BY <2>1, <1>4
<1>6. \A u \in Venues : u # v => chain'[u] = chain[u]
  BY <1>2
<1>7. DOMAIN chain[v] = 1 .. n /\ DOMAIN chain'[v] = 1 .. n + 1
  BY <1>3, <1>4, <1>5
<1>8. chain' \in [Venues -> Seq(R)]
  BY <1>2, <1>5, <1>6
<1>9. now' = now /\ stored' = stored /\ UNCHANGED <<index, worker>>
  BY DEF Trades
<1>10. \A u \in Venues : \A i \in DOMAIN chain'[u] : chain'[u][i].time <= now
  <2>1. ASSUME NEW u \in Venues, NEW i \in DOMAIN chain'[u] PROVE chain'[u][i].time <= now
    <3>1. CASE u = v /\ i = n + 1
      BY <3>1, <1>1, <1>5
    <3>2. CASE u = v /\ i # n + 1
      <4>1. i \in 1 .. n
        BY <3>2, <1>7
      <4>. QED  BY <3>2, <4>1, <1>5, <1>7 DEF IndexerInv, ChainInv
    <3>3. CASE u # v
      BY <3>3, <1>6 DEF IndexerInv, ChainInv
    <3>. QED  BY <3>1, <3>2, <3>3
  <2>. QED  BY <2>1
<1>11. \A u \in Venues : \A i, j \in DOMAIN chain'[u] :
         i <= j => chain'[u][i].time <= chain'[u][j].time
  <2>1. ASSUME NEW i \in DOMAIN chain'[v], NEW j \in DOMAIN chain'[v], i <= j
        PROVE  chain'[v][i].time <= chain'[v][j].time
    <3>1. CASE j = n + 1
      BY <3>1, <1>1, <1>5, <1>10
    <3>2. CASE j # n + 1
      <4>1. i \in 1 .. n /\ j \in 1 .. n
        BY <2>1, <3>2, <1>7
      <4>2. chain[v][i].time <= chain[v][j].time
        BY <2>1, <4>1, <1>7 DEF IndexerInv, ChainInv
      <4>. QED  BY <4>1, <4>2, <1>5
    <3>. QED  BY <3>1, <3>2
  <2>2. ASSUME NEW u \in Venues, u # v, NEW i \in DOMAIN chain'[u], NEW j \in DOMAIN chain'[u], i <= j
        PROVE  chain'[u][i].time <= chain'[u][j].time
    BY <2>2, <1>6 DEF IndexerInv, ChainInv
  <2>. QED  BY <2>1, <2>2
<1>12. ChainInv'
  <2>1. v = "damm" => n + 1 <= MaxTx["damm"]
    BY <1>4, HistoryAssumption DEF Trades, Venues
  <2>2. Len(chain'["damm"]) <= MaxTx["damm"]
    BY <2>1, <1>5, <1>6 DEF IndexerInv, ChainInv, Venues
  <2>. QED  BY <1>8, <1>9, <1>10, <1>11, <2>2 DEF R, ChainInv, IndexerInv
<1>13. Grows
  <2>1. ASSUME NEW u \in Venues
        PROVE  /\ Len(chain[u]) <= Len(chain'[u])
               /\ \A i \in DOMAIN chain[u] : chain'[u][i] = chain[u][i]
               /\ \A i \in DOMAIN chain'[u] : i > Len(chain[u]) => chain'[u][i].time >= now
    <3>1. CASE u = v
      <4>1. \A i \in DOMAIN chain'[v] : i > n => i = n + 1
        BY <1>7
      <4>. QED  BY <3>1, <4>1, <1>1, <1>4, <1>5, <1>7
    <3>2. CASE u # v
      BY <3>2, <1>3, <1>6
    <3>. QED  BY <3>1, <3>2
  <2>. QED  BY <2>1, <1>1, <1>9 DEF Grows
<1>. QED  BY <1>12, <1>13

LEMMA TradesKeepInv ==
  ASSUME IndexerInv, NEW v \in Venues, NEW usd \in Volumes, Trades(v, usd)
  PROVE  IndexerInv'
  BY TradesGrow, GrowthKeepsInv DEF Trades

LEMMA StoreKeepsInv ==
  ASSUME IndexerInv, UNCHANGED <<now, chain, index, worker>>, stored \subseteq stored'
  PROVE  IndexerInv'
<1>1. ChainInv'
  BY DEF IndexerInv, ChainInv
<1>2. ASSUME NEW v \in Venues
      PROVE  Len(chain[v]) \in Nat /\ now \in Nat /\ DOMAIN chain[v] = 1 .. Len(chain[v])
  BY ChainFacts DEF IndexerInv
<1>3. "dbc" \in Venues
  BY DEF Venues
<1>4. Grows
  BY <1>2, <1>3 DEF Grows
<1>. QED  BY <1>1, <1>4, GrowthKeepsInv

-----------------------------------------------------------------------------
(* The theorems *)

LEMMA InitEstablishesInv ==
  ASSUME Init
  PROVE  IndexerInv
<1>. DEFINE R == [time : Time, usd : Volumes]
<1>1. PICK u \in Volumes :
        chain = [v \in Venues |-> IF v = "dbc" THEN <<[time |-> 0, usd |-> u]>> ELSE <<>>]
  BY DEF Init
<1>2. 0 \in Time /\ now = 1 /\ MaxTime \in Nat /\ 1 \in 1 .. MaxTime
  BY HistoryAssumption DEF Init, Time
<1>3. chain["dbc"] = <<[time |-> 0, usd |-> u]>> /\ chain["damm"] = <<>>
  BY <1>1 DEF Venues
<1>4. [time |-> 0, usd |-> u] \in R
  BY <1>2
<1>5. chain["dbc"] \in Seq(R) /\ chain["damm"] \in Seq(R)
  <2>. HIDE DEF R
  <2>. QED  BY <1>3, <1>4
<1>6. chain \in [Venues -> Seq(R)]
  BY <1>1, <1>5 DEF Venues
<1>7. /\ \A i \in DOMAIN chain["dbc"] : i = 1 /\ chain["dbc"][i].time = 0
      /\ DOMAIN chain["damm"] = {}
  BY <1>3
<1>8. ChainInv
  <2>1. ASSUME NEW v \in Venues, NEW i \in DOMAIN chain[v]
        PROVE  i = 1 /\ chain[v][i].time = 0
    BY <1>7 DEF Venues
  <2>2. \A v \in Venues : \A i, j \in DOMAIN chain[v] :
          i <= j => chain[v][i].time <= chain[v][j].time
    BY <2>1
  <2>3. \A v \in Venues : \A i \in DOMAIN chain[v] : chain[v][i].time <= now
    BY <1>2, <2>1
  <2>4. Len(chain["damm"]) <= MaxTx["damm"]
    BY <1>3, HistoryAssumption
  <2>. QED  BY <1>2, <1>6, <2>2, <2>3, <2>4 DEF ChainInv
<1>9. /\ index \in [Venues -> Cursor] /\ worker \in [Workers -> Job]
      /\ \A v \in Venues : index[v] = NoCursor
      /\ \A w \in Workers : worker[w] = NoJob
  BY IdleJobs DEF Init
<1>10. ASSUME NEW v \in Venues PROVE RowInv(v, NoCursor)
  <2>1. Len(chain[v]) \in Nat
    BY <1>8, ChainFacts
  <2>2. /\ NoCursor.cursor = 0 /\ NoCursor.before = 0 /\ NoCursor.head = 0
        /\ NoCursor.started = NoTime /\ NoCursor.start = NoTime /\ NoCursor.through = NoTime
    BY DEF NoCursor
  <2>3. Known(v, 1, 0)
    BY DEF Known
  <2>. QED  BY <2>1, <2>2, <2>3 DEF RowInv, Final
<1>11. ASSUME NEW w \in Workers PROVE JobInv(worker[w])
  BY <1>9 DEF JobInv, NoJob
<1>. QED  BY <1>8, <1>9, <1>10, <1>11 DEF IndexerInv

LEMMA NextKeepsInv ==
  ASSUME IndexerInv, [Next]_vars
  PROVE  IndexerInv'
<1>1. CASE Tick
  BY <1>1, TimePassesKeepsInv
<1>2. CASE \E v \in Venues, usd \in Volumes : Trades(v, usd)
  BY <1>2, TradesKeepInv
<1>3. ASSUME NEW w \in Workers, ReadCursor(w) PROVE IndexerInv'
  BY <1>3, ReadKeepsInv
<1>4. ASSUME NEW w \in Workers, ListPage(w) PROVE IndexerInv'
  BY <1>4, ListKeepsInv
<1>5. ASSUME NEW w \in Workers, VisitBatch(w) PROVE IndexerInv'
  BY <1>5, VisitKeepsInv
<1>6. ASSUME NEW w \in Workers, Checkpoint(w) PROVE IndexerInv'
  BY <1>6, CheckpointKeepsInv
<1>7. ASSUME NEW w \in Workers, FinishCurve(w) PROVE IndexerInv'
  BY <1>7, FinishCurveKeepsInv
<1>8. ASSUME NEW w \in Workers, FinishGraduated(w) PROVE IndexerInv'
  BY <1>8, FinishGraduatedKeepsInv
<1>9. ASSUME NEW w \in Workers, ClaimLease(w) \/ RefreshSnapshot(w) \/ Deadline(w) \/ Crash(w)
      PROVE  IndexerInv'
  BY <1>9, OtherStepsKeepInv
<1>10. CASE \E v \in Venues : \E i \in 1 .. MaxTx[v] : StoreRecent(v, i)
  <2>1. UNCHANGED <<now, chain, index, worker>> /\ stored \subseteq stored'
    BY <1>10 DEF StoreRecent
  <2>. QED  BY <2>1, StoreKeepsInv
<1>11. CASE \/ LeaseExpires \/ ObserveSnapshot \/ ObserveTrades \/ ReleaseInactive
            \/ UNCHANGED vars \/ (\E t \in Trade : PriceMissing(t))
  <2>1. UNCHANGED <<now, chain, index, worker, stored>>
    BY <1>11 DEF LeaseExpires, ObserveSnapshot, ObserveTrades, ReleaseInactive, vars, PriceMissing
  <2>. QED  BY <2>1, StoreKeepsInv
<1>. QED  BY <1>1, <1>2, <1>3, <1>4, <1>5, <1>6, <1>7, <1>8, <1>9, <1>10, <1>11 DEF Next, WorkerStep

\* Every row, and every copy that a run holds of one, keeps its promises: in
\* whatever order runs, retries and runs past their lease write it.
THEOREM RowsKeepTheirPromise == Spec => []IndexerInv
<1>1. Init => IndexerInv
  BY InitEstablishesInv
<1>2. IndexerInv /\ [Next]_vars => IndexerInv'
  BY NextKeepsInv
<1>. QED  BY <1>1, <1>2, PTL DEF Spec

LEMMA PromiseLeavesOnlyFirstBatch ==
  ASSUME IndexerInv
  PROVE  GapOnlyInFirstBatch
<1>1. SUFFICES ASSUME NEW v \in Venues, NEW i \in DOMAIN chain[v], Missed(v, i)
               PROVE  v = "damm" /\ i \in 2 .. Concurrency
  BY DEF GapOnlyInFirstBatch
<1>2. RowInv(v, index[v])
  BY DEF IndexerInv
<1>3. i <= index[v].cursor
  BY <1>1, <1>2 DEF RowInv, UpTo, Missed
<1>4. index[v].cursor \in Nat /\ i \in Nat /\ i >= 1
  <2>1. index[v].cursor \in Nat
    BY DEF IndexerInv, Cursor
  <2>. QED  BY <2>1, ChainFacts DEF IndexerInv
<1>5. Fine(v, i)
  BY <1>2, <1>3, <1>4 DEF RowInv, Known
<1>. QED  BY <1>1, <1>5 DEF Fine, Missed

\* What indexPool certifies is stored: for the curve all of it, for the DAMM
\* pool all but the batch that holds its initialization, also when
\* runs outlive their lease, fail, crash and resume (indexer.ts,
\* graduated-indexer.ts, scan-history.ts).
THEOREM CertifiedIsStored == Spec => []GapOnlyInFirstBatch
  BY RowsKeepTheirPromise, PromiseLeavesOnlyFirstBatch, PTL

LEMMA PromiseLeavesNoGap ==
  ASSUME IndexerInv, OnePage
  PROVE  CoverageHasNoGap
<1>1. SUFFICES ASSUME NEW v \in Venues, NEW i \in DOMAIN chain[v], Missed(v, i)
               PROVE  FALSE
  BY DEF CoverageHasNoGap
<1>2. RowInv(v, index[v])
  BY DEF IndexerInv
<1>3. i <= index[v].cursor
  BY <1>1, <1>2 DEF RowInv, UpTo, Missed
<1>4. index[v].cursor \in Nat /\ i \in Nat /\ i >= 1
  <2>1. index[v].cursor \in Nat
    BY DEF IndexerInv, Cursor
  <2>. QED  BY <2>1, ChainFacts DEF IndexerInv
<1>5. Fine(v, i)
  BY <1>2, <1>3, <1>4 DEF RowInv, Known
<1>. QED  BY <1>1, <1>5 DEF Fine, Missed

\* "Never certify coverage over a gap" (scan-history.ts:57) holds while the
\* history of the DAMM pool fits a page: a scan that starts over reaches the
\* first batch again.
THEOREM NoGapInOnePage == ASSUME OnePage PROVE Spec => []CoverageHasNoGap
<1>1. IndexerInv => CoverageHasNoGap
  BY PromiseLeavesNoGap
<1>. QED  BY <1>1, RowsKeepTheirPromise, PTL

-----------------------------------------------------------------------------
(* The release of the ticker *)

Release ==
  [step : {"idle", "trades", "decide"}, now : Time \cup {NoTime}, graduated : BOOLEAN,
   start : Time \cup {NoTime}, through : Time \cup {NoTime},
   stored : SUBSET (Venues \X Nat), priced : SUBSET (Venues \X Nat)]

Active == {"list", "scan", "checkpoint", "finish"}

\* Only swaps of the chain are stored, and only what is stored is priced.
TradesInv == stored \subseteq Swaps /\ priced \subseteq stored

\* Nothing that is, or is about to be, certified of the curve reaches time.
CurveEndsBefore(time) ==
  /\ index["dbc"].through < time /\ index["dbc"].started < time
  /\ \A w \in Workers : /\ worker[w].step \in Active => worker[w].started < time
                        /\ worker[w].step = "read" => now <= time

\* While the database has not seen the graduation, the curve's index ends
\* before the DAMM pool's history begins.
VenueInv ==
  /\ graduated \in BOOLEAN /\ (graduated => chain["damm"] # <<>>)
  /\ \A w \in Workers : worker[w].venue = "damm" => graduated
  /\ ~ graduated => \A i \in DOMAIN chain["damm"] : CurveEndsBefore(chain["damm"][i].time)

\* What a release has read is still so when it decides: the cron job that
\* releases tickers is the one that indexes.
ObservedInv ==
  /\ release \in Release
  /\ release.step # "idle" =>
       /\ \A w \in Workers : worker[w].step = "idle"
       /\ release.now = now /\ release.graduated = graduated
       /\ release.start = index["dbc"].start /\ release.through = index["dbc"].through
  /\ release.step = "decide" =>
       /\ release.stored \subseteq stored
       /\ \A v \in Venues : \A i \in 1 .. index[v].cursor :
            IsSwap(<<v, i>>) => <<v, i>> \in release.stored

ReleaseInv == TradesInv /\ VenueInv /\ ObservedInv

LEMMA SwapIsTrade ==
  ASSUME NEW t
  PROVE  t \in Swaps <=> \E v \in Venues : \E i \in DOMAIN chain[v] : t = <<v, i>> /\ IsSwap(t)
<1>1. ASSUME NEW v \in Venues, NEW is
      PROVE  t \in Rows(v, is) <=> \E i \in is : t = <<v, i>> /\ IsSwap(t)
  <2>1. CASE v = "dbc"
    BY <2>1 DEF Rows, CurveRows
  <2>2. CASE v = "damm"
    BY <2>2 DEF Rows, GraduatedRows
  <2>. QED  BY <2>1, <2>2 DEF Venues
<1>. QED  BY <1>1 DEF Swaps

LEMMA SwapIsTradeNext ==
  ASSUME NEW t
  PROVE  t \in Swaps' <=> \E v \in Venues : \E i \in DOMAIN chain'[v] : t = <<v, i>> /\ IsSwap(t)'
<1>1. ASSUME NEW v \in Venues
      PROVE  t \in Rows(v, DOMAIN chain[v])' <=>
               \E i \in DOMAIN chain'[v] : t = <<v, i>> /\ IsSwap(t)'
  <2>1. CASE v = "dbc"
    BY <2>1 DEF Rows, CurveRows
  <2>2. CASE v = "damm"
    BY <2>2 DEF Rows, GraduatedRows
  <2>. QED  BY <2>1, <2>2 DEF Venues
<1>. QED  BY <1>1 DEF Swaps

LEMMA SwapsArePositions ==
  ASSUME ChainInv
  PROVE  Swaps \subseteq Venues \X Nat
<1>1. ASSUME NEW t \in Swaps PROVE t \in Venues \X Nat
  <2>1. PICK v \in Venues : \E i \in DOMAIN chain[v] : t = <<v, i>>
    BY SwapIsTrade
  <2>. QED  BY <2>1, ChainFacts
<1>. QED  BY <1>1

LEMMA SwapsStay ==
  ASSUME ChainInv, ChainInv', Grows
  PROVE  Swaps \subseteq Swaps'
<1>1. ASSUME NEW t \in Swaps PROVE t \in Swaps'
  <2>0. PICK v \in Venues : \E i \in DOMAIN chain[v] : t = <<v, i>> /\ IsSwap(t)
    BY SwapIsTrade
  <2>1. PICK i \in DOMAIN chain[v] : t = <<v, i>> /\ IsSwap(t)
    BY <2>0
  <2>2. i \in DOMAIN chain'[v] /\ chain'[v][i] = chain[v][i]
    BY ChainFacts, ChainFactsNext DEF Grows
  <2>3. IsSwap(t)'
    BY <2>1, <2>2 DEF IsSwap
  <2>. QED  BY <2>1, <2>2, <2>3, SwapIsTradeNext
<1>. QED  BY <1>1

\* A batch lies in the history of its venue.
LEMMA BatchInHistory ==
  ASSUME IndexerInv, NEW w \in Workers, worker[w].step = "scan"
  PROVE  Batch(worker[w]) \subseteq DOMAIN chain[worker[w].venue] /\ worker[w].venue \in Venues
<1>1. PICK job \in Job : job = worker[w] /\ JobInv(job)
  BY DEF IndexerInv
<1>2. job.venue \in Venues /\ job.last \in Nat /\ job.next \in Nat
  BY DEF Job
<1>3. ScanInv(job.venue, job) /\ job.last <= job.next
  BY <1>1 DEF JobInv
<1>4. job.last >= 1 /\ job.next <= Len(chain[job.venue])
  BY <1>3 DEF ScanInv
<1>5. PICK l \in job.last .. job.next : Batch(job) = l .. job.next
  BY <1>3, <1>4, BatchIsInterval
<1>6. DOMAIN chain[job.venue] = 1 .. Len(chain[job.venue]) /\ Len(chain[job.venue]) \in Nat
  BY <1>2, ChainFacts DEF IndexerInv
<1>7. l .. job.next \subseteq 1 .. Len(chain[job.venue])
  BY <1>2, <1>4, <1>6
<1>. QED  BY <1>1, <1>2, <1>5, <1>6, <1>7

LEMMA RowsAreSwaps ==
  ASSUME NEW v \in Venues, NEW is \in SUBSET DOMAIN chain[v]
  PROVE  Rows(v, is) \subseteq Swaps
<1>1. Rows(v, is) \subseteq Rows(v, DOMAIN chain[v])
  BY DEF Rows, CurveRows, GraduatedRows
<1>. QED  BY <1>1 DEF Swaps

LEMMA NextKeepsTrades ==
  ASSUME IndexerInv, TradesInv, [Next]_vars
  PROVE  TradesInv'
<1>1. CASE \E w \in Workers : VisitBatch(w)
  <2>1. PICK w \in Workers : VisitBatch(w)
    BY <1>1
  <2>2. PICK v \in Venues : v = worker[w].venue /\ Batch(worker[w]) \subseteq DOMAIN chain[v]
    BY <2>1, BatchInHistory DEF VisitBatch
  <2>3. PICK visited \in SUBSET Batch(worker[w]), known \in SUBSET Batch(worker[w]) :
          /\ known \subseteq visited
          /\ stored' = stored \cup Rows(v, visited) /\ priced' = priced \cup Rows(v, known)
    BY <2>1, <2>2 DEF VisitBatch
  <2>4. Rows(v, visited) \subseteq Swaps /\ Rows(v, known) \subseteq Rows(v, visited)
    <3>1. visited \in SUBSET DOMAIN chain[v]
      BY <2>2
    <3>2. Rows(v, known) \subseteq Rows(v, visited)
      BY <2>3 DEF Rows, CurveRows, GraduatedRows
    <3>. QED  BY <3>1, <3>2, RowsAreSwaps
  <2>5. Swaps' = Swaps
    BY <2>1 DEF VisitBatch, Swaps, Rows, CurveRows, GraduatedRows, IsSwap
  <2>. QED  BY <2>3, <2>4, <2>5 DEF TradesInv
<1>2. CASE \E v \in Venues, usd \in Volumes : Trades(v, usd)
  <2>1. Swaps \subseteq Swaps'
    BY <1>2, TradesGrow, SwapsStay DEF IndexerInv
  <2>2. stored' = stored /\ priced' = priced
    BY <1>2 DEF Trades
  <2>. QED  BY <2>1, <2>2 DEF TradesInv
<1>3. CASE \E v \in Venues : \E i \in 1 .. MaxTx[v] : StoreRecent(v, i)
  <2>1. PICK v \in Venues : \E i \in 1 .. MaxTx[v] : StoreRecent(v, i)
    BY <1>3
  <2>2. PICK i \in 1 .. MaxTx[v] : StoreRecent(v, i)
    BY <2>1
  <2>3. <<v, i>> \in Swaps
    BY <2>2, SwapIsTrade DEF StoreRecent
  <2>4. chain' = chain /\ stored' = stored \cup {<<v, i>>} /\ priced' = priced
    BY <2>2 DEF StoreRecent
  <2>5. Swaps' = Swaps
    BY <2>4 DEF Swaps, Rows, CurveRows, GraduatedRows, IsSwap
  <2>. QED  BY <2>3, <2>4, <2>5 DEF TradesInv
<1>4. CASE \E t \in Trade : PriceMissing(t)
  BY <1>4 DEF PriceMissing, TradesInv, Swaps, Rows, CurveRows, GraduatedRows, IsSwap
<1>5. CASE UNCHANGED <<chain, stored, priced>>
  BY <1>5 DEF TradesInv, Swaps, Rows, CurveRows, GraduatedRows, IsSwap
<1>6. ASSUME NEW w \in Workers, WorkerStep(w) \/ Deadline(w) \/ Crash(w), ~ VisitBatch(w)
      PROVE  UNCHANGED <<chain, stored, priced>>
  BY <1>6 DEF WorkerStep, ClaimLease, RefreshSnapshot, ReadCursor, ListPage, Checkpoint,
     FinishCurve, FinishGraduated, Deadline, Crash
<1>7. CASE \/ Tick \/ LeaseExpires \/ ObserveSnapshot \/ ObserveTrades \/ ReleaseInactive
           \/ UNCHANGED vars
  <2>1. UNCHANGED <<chain, stored, priced>>
    BY <1>7 DEF Tick, LeaseExpires, ObserveSnapshot, ObserveTrades, ReleaseInactive, vars
  <2>. QED  BY <2>1, <1>5
<1>. QED  BY <1>1, <1>2, <1>3, <1>4, <1>5, <1>6, <1>7 DEF Next

\* What a row of the curve may say of time when it is saved.
LEMMA RowsAreEarlier ==
  ASSUME IndexerInv
  PROVE  /\ now \in Nat /\ index["dbc"].through \in Int /\ index["dbc"].started \in Int
         /\ index["dbc"].through < now /\ index["dbc"].started < now
         /\ \A w \in Workers : /\ worker[w].started \in Int /\ worker[w].venue \in Venues
                               /\ worker[w].step \in Active => worker[w].started < now
<1>1. PICK row \in Cursor : row = index["dbc"] /\ RowInv("dbc", row)
  BY DEF IndexerInv, Venues
<1>2. now \in Nat /\ NoTime < now
  BY ChainFacts DEF IndexerInv, Venues, NoTime
<1>3. row.through \in Int /\ row.started \in Int
  BY TimesAreInts DEF Cursor
<1>4. row.through < now /\ row.started < now
  BY <1>1, <1>2, <1>3 DEF RowInv, UpTo
<1>5. ASSUME NEW w \in Workers
      PROVE  /\ worker[w].started \in Int /\ worker[w].venue \in Venues
             /\ worker[w].step \in Active => worker[w].started < now
  <2>1. PICK job \in Job : job = worker[w] /\ JobInv(job)
    BY DEF IndexerInv
  <2>2. job.started \in Int /\ job.venue \in Venues
    BY TimesAreInts DEF Job
  <2>. QED  BY <2>1, <2>2 DEF JobInv, Active
<1>. QED  BY <1>1, <1>2, <1>3, <1>4, <1>5

\* Steps of one run that leave what the chain and the database say of venues.
LEMMA RunKeepsVenue ==
  ASSUME IndexerInv, VenueInv, NEW w \in Workers, UNCHANGED <<now, chain, graduated>>,
         \A u \in Workers \ {w} : worker'[u] = worker[u],
         worker'[w].venue = "damm" => graduated,
         \A time \in Int : ~ graduated /\ CurveEndsBefore(time) =>
           /\ index'["dbc"].through < time /\ index'["dbc"].started < time
           /\ worker'[w].step \in Active => worker'[w].started < time
           /\ worker'[w].step = "read" => now <= time
  PROVE  VenueInv'
<1>1. graduated' \in BOOLEAN /\ (graduated' => chain'["damm"] # <<>>)
  BY DEF VenueInv
<1>2. \A u \in Workers : worker'[u].venue = "damm" => graduated'
  BY DEF VenueInv
<1>3. ASSUME ~ graduated, NEW i \in DOMAIN chain["damm"]
      PROVE  CurveEndsBefore(chain["damm"][i].time)'
  <2>1. PICK time \in Int : time = chain["damm"][i].time
    BY ChainFacts DEF IndexerInv, Venues
  <2>2. CurveEndsBefore(time)
    BY <1>3, <2>1 DEF VenueInv
  <2>3. index'["dbc"].through < time /\ index'["dbc"].started < time
    BY <1>3, <2>2
  <2>4. ASSUME NEW u \in Workers
        PROVE  /\ worker'[u].step \in Active => worker'[u].started < time
               /\ worker'[u].step = "read" => now <= time
    BY <1>3, <2>2 DEF CurveEndsBefore
  <2>. QED  BY <2>1, <2>3, <2>4 DEF CurveEndsBefore
<1>. QED  BY <1>1, <1>2, <1>3 DEF VenueInv

\* Listing and visiting leave the venue and the start of a scan alone.
LEMMA ScanGoesOn ==
  ASSUME IndexerInv, NEW w \in Workers, ListPage(w) \/ VisitBatch(w)
  PROVE  /\ \A u \in Workers \ {w} : worker'[u] = worker[u]
         /\ worker'[w].venue = worker[w].venue /\ worker'[w].started = worker[w].started
         /\ worker'[w].step \in Active /\ worker[w].step \in Active
<1>1. PICK job \in Job : job = worker[w]
  BY DEF IndexerInv
<1>2. worker \in [Workers -> Job]
  BY DEF IndexerInv
<1>3. CASE ListPage(w)
  BY <1>1, <1>2, <1>3 DEF ListPage, Active, Job
<1>4. CASE VisitBatch(w)
  <2>1. PICK visited \in SUBSET Batch(worker[w]), ok \in SUBSET Batch(worker[w]) :
           LET batch  == Batch(worker[w])
               passed == Passed(batch, ok)
               ends   == worker[w].previous.cursor = 0 /\ \E i \in passed : Initializes(worker[w], i) IN
           /\ ok \subseteq visited
           /\ stored' = stored \cup Rows(worker[w].venue, visited)
           /\ worker' = [worker EXCEPT ![w] =
                [worker[w] EXCEPT
                          !.step = "checkpoint",
                          !.at = IF passed = {} THEN worker[w].at ELSE Min(passed),
                          !.creation = IF \E i \in ok : Initializes(worker[w], i)
                                       THEN chain[worker[w].venue][1].time ELSE worker[w].creation,
                          !.next = Min(batch) - 1,
                          !.then = IF passed # batch THEN "leave"
                                   ELSE IF ends \/ Min(batch) = worker[w].last THEN "finish" ELSE "scan"]]
    BY <1>4, Zenon DEF VisitBatch
  <2>2. PICK passed : passed = Passed(Batch(worker[w]), ok)
    OBVIOUS
  <2>3. PICK at : at = IF passed = {} THEN worker[w].at ELSE Min(passed)
    OBVIOUS
  <2>4. PICK creation : creation = IF \E i \in ok : Initializes(worker[w], i)
                                    THEN chain[worker[w].venue][1].time ELSE worker[w].creation
    OBVIOUS
  <2>5. PICK then : then = IF passed # Batch(worker[w]) THEN "leave"
                            ELSE IF \/ worker[w].previous.cursor = 0 /\ \E i \in passed : Initializes(worker[w], i)
                                    \/ Min(Batch(worker[w])) = worker[w].last THEN "finish" ELSE "scan"
    OBVIOUS
  <2>6. PICK next : next = Min(Batch(worker[w])) - 1
    OBVIOUS
  <2>7. worker' = [worker EXCEPT ![w] = [worker[w] EXCEPT
                    !.step = "checkpoint", !.at = at, !.creation = creation,
                    !.next = next, !.then = then]]
    BY <2>1, <2>2, <2>3, <2>4, <2>5, <2>6, Zenon
  <2>8. worker[w].step = "scan"
    BY <1>4 DEF VisitBatch
  <2>. QED  BY <1>1, <1>2, <2>7, <2>8 DEF Active, Job
<1>. QED  BY <1>3, <1>4

LEMMA RunsKeepVenue ==
  ASSUME IndexerInv, VenueInv, NEW w \in Workers,
         ClaimLease(w) \/ ReadCursor(w) \/ ListPage(w) \/ VisitBatch(w)
  PROVE  VenueInv'
<1>1. UNCHANGED <<now, chain, graduated, index>>
  BY DEF ClaimLease, ReadCursor, ListPage, VisitBatch
<1>2. \A u \in Workers \ {w} : worker'[u] = worker[u]
  BY ScanGoesOn DEF ClaimLease, ReadCursor, IndexerInv
<1>3. PICK job \in Job : job = worker[w]
  BY DEF IndexerInv
<1>4. job.venue = "damm" => graduated
  BY <1>3 DEF VenueInv
<1>5. CASE ClaimLease(w)
  <2>1. worker'[w].venue = "dbc" /\ worker'[w].step = "snapshot"
    BY <1>5 DEF ClaimLease, IndexerInv, NoJob
  <2>. QED  BY <1>1, <1>2, <2>1, RunKeepsVenue DEF CurveEndsBefore, Active
<1>6. CASE ReadCursor(w)
  <2>1. PICK begun : begun = IF index[job.venue].started # NoTime
                                 THEN index[job.venue].started ELSE root
    OBVIOUS
  <2>2. /\ worker'[w].venue = job.venue /\ worker'[w].step = "list"
        /\ worker'[w].started = begun /\ job.step = "read"
    BY <1>3, <1>6, <2>1 DEF ReadCursor, IndexerInv, Job
  <2>3. ASSUME NEW time \in Int, ~ graduated, CurveEndsBefore(time) PROVE begun < time
    <3>1. job.venue = "dbc" /\ now <= time /\ index["dbc"].started < time
      BY <1>3, <1>4, <2>2, <2>3 DEF CurveEndsBefore, Job, Venues
    <3>. QED  BY <2>1, <3>1, RowsAreEarlier DEF root
  <2>. QED  BY <1>1, <1>2, <1>4, <2>2, <2>3, RunKeepsVenue DEF CurveEndsBefore
<1>7. CASE ListPage(w) \/ VisitBatch(w)
  <2>1. /\ worker'[w].venue = job.venue /\ worker'[w].started = job.started
        /\ worker'[w].step \in Active /\ job.step \in Active
    BY <1>3, <1>7, ScanGoesOn
  <2>2. ASSUME NEW time \in Int, CurveEndsBefore(time)
        PROVE  /\ index'["dbc"].through < time /\ index'["dbc"].started < time
               /\ worker'[w].started < time /\ worker'[w].step # "read"
    BY <1>1, <1>3, <2>1, <2>2 DEF CurveEndsBefore, Active
  <2>. QED  BY <1>1, <1>2, <1>4, <2>1, <2>2, RunKeepsVenue
<1>. QED  BY <1>5, <1>6, <1>7

LEMMA SnapshotKeepsVenue ==
  ASSUME IndexerInv, VenueInv, NEW w \in Workers, RefreshSnapshot(w)
  PROVE  VenueInv'
<1>1. PICK seen \in BOOLEAN : seen = (chain["damm"] # <<>>)
  OBVIOUS
<1>2. graduated' = seen /\ chain' = chain
  BY <1>1 DEF RefreshSnapshot
<1>3. PICK v : worker' = [worker EXCEPT ![w] = Reading(v)] /\ (v = "damm" => seen)
  <2>1. CASE graduated'
    BY <1>2, <2>1 DEF RefreshSnapshot
  <2>2. CASE ~ graduated'
    <3>1. worker' = [worker EXCEPT ![w] = Reading("dbc")]
      BY <2>2 DEF RefreshSnapshot
    <3>2. "dbc" = "damm" => seen
      OBVIOUS
    <3>. QED  BY <3>1, <3>2, Zenon
  <2>. QED  BY <2>1, <2>2
<1>4. worker \in [Workers -> Job]
  BY DEF IndexerInv
<1>5. graduated => seen
  BY <1>1 DEF VenueInv
<1>6. \A u \in Workers : worker'[u].venue = "damm" => seen
  <2>1. worker'[w].venue = v
    BY <1>3, <1>4 DEF Reading, NoJob
  <2>2. \A u \in Workers \ {w} : worker'[u] = worker[u]
    BY <1>3, <1>4
  <2>. QED  BY <2>1, <2>2, <1>3, <1>5 DEF VenueInv
<1>7. ~ seen => DOMAIN chain["damm"] = {}
  <2>1. ~ seen => chain["damm"] = << >>
    BY <1>1, Zenon
  <2>. QED  BY <2>1
<1>. QED  BY <1>1, <1>2, <1>6, <1>7 DEF VenueInv

\* The row of a run on the curve, and what follows a scan.
LEMMA SavesKeepVenue ==
  ASSUME IndexerInv, VenueInv, NEW w \in Workers,
         \/ Checkpoint(w) \/ FinishCurve(w) \/ FinishGraduated(w) \/ Deadline(w) \/ Crash(w)
  PROVE  VenueInv'
<1>1. UNCHANGED <<now, chain, graduated>>
  BY DEF Checkpoint, FinishCurve, FinishGraduated, Deadline, Crash
<1>2. worker \in [Workers -> Job] /\ index \in [Venues -> Cursor] /\ "dbc" \in Venues
  BY DEF IndexerInv, Venues
<1>3. PICK job \in Job : job = worker[w]
  BY <1>2
<1>4. job.venue = "damm" => graduated
  BY <1>3 DEF VenueInv
<1>5. /\ Reading("dbc").venue = "dbc" /\ NoJob.venue = "dbc"
      /\ Reading("dbc").step = "read" /\ NoJob.step = "idle"
  BY DEF Reading, NoJob
<1>. DEFINE Follows(new) ==
       \/ new = NoJob
       \/ (job.venue = "damm" /\ new = Reading("dbc"))
       \/ (/\ new = [job EXCEPT !.step = job.then] /\ job.step = "checkpoint"
           /\ job.then \in {"scan", "finish"})
<1>6. PICK new : worker' = [worker EXCEPT ![w] = new] /\ Follows(new)
  <2>1. AfterScan(job) = NoJob \/ (job.venue = "damm" /\ AfterScan(job) = Reading("dbc"))
    BY DEF AfterScan
  <2>2. CASE Checkpoint(w)
    <3>1. job.step = "checkpoint" /\ job.then \in {"leave", "scan", "finish"}
      BY <1>3, <2>2 DEF Checkpoint, IndexerInv, JobInv
    <3>2. PICK new : new = IF job.then = "leave" THEN AfterScan(job) ELSE [job EXCEPT !.step = job.then]
      OBVIOUS
    <3>3. worker' = [worker EXCEPT ![w] = new]
      BY <1>3, <2>2, <3>2 DEF Checkpoint
    <3>4. Follows(new)
      BY <2>1, <3>1, <3>2
    <3>. QED  BY <3>3, <3>4
  <2>3. CASE FinishCurve(w)
    BY <2>3, Zenon DEF FinishCurve
  <2>4. CASE FinishGraduated(w)
    BY <1>3, <2>4, Zenon DEF FinishGraduated
  <2>5. CASE Deadline(w) \/ Crash(w)
    <3>1. \E new \in {NoJob, AfterScan(job)} : worker' = [worker EXCEPT ![w] = new]
      BY <1>3, <2>5 DEF Deadline, Crash
    <3>. QED  BY <2>1, <3>1, Zenon
  <2>. QED  BY <2>2, <2>3, <2>4, <2>5
<1>7. \A u \in Workers \ {w} : worker'[u] = worker[u]
  BY <1>2, <1>6
<1>8. worker'[w] = new
  BY <1>2, <1>6
<1>9. new.venue = "damm" => graduated
  BY <1>4, <1>5, <1>6 DEF Job
<1>10. ASSUME NEW time \in Int, ~ graduated, CurveEndsBefore(time)
       PROVE  /\ new.step \in Active => new.started < time
              /\ new.step # "read"
  <2>1. job.venue # "damm"
    BY <1>4, <1>10
  <2>2. CASE new = NoJob
    BY <2>2, <1>5 DEF Active
  <2>3. CASE new = [job EXCEPT !.step = job.then] /\ job.step = "checkpoint"
             /\ job.then \in {"scan", "finish"}
    <3>1. new.started = job.started /\ new.step = job.then
      BY <2>3 DEF Job
    <3>2. job.started < time
      BY <1>3, <1>10, <2>3 DEF CurveEndsBefore, Active
    <3>. QED  BY <2>3, <3>1, <3>2
  <2>. QED  BY <1>6, <2>1, <2>2, <2>3
<1>11. ASSUME NEW time \in Int, ~ graduated, CurveEndsBefore(time)
       PROVE  index'["dbc"].through < time /\ index'["dbc"].started < time
  <2>1. job.venue = "dbc" /\ index["dbc"].through < time /\ index["dbc"].started < time
    BY <1>4, <1>11 DEF Job, Venues, CurveEndsBefore
  <2>2. job.step \in Active => job.started < time
    BY <1>3, <1>11 DEF CurveEndsBefore
  <2>3. SavedCurve(job).through = index["dbc"].through /\ SavedCurve(job).started = job.started
    BY <1>2 DEF SavedCurve, Cursor
  <2>4. \A start : /\ Certified(job, start).through = job.started
                   /\ Certified(job, start).started = NoTime
    BY DEF Certified
  <2>5. NoTime < time
    BY <2>1, <1>2, RowsAreEarlier, TimesAreInts, HistoryAssumption DEF Cursor, Time, NoTime
  <2>6. CASE Checkpoint(w)
    <3>1. index' = [index EXCEPT !["dbc"] = SavedCurve(job)] /\ job.step = "checkpoint"
      BY <1>3, <2>1, <2>6 DEF Checkpoint, Saved
    <3>. QED  BY <1>2, <2>1, <2>2, <2>3, <3>1 DEF Active
  <2>7. CASE FinishCurve(w)
    <3>1. PICK start : start = IF job.previous.start = NoTime THEN 0 ELSE job.previous.start
      OBVIOUS
    <3>2. /\ index' = [index EXCEPT !["dbc"] = IF job.complete THEN Certified(job, start)
                                               ELSE SavedCurve(job)]
          /\ job.step = "finish"
      BY <1>3, <2>7, <3>1 DEF FinishCurve
    <3>3. \/ index'["dbc"] = Certified(job, start) \/ index'["dbc"] = SavedCurve(job)
      BY <1>2, <3>2
    <3>. QED  BY <2>1, <2>2, <2>3, <2>4, <2>5, <3>2, <3>3 DEF Active
  <2>8. CASE FinishGraduated(w)
    BY <1>3, <2>1, <2>8 DEF FinishGraduated
  <2>9. CASE Deadline(w) \/ Crash(w)
    BY <2>1, <2>9 DEF Deadline, Crash
  <2>. QED  BY <2>6, <2>7, <2>8, <2>9
<1>. QED  BY <1>1, <1>7, <1>8, <1>9, <1>10, <1>11, RunKeepsVenue

LEMMA NextKeepsVenue ==
  ASSUME IndexerInv, VenueInv, [Next]_vars
  PROVE  VenueInv'
<1>1. CASE Tick
  <2>1. \A w \in Workers : worker[w].step # "read"
    BY <1>1 DEF Tick
  <2>2. UNCHANGED <<chain, index, worker, graduated>>
    BY <1>1 DEF Tick
  <2>. QED  BY <2>1, <2>2 DEF VenueInv, CurveEndsBefore
<1>2. CASE \E v \in Venues, usd \in Volumes : Trades(v, usd)
  <2>1. ChainInv' /\ Grows /\ UNCHANGED <<now, index, worker, graduated>>
    BY <1>2, TradesGrow DEF Trades
  <2>2. /\ Len(chain["damm"]) \in Nat /\ DOMAIN chain["damm"] = 1 .. Len(chain["damm"])
        /\ Len(chain'["damm"]) \in Nat /\ DOMAIN chain'["damm"] = 1 .. Len(chain'["damm"])
        /\ \A i \in DOMAIN chain'["damm"] : chain'["damm"][i].time \in Int
    BY <2>1, ChainFacts, ChainFactsNext DEF IndexerInv, Venues
  <2>3. graduated => chain'["damm"] # <<>>
    <3>1. chain["damm"] \in Seq([time : Time, usd : Volumes])
      BY DEF IndexerInv, ChainInv, Venues
    <3>2. graduated => Len(chain["damm"]) # 0
      BY <3>1 DEF VenueInv
    <3>3. Len(chain["damm"]) <= Len(chain'["damm"])
      BY <2>1 DEF Grows, Venues
    <3>4. graduated => Len(chain'["damm"]) # 0
      BY <2>2, <3>2, <3>3
    <3>. QED  BY <3>4
  <2>4. ASSUME ~ graduated, NEW i \in DOMAIN chain'["damm"]
        PROVE  CurveEndsBefore(chain'["damm"][i].time)
    <3>1. CASE i \in DOMAIN chain["damm"]
      <4>1. chain'["damm"][i] = chain["damm"][i]
        BY <2>1, <3>1 DEF Grows, Venues
      <4>. QED  BY <2>4, <3>1, <4>1 DEF VenueInv
    <3>2. CASE i \notin DOMAIN chain["damm"]
      <4>1. PICK time \in Int : time = chain'["damm"][i].time
        BY <2>2
      <4>2. time >= now
        BY <2>1, <2>2, <3>2, <4>1 DEF Grows, Venues
      <4>. QED  BY <4>1, <4>2, RowsAreEarlier DEF CurveEndsBefore
    <3>. QED  BY <3>1, <3>2
  <2>. QED  BY <2>1, <2>3, <2>4 DEF VenueInv, CurveEndsBefore
<1>3. CASE UNCHANGED <<now, chain, index, worker, graduated>>
  BY <1>3 DEF VenueInv, CurveEndsBefore
<1>4. CASE \/ LeaseExpires \/ ObserveSnapshot \/ ObserveTrades \/ ReleaseInactive
           \/ UNCHANGED vars \/ (\E t \in Trade : PriceMissing(t))
           \/ (\E v \in Venues : \E i \in 1 .. MaxTx[v] : StoreRecent(v, i))
  <2>1. UNCHANGED <<now, chain, index, worker, graduated>>
    BY <1>4 DEF LeaseExpires, ObserveSnapshot, ObserveTrades, ReleaseInactive, vars,
       PriceMissing, StoreRecent
  <2>. QED  BY <2>1, <1>3
<1>5. ASSUME NEW w \in Workers, WorkerStep(w) \/ Deadline(w) \/ Crash(w)
      PROVE  VenueInv'
  BY <1>5, RunsKeepVenue, SnapshotKeepsVenue, SavesKeepVenue DEF WorkerStep
<1>. QED  BY <1>1, <1>2, <1>4, <1>5 DEF Next

\* A run only takes a step while no release is under way.
LEMMA ReleaseStopsRuns ==
  ASSUME ~ ChartRuns, ObservedInv, release.step # "idle", NEW w \in Workers,
         WorkerStep(w) \/ Deadline(w) \/ Crash(w)
  PROVE  FALSE
<1>1. worker[w].step = "idle"
  BY DEF ObservedInv
<1>. QED  BY <1>1 DEF WorkerStep, ClaimLease, RefreshSnapshot, ReadCursor, ListPage, VisitBatch,
     Checkpoint, FinishCurve, FinishGraduated, Deadline, Crash

\* What is certified of a venue stays in what the release has read.
LEMMA ReadStays ==
  ASSUME IndexerInv, ObservedInv, release.step = "decide", Grows, UNCHANGED <<index, release>>
  PROVE  \A v \in Venues : \A i \in 1 .. index'[v].cursor :
           IsSwap(<<v, i>>)' => <<v, i>> \in release'.stored
<1>. SUFFICES ASSUME NEW v \in Venues, NEW i \in 1 .. index[v].cursor, IsSwap(<<v, i>>)'
              PROVE  <<v, i>> \in release.stored
  OBVIOUS
<1>1. RowInv(v, index[v]) /\ index[v].cursor \in Nat
  BY DEF IndexerInv, Cursor
<1>2. i \in DOMAIN chain[v]
  BY <1>1, ChainFacts DEF RowInv, Final, IndexerInv
<1>3. chain'[v][i] = chain[v][i]
  BY <1>2 DEF Grows
<1>. QED  BY <1>3 DEF IsSwap, ObservedInv

LEMMA NextKeepsObserved ==
  ASSUME ~ ChartRuns, OnePage, IndexerInv, ReleaseInv, [Next]_vars
  PROVE  ObservedInv'
<1>1. /\ release \in Release /\ stored \subseteq Venues \X Nat /\ priced \subseteq Venues \X Nat
      /\ now \in Time /\ index["dbc"] \in Cursor /\ graduated \in BOOLEAN
  <2>1. stored \subseteq Venues \X Nat /\ priced \subseteq Venues \X Nat
    BY SwapsArePositions DEF IndexerInv, ReleaseInv, TradesInv
  <2>2. now \in Time
    BY HistoryAssumption DEF IndexerInv, ChainInv, Time
  <2>3. index["dbc"] \in Cursor
    BY DEF IndexerInv, Venues
  <2>. QED  BY <2>1, <2>2, <2>3 DEF ReleaseInv, ObservedInv, VenueInv
<1>2. NoRelease \in Release /\ NoRelease.step = "idle"
  BY DEF NoRelease, Release
<1>3. CASE ObserveSnapshot
  <2>1. PICK new : new = [NoRelease EXCEPT !.step = "trades", !.now = now, !.graduated = graduated,
                            !.start = index["dbc"].start, !.through = index["dbc"].through]
    OBVIOUS
  <2>2. new \in Release
    BY <1>1, <1>2, <2>1 DEF Release, Cursor
  <2>3. /\ new.step = "trades" /\ new.now = now
        /\ new.start = index["dbc"].start /\ new.through = index["dbc"].through
    BY <2>1 DEF NoRelease
  <2>4. new.graduated = graduated
    BY <2>1 DEF NoRelease
  <2>5. \A w \in Workers : worker[w].step = "idle"
    BY <1>3 DEF ObserveSnapshot
  <2>6. release' = new /\ UNCHANGED <<now, graduated, index, worker>>
    BY <1>3, <2>1, Zenon DEF ObserveSnapshot
  <2>. QED  BY <2>2, <2>3, <2>4, <2>5, <2>6 DEF ObservedInv
<1>4. CASE ObserveTrades
  <2>1. PICK new : new = [release EXCEPT !.step = "decide", !.stored = stored, !.priced = priced]
    OBVIOUS
  <2>2. new \in Release
    BY <1>1, <2>1 DEF Release
  <2>3. /\ new.step = "decide" /\ new.now = release.now /\ new.start = release.start
        /\ new.through = release.through /\ new.stored = stored
    BY <1>1, <2>1 DEF Release
  <2>4. new.graduated = release.graduated
    BY <1>1, <2>1 DEF Release
  <2>5. release' = new /\ UNCHANGED <<now, graduated, index, worker, stored, chain>>
    BY <1>4, <2>1, Zenon DEF ObserveTrades
  <2>6. release.step # "idle"
    BY <1>4 DEF ObserveTrades
  <2>7. ASSUME NEW v \in Venues, NEW i \in 1 .. index[v].cursor, IsSwap(<<v, i>>)
        PROVE  <<v, i>> \in stored
    BY <2>7 DEF IndexerInv, RowInv, Known, Fine
  <2>8. \A v \in Venues : \A i \in 1 .. index'[v].cursor : IsSwap(<<v, i>>)' => <<v, i>> \in new.stored
    BY <2>3, <2>5, <2>7 DEF IsSwap
  <2>. QED  BY <2>2, <2>3, <2>4, <2>5, <2>6, <2>8 DEF ReleaseInv, ObservedInv
<1>5. CASE ReleaseInactive
  BY <1>2, <1>5 DEF ReleaseInactive, ObservedInv
<1>6. CASE release' = release /\ release.step = "idle"
  BY <1>1, <1>6 DEF ObservedInv
<1>7. CASE /\ UNCHANGED <<now, graduated, index, worker, release>> /\ Grows
  <2>1. release.step = "decide" => release.stored \subseteq stored'
    BY <1>7 DEF Grows, ReleaseInv, ObservedInv
  <2>2. release.step = "decide" =>
          \A v \in Venues : \A i \in 1 .. index'[v].cursor :
            IsSwap(<<v, i>>)' => <<v, i>> \in release'.stored
    BY <1>7, ReadStays DEF ReleaseInv
  <2>. QED  BY <1>1, <1>7, <2>1, <2>2 DEF ReleaseInv, ObservedInv
<1>8. CASE \E w \in Workers : WorkerStep(w) \/ Deadline(w) \/ Crash(w)
  <2>1. release.step = "idle"
    BY <1>8, ReleaseStopsRuns DEF ReleaseInv
  <2>2. release' = release
    BY <1>8 DEF WorkerStep, ClaimLease, RefreshSnapshot, ReadCursor, ListPage, VisitBatch,
       Checkpoint, FinishCurve, FinishGraduated, Deadline, Crash
  <2>. QED  BY <2>1, <2>2, <1>6
<1>9. CASE Tick
  BY <1>6, <1>9 DEF Tick
<1>10. CASE \E v \in Venues, usd \in Volumes : Trades(v, usd)
  BY <1>7, <1>10, TradesGrow DEF Trades
<1>11. CASE \/ LeaseExpires \/ UNCHANGED vars \/ (\E t \in Trade : PriceMissing(t))
            \/ (\E v \in Venues : \E i \in 1 .. MaxTx[v] : StoreRecent(v, i))
  <2>1. UNCHANGED <<now, chain, graduated, index, worker, release>> /\ stored \subseteq stored'
    BY <1>11 DEF LeaseExpires, vars, PriceMissing, StoreRecent
  <2>2. Grows
    <3>1. ASSUME NEW v \in Venues
          PROVE  Len(chain[v]) \in Nat /\ now \in Nat /\ DOMAIN chain[v] = 1 .. Len(chain[v])
      BY ChainFacts DEF IndexerInv
    <3>2. now \in Nat
      BY <3>1 DEF Venues
    <3>. QED  BY <2>1, <3>1, <3>2 DEF Grows
  <2>. QED  BY <2>1, <2>2, <1>7
<1>. QED  BY <1>3, <1>4, <1>5, <1>8, <1>9, <1>10, <1>11 DEF Next

-----------------------------------------------------------------------------
(* Days *)

LEMMA DaysOfTimes ==
  ASSUME NEW n \in Nat, NEW t \in Nat
  PROVE  /\ Day(Midnight(n)) = Day(n)
         /\ Day(t) <= Day(n) - 1 => t < Midnight(n)
         /\ 0 <= Start(n) /\ Day(t) >= Day(Start(n)) => t >= Start(n)
<1>. DEFINE d == DayLength  k == n \div d  j == t \div d  m == k - InactivityDays
<1>1. d \in Nat \ {0} /\ InactivityDays \in Nat
  BY HistoryAssumption
<1>2. k \in Nat /\ j \in Nat /\ m \in Int
  BY <1>1
<1>3. j * d <= t /\ t < j * d + d
  BY <1>1
<1>4. (k * d) \div d = k
  BY <1>1, <1>2
<1>5. Day(Midnight(n)) = Day(n)
  BY <1>4 DEF Day, Midnight
<1>6. ASSUME j <= k - 1 PROVE t < k * d
  <2>1. (j + 1) * d <= k * d
    BY <1>1, <1>2, <1>6
  <2>2. (j + 1) * d = j * d + d
    BY <1>1, <1>2
  <2>. QED  BY <1>1, <1>2, <1>3, <2>1, <2>2
<1>7. Start(n) = m * d
  BY <1>1, <1>2 DEF Start, Midnight
<1>8. ASSUME 0 <= m * d, j >= (m * d) \div d PROVE t >= m * d
  <2>1. m \in Nat
    BY <1>1, <1>2, <1>8
  <2>2. (m * d) \div d = m
    BY <1>1, <2>1
  <2>3. m * d <= j * d
    BY <1>1, <1>2, <1>8, <2>1, <2>2
  <2>. QED  BY <1>1, <1>2, <1>3, <2>1, <2>3
<1>. QED  BY <1>5, <1>6, <1>7, <1>8 DEF Day, Midnight

-----------------------------------------------------------------------------
(* The theorem *)

\* A release that decides to give the ticker up has read every swap of the
\* days it looked at.
LEMMA ReadDaysAreWhole ==
  ASSUME IndexerInv, ReleaseInv, release.step = "decide", CoveredThrough # NoTime,
         CoveredThrough >= Midnight(release.now),
         NEW t \in Swaps, Day(TimeOf(t)) <= Day(release.now) - 1
  PROVE  t \in release.stored
<1>1. PICK v \in Venues : \E i \in DOMAIN chain[v] : t = <<v, i>> /\ IsSwap(t)
  BY SwapIsTrade
<1>2. PICK i \in DOMAIN chain[v] : t = <<v, i>> /\ IsSwap(t)
  BY <1>1
<1>3. PICK time \in Nat : time = TimeOf(t) /\ time = chain[v][i].time
  <2>1. chain[v][i].time \in Nat
    BY ChainFacts, HistoryAssumption DEF IndexerInv, Time
  <2>. QED  BY <1>2, <2>1 DEF TimeOf
<1>4. PICK n \in Nat : n = release.now
  <2>1. release.now = now
    BY DEF ReleaseInv, ObservedInv
  <2>. QED  BY <2>1, RowsAreEarlier
<1>5. PICK midnight \in Int : midnight = Midnight(n) /\ time < midnight
  <2>1. Midnight(n) \in Int
    BY HistoryAssumption DEF Midnight
  <2>. QED  BY <1>3, <1>4, <2>1, DaysOfTimes
<1>6. /\ release.graduated = graduated /\ release.through = index["dbc"].through
      /\ graduated \in BOOLEAN
  BY DEF ReleaseInv, ObservedInv, VenueInv
<1>7. /\ index["dbc"].through \in Int /\ index["damm"].through \in Int
      /\ "dbc" \in Venues /\ "damm" \in Venues
  BY TimesAreInts DEF IndexerInv, Cursor, Venues
<1>8. Min({release.through, index["damm"].through}) >= midnight =>
         release.through >= midnight /\ index["damm"].through >= midnight
  <2>1. PICK k \in Int, l \in Int : k = release.through /\ l = index["damm"].through
    BY <1>6, <1>7
  <2>2. Min({k, l}) \in Int /\ Min({k, l}) <= k /\ Min({k, l}) <= l
    BY MinOfTwo
  <2>3. Min({k, l}) >= midnight => k >= midnight /\ l >= midnight
    BY <2>2
  <2>. QED  BY <2>1, <2>3
<1>9. release.through # NoTime /\ release.through >= midnight
  <2>1. CASE ~ release.graduated
    BY <1>4, <1>5, <2>1 DEF CoveredThrough
  <2>2. CASE release.graduated
    <3>1. /\ release.through # NoTime /\ index["damm"].through # NoTime
          /\ Min({release.through, index["damm"].through}) >= midnight
      BY <1>4, <1>5, <2>2 DEF CoveredThrough
    <3>. QED  BY <3>1, <1>8
  <2>. QED  BY <2>1, <2>2
<1>10. CASE v = "dbc" \/ graduated
  <2>1. index[v].through # NoTime /\ index[v].through >= midnight
    <3>1. CASE v = "dbc"
      BY <3>1, <1>6, <1>9
    <3>2. CASE v = "damm" /\ graduated
      <4>1. /\ index["damm"].through # NoTime
            /\ Min({release.through, index["damm"].through}) >= midnight
        BY <1>4, <1>5, <1>6, <3>2 DEF CoveredThrough
      <4>. QED  BY <3>2, <4>1, <1>8
    <3>. QED  BY <1>10, <3>1, <3>2 DEF Venues
  <2>2. index[v].through \in Int /\ index[v].cursor \in Nat /\ RowInv(v, index[v])
    BY TimesAreInts DEF IndexerInv, Cursor
  <2>3. i <= index[v].cursor
    BY <1>3, <1>5, <2>1, <2>2 DEF RowInv, UpTo
  <2>4. i \in 1 .. index[v].cursor
    BY <2>2, <2>3, ChainFacts DEF IndexerInv
  <2>. QED  BY <1>2, <2>4 DEF ReleaseInv, ObservedInv
<1>11. CASE v = "damm" /\ ~ graduated
  <2>1. index["dbc"].through < time
    BY <1>3, <1>11 DEF ReleaseInv, VenueInv, CurveEndsBefore
  <2>. QED  BY <2>1, <1>5, <1>6, <1>7, <1>9
<1>. QED  BY <1>6, <1>10, <1>11 DEF Venues

LEMMA ReleaseIsQuiet ==
  ASSUME IndexerInv, ReleaseInv, release.step = "decide", CanReleaseTicker
  PROVE  WasQuiet(release.now)
<1>. DEFINE start == Start(release.now)  midnight == Midnight(release.now)
            recent == {t \in release.stored : TimeOf(t) >= start}
<1>1. /\ 0 <= start /\ CoveredThrough # NoTime /\ CoveredThrough >= midnight
      /\ \A day \in Day(start) .. Day(midnight) : Volume(OnDay(recent, day)) < QuietLimit
  BY DEF CanReleaseTicker
<1>2. PICK n \in Nat : n = release.now
  <2>1. release.now = now
    BY DEF ReleaseInv, ObservedInv
  <2>. QED  BY <2>1, RowsAreEarlier
<1>3. Day(midnight) = Day(n) /\ Day(n) \in Int /\ Day(start) \in Int /\ start \in Int
  <2>1. DayLength \in Nat \ {0} /\ InactivityDays \in Nat
    BY HistoryAssumption
  <2>2. Day(n) \in Int /\ Start(n) \in Int /\ Day(Start(n)) \in Int
    BY <2>1 DEF Day, Start, Midnight
  <2>. QED  BY <1>2, <2>2, DaysOfTimes
<1>4. ASSUME NEW t \in Swaps PROVE TimeOf(t) \in Nat
  <2>1. PICK v \in Venues : \E i \in DOMAIN chain[v] : t = <<v, i>>
    BY SwapIsTrade
  <2>2. PICK i \in DOMAIN chain[v] : t = <<v, i>>
    BY <2>1
  <2>3. chain[v][i].time \in Nat
    BY ChainFacts, HistoryAssumption DEF IndexerInv, Time
  <2>. QED  BY <2>2, <2>3 DEF TimeOf
<1>5. release.stored \subseteq Swaps
  BY DEF ReleaseInv, ObservedInv, TradesInv
<1>6. ASSUME NEW day \in Day(start) .. Day(n) - 1
      PROVE  OnDay(Swaps, day) = OnDay(recent, day)
  <2>1. ASSUME NEW t \in Swaps, Day(TimeOf(t)) = day PROVE t \in recent
    <3>1. PICK time \in Nat : time = TimeOf(t)
      BY <1>4
    <3>2. Day(time) <= Day(n) - 1 /\ Day(time) >= Day(start)
      BY <1>3, <2>1, <3>1
    <3>3. t \in release.stored
      BY <1>1, <1>2, <3>1, <3>2, ReadDaysAreWhole
    <3>4. time >= start
      BY <1>1, <1>2, <3>2, DaysOfTimes
    <3>. QED  BY <3>1, <3>3, <3>4
  <2>2. recent \subseteq Swaps
    BY <1>5
  <2>. QED  BY <2>1, <2>2 DEF OnDay
<1>7. ASSUME NEW day \in Day(start) .. Day(n) - 1
      PROVE  Volume(OnDay(Swaps, day)) < QuietLimit
  <2>1. day \in Day(start) .. Day(midnight)
    BY <1>3
  <2>2. Volume(OnDay(recent, day)) < QuietLimit
    BY <1>1, <2>1
  <2>. QED  BY <1>6, <2>2
<1>. QED  BY <1>2, <1>7 DEF WasQuiet

LEMMA InitEstablishesRelease ==
  ASSUME Init
  PROVE  ReleaseInv
<1>1. TradesInv
  BY DEF Init, TradesInv
<1>2. /\ graduated = FALSE /\ release = NoRelease /\ \A w \in Workers : worker[w] = NoJob
      /\ chain["damm"] = << >>
  BY DEF Init, Venues
<1>3. VenueInv
  <2>1. DOMAIN chain["damm"] = {}
    BY <1>2
  <2>2. \A w \in Workers : worker[w].venue = "damm" => graduated
    BY <1>2 DEF NoJob
  <2>3. graduated \in BOOLEAN /\ (graduated => chain["damm"] # << >>)
    BY <1>2
  <2>. QED  BY <2>1, <2>2, <2>3 DEF VenueInv
<1>4. ObservedInv
  BY <1>2 DEF ObservedInv, NoRelease, Release
<1>. QED  BY <1>1, <1>3, <1>4 DEF ReleaseInv

\* A ticker is given up only after thirty days that were quiet on the chain
\* (canReleaseTicker, releaseInactiveTickers): provided that no chart request
\* indexes the pool in between, and that nothing is missing from the DAMM
\* pool's index.
THEOREM QuietReleases ==
  ASSUME ~ ChartRuns, OnePage
  PROVE  Spec => ReleasedAfterQuietDays
<1>1. Init => IndexerInv /\ ReleaseInv
  BY InitEstablishesInv, InitEstablishesRelease
<1>2. IndexerInv /\ ReleaseInv /\ [Next]_vars => (IndexerInv /\ ReleaseInv)'
  BY NextKeepsInv, NextKeepsTrades, NextKeepsVenue, NextKeepsObserved DEF ReleaseInv
<1>3. IndexerInv /\ ReleaseInv /\ [Next]_vars =>
        [claimed /\ ~ claimed' => WasQuiet(release.now)]_vars
  <2>. SUFFICES ASSUME IndexerInv, ReleaseInv, [Next]_vars, claimed, ~ claimed'
                PROVE  WasQuiet(release.now)
    OBVIOUS
  <2>1. ReleaseInactive
    BY DEF Next, WorkerStep, ClaimLease, RefreshSnapshot, ReadCursor, ListPage, VisitBatch,
       Checkpoint, FinishCurve, FinishGraduated, Deadline, Crash, Tick, LeaseExpires, Trades,
       StoreRecent, PriceMissing, ObserveSnapshot, ObserveTrades, vars
  <2>2. release.step = "decide" /\ CanReleaseTicker
    BY <2>1 DEF ReleaseInactive
  <2>. QED  BY <2>2, ReleaseIsQuiet
<1>. QED  BY <1>1, <1>2, <1>3, PTL DEF Spec, ReleasedAfterQuietDays

-----------------------------------------------------------------------------
(* ----------------------------- chart catch-ups ------------------------- *)

LEMMA PoolsCount ==
  ASSUME RotationAssumption PROVE CatchUps!Cardinality(Pools) \in Nat
<1>1. CatchUps!Cardinality(Pools) = Cardinality(Pools)
  BY DEF CatchUps!Cardinality, Cardinality
<1> QED BY <1>1, FS_CardinalityType DEF RotationAssumption

LEMMA OrdersAreSequences ==
  ASSUME RotationAssumption, NEW order \in CatchUps!Orders
  PROVE  order \in Seq(Pools) /\ Len(order) = CatchUps!Cardinality(Pools)
BY PoolsCount DEF CatchUps!Orders

(* A pool that goes to the end leaves the others where they are.           *)
LEMMA MovesToEnd ==
  ASSUME RotationAssumption, NEW order \in CatchUps!Orders, NEW p \in Pools
  PROVE  CatchUps!ToTheEnd(order, p) \in CatchUps!Orders
<1> DEFINE n == CatchUps!Cardinality(Pools)
           After == CatchUps!ToTheEnd(order, p)
<1>1. order \in [1..n -> Pools] /\ Len(order) = n /\ DOMAIN order = 1..n
      /\ \A q \in Pools : \E i \in 1..n : order[i] = q
  BY OrdersAreSequences DEF CatchUps!Orders
<1>2. n \in Nat
  BY PoolsCount
<1>3. After = [i \in 1..n |-> IF i = n THEN p
                 ELSE IF \E j \in 1..i : order[j] = p THEN order[i + 1] ELSE order[i]]
  BY <1>1 DEF CatchUps!ToTheEnd
<1> HIDE DEF n, After
<1>4. After \in [1..n -> Pools]
  BY <1>1, <1>2, <1>3
<1>5. ASSUME NEW q \in Pools PROVE \E i \in 1..n : After[i] = q
  <2>1. CASE q = p
    <3>1. n \in 1..n
      BY <1>1, <1>2
    <3> QED BY <1>3, <2>1, <3>1
  <2>2. CASE q # p
    <3>1. PICK k \in 1..n : order[k] = q
      BY <1>1
    <3>2. CASE \E j \in 1..k : order[j] = p
      <4>1. PICK j \in 1..k : order[j] = p
        BY <3>2
      <4>2. j < k
        BY <2>2, <3>1, <4>1, <1>2
      <4>3. k - 1 \in 1..n /\ k - 1 # n /\ j \in 1..(k - 1) /\ (k - 1) + 1 = k
        BY <1>2, <4>2
      <4> QED BY <1>3, <3>1, <4>1, <4>3
    <3>3. CASE ~ \E j \in 1..k : order[j] = p
      <4>1. k # n
        BY <1>1, <3>3
      <4> QED BY <1>3, <3>1, <3>3, <4>1
    <3> QED BY <3>2, <3>3
  <2> QED BY <2>1, <2>2
<1>6. DOMAIN After = 1..n
  BY <1>3
<1> QED BY <1>4, <1>5, <1>6 DEF CatchUps!Orders, n, After

(* What is kept of a batch are pools.                                      *)
LEMMA ThoseArePools ==
  ASSUME NEW batch \in Seq(Pools), NEW S PROVE CatchUps!Those(batch, S) \in Seq(Pools)
<1> DEFINE N == Len(batch)
           Step(n, before) == IF batch[n] \in S THEN Append(before, batch[n]) ELSE before
           Runs(g, m) == \A n \in 0..m : g[n] = IF n = 0 THEN << >> ELSE Step(n, g[n - 1])
           Fold(g) == g = [n \in 0..N |-> IF n = 0 THEN << >> ELSE Step(n, g[n - 1])]
           Reached == {m \in Nat : m <= N => \E g : Runs(g, m)}
<1>1. N \in Nat
  OBVIOUS
<1>2. 0 \in Reached
  <2>1. Runs([n \in {0} |-> << >>], 0)
    OBVIOUS
  <2> QED BY <2>1
<1>3. ASSUME NEW m \in Nat, m \in Reached PROVE m + 1 \in Reached
  <2> SUFFICES ASSUME m + 1 <= N PROVE \E g : Runs(g, m + 1)
    OBVIOUS
  <2>1. PICK g : Runs(g, m)
    BY <1>1, <1>3
  <2> DEFINE h == [n \in 0..(m + 1) |-> IF n = m + 1 THEN Step(n, g[m]) ELSE g[n]]
  <2>2. ASSUME NEW n \in 0..(m + 1) PROVE h[n] = IF n = 0 THEN << >> ELSE Step(n, h[n - 1])
    <3> HIDE DEF Step
    <3>1. CASE n = m + 1
      BY <3>1
    <3>2. CASE n # m + 1
      <4>1. n \in 0..m /\ h[n] = g[n] /\ (n # 0 => h[n - 1] = g[n - 1])
        BY <3>2
      <4>2. g[n] = IF n = 0 THEN << >> ELSE Step(n, g[n - 1])
        BY <2>1, <4>1
      <4> HIDE DEF h
      <4> QED BY <4>1, <4>2
    <3> QED BY <3>1, <3>2
  <2> HIDE DEF h, Step
  <2>3. Runs(h, m + 1)
    BY <2>2
  <2> QED BY <2>3
<1> HIDE DEF Step
<1>4. \E g : Runs(g, N)
  <2>1. Nat \subseteq Reached
    <3> HIDE DEF Reached
    <3> QED BY <1>2, <1>3, EveryNat
  <2> QED BY <1>1, <2>1
<1>5. \E g : Fold(g)
  <2>1. PICK g : Runs(g, N)
    BY <1>4
  <2> DEFINE h == [n \in 0..N |-> g[n]]
  <2>2. ASSUME NEW n \in 0..N PROVE h[n] = IF n = 0 THEN << >> ELSE Step(n, h[n - 1])
    <3>1. h[n] = g[n] /\ (n # 0 => h[n - 1] = g[n - 1])
      BY <1>1
    <3>2. g[n] = IF n = 0 THEN << >> ELSE Step(n, g[n - 1])
      BY <2>1
    <3> HIDE DEF h
    <3> QED BY <3>1, <3>2
  <2>3. h = [n \in 0..N |-> h[n]]
    OBVIOUS
  <2> HIDE DEF h
  <2>4. Fold(h)
    BY <2>2, <2>3
  <2> QED BY <2>4
<1> DEFINE F == CHOOSE g : Fold(g)
<1>6. Fold(F)
  <2> HIDE DEF Fold
  <2> QED BY <1>5
<1>7. CatchUps!Those(batch, S) = F[N]
  BY DEF CatchUps!Those, Step
<1> HIDE DEF F
<1> DEFINE Built == {n \in Nat : n <= N => F[n] \in Seq(Pools)}
<1>8. 0 \in Built
  <2>1. F[0] = << >> /\ << >> \in Seq(Pools)
    BY <1>1, <1>6
  <2>2. F[0] \in Seq(Pools)
    BY <2>1
  <2> QED BY <2>2
<1>9. ASSUME NEW n \in Nat, n \in Built PROVE n + 1 \in Built
  <2> SUFFICES ASSUME n + 1 <= N PROVE F[n + 1] \in Seq(Pools)
    OBVIOUS
  <2>1. F[n] \in Seq(Pools) /\ n + 1 \in 1..N /\ batch[n + 1] \in Pools
    BY <1>1, <1>9
  <2>2. F[n + 1] = Step(n + 1, F[n])
    <3>1. n + 1 \in 0..N /\ n + 1 # 0 /\ (n + 1) - 1 = n
      BY <1>1
    <3> QED BY <1>6, <3>1
  <2> QED BY <2>1, <2>2 DEF Step
<1>10. F[N] \in Seq(Pools)
  <2>1. Nat \subseteq Built
    <3> HIDE DEF Built
    <3> QED BY <1>8, <1>9, EveryNat
  <2> QED BY <1>1, <2>1
<1> QED BY <1>7, <1>10

-----------------------------------------------------------------------------
Working(budget) == [on : BOOLEAN, batch : Seq(Pools), left : 0..budget]

(* A pool that was caught up with in this minute rests.                    *)
RotationInv ==
  /\ sweeps \in CatchUps!Orders /\ attempts \in CatchUps!Orders /\ resting \subseteq Pools
  /\ sweep \in Working(PerSweep) /\ run \in Working(PerRun)
  /\ chart \in [Visitors -> Pools \cup {None}]
  /\ started \in [Pools -> {0, 1}]
  /\ \A p \in Pools : started[p] = 1 => p \in resting

LEMMA RotationInit == ASSUME RotationAssumption, CatchUps!Init PROVE RotationInv
<1>1. CatchUps!Idle \in Working(PerSweep) /\ CatchUps!Idle \in Working(PerRun)
  BY DEF RotationAssumption, CatchUps!Idle, Working
<1> QED BY <1>1 DEF CatchUps!Init, RotationInv

(* The batch of a run are pools.                                           *)
LEMMA BatchesArePools ==
  ASSUME RotationAssumption, NEW order \in CatchUps!Orders
  PROVE  /\ CatchUps!FirstOf(order) \in Seq(Pools)
         /\ CatchUps!Arranged(CatchUps!FirstOf(order)) \in Seq(Pools)
<1>1. order \in Seq(Pools)
  BY OrdersAreSequences
<1> DEFINE m == IF BatchSize < Len(order) THEN BatchSize ELSE Len(order)
<1>2. m \in Nat /\ m <= Len(order) /\ CatchUps!FirstOf(order) = SubSeq(order, 1, m)
  BY <1>1 DEF RotationAssumption, CatchUps!FirstOf
<1> HIDE DEF m
<1>3. CatchUps!FirstOf(order) \in Seq(Pools)
  BY <1>1, <1>2
<1>4. CatchUps!Those(CatchUps!FirstOf(order), Graduated) \in Seq(Pools)
      /\ CatchUps!Those(CatchUps!FirstOf(order), Pools \ Graduated) \in Seq(Pools)
  BY <1>3, ThoseArePools
<1> QED BY <1>3, <1>4 DEF CatchUps!Arranged

LEMMA RotationStep ==
  ASSUME RotationAssumption, RotationInv, [CatchUps!Next]_rotationVars PROVE RotationInv'
<1>o. sweeps \in CatchUps!Orders /\ attempts \in CatchUps!Orders
  BY DEF RotationInv
<1>w. PICK s \in Working(PerSweep) : s = sweep
  BY DEF RotationInv
<1>r. PICK r \in Working(PerRun) : r = run
  BY DEF RotationInv
<1>i. CatchUps!Idle \in Working(PerSweep) /\ CatchUps!Idle \in Working(PerRun)
  BY DEF RotationAssumption, CatchUps!Idle, Working
<1>1. CASE CatchUps!StartSweep
  <2>1. sweep' \in Working(PerSweep)
    BY <1>1, <1>o, BatchesArePools DEF RotationAssumption, CatchUps!StartSweep, Working
  <2> QED BY <1>1, <2>1 DEF CatchUps!StartSweep, RotationInv
<1>2. CASE CatchUps!SweepPool
  <2>1. Head(s.batch) \in Pools /\ Tail(s.batch) \in Seq(Pools) /\ s.left - 1 \in 0..PerSweep
    BY <1>2, <1>w DEF RotationAssumption, CatchUps!SweepPool, Working
  <2>2. sweep' = [s EXCEPT !.batch = Tail(s.batch), !.left = s.left - 1]
    BY <1>2, <1>w DEF CatchUps!SweepPool, Working
  <2>3. sweep' \in Working(PerSweep)
    BY <2>1, <2>2 DEF Working
  <2>4. sweeps' \in CatchUps!Orders
    BY <1>2, <1>o, <1>w, <2>1, MovesToEnd DEF CatchUps!SweepPool
  <2> QED BY <1>2, <2>3, <2>4 DEF CatchUps!SweepPool, RotationInv
<1>3. CASE CatchUps!EndSweep
  BY <1>3, <1>i DEF CatchUps!EndSweep, RotationInv
<1>4. CASE CatchUps!StartRun
  <2>1. run' \in Working(PerRun)
    BY <1>4, <1>o, BatchesArePools DEF RotationAssumption, CatchUps!StartRun, Working
  <2> QED BY <1>4, <2>1 DEF CatchUps!StartRun, RotationInv
<1>5. CASE CatchUps!ReconcileThrows \/ CatchUps!EndRun
  BY <1>5, <1>i DEF CatchUps!ReconcileThrows, CatchUps!EndRun, RotationInv
<1>6. CASE CatchUps!IndexPool
  <2>1. Head(r.batch) \in Pools /\ Tail(r.batch) \in Seq(Pools) /\ r.left - 1 \in 0..PerRun
    BY <1>6, <1>r DEF RotationAssumption, CatchUps!IndexPool, Working
  <2>2. run' = [r EXCEPT !.batch = Tail(r.batch), !.left = r.left - 1]
    BY <1>6, <1>r DEF CatchUps!IndexPool, Working
  <2>3. run' \in Working(PerRun)
    BY <2>1, <2>2 DEF Working
  <2>4. attempts' \in CatchUps!Orders /\ resting \subseteq resting' /\ resting' \subseteq Pools
    BY <1>6, <1>o, <1>r, <2>1, MovesToEnd
    DEF CatchUps!IndexPool, CatchUps!Attempt, CatchUps!AfterAttempt, RotationInv
  <2> QED BY <1>6, <2>3, <2>4 DEF CatchUps!IndexPool, RotationInv
<1>7. ASSUME NEW v \in Visitors, NEW p \in Pools, CatchUps!AskChart(v, p)
      PROVE  RotationInv'
  BY <1>7 DEF CatchUps!AskChart, RotationInv
<1>8. ASSUME NEW v \in Visitors, CatchUps!CatchUp(v) PROVE RotationInv'
  <2>1. chart[v] \in Pools /\ chart' \in [Visitors -> Pools \cup {None}]
        /\ UNCHANGED <<sweeps, sweep, run>>
    BY <1>8 DEF CatchUps!CatchUp, RotationInv
  <2>2. CASE CatchUps!MinuteOld(chart[v])
    <3>1. started' = [started EXCEPT ![chart[v]] = started[chart[v]] + 1]
          /\ attempts' = CatchUps!ToTheEnd(attempts, chart[v])
          /\ resting' = resting \cup {chart[v]}
      BY <1>8, <2>2 DEF CatchUps!CatchUp, RotationInv
    <3>2. started[chart[v]] = 0
      BY <2>1, <2>2 DEF CatchUps!MinuteOld, RotationInv
    <3>3. started' \in [Pools -> {0, 1}]
      BY <2>1, <3>1, <3>2 DEF RotationInv
    <3>4. \A p \in Pools : started'[p] = 1 => p \in resting'
      BY <3>1 DEF RotationInv
    <3>5. attempts' \in CatchUps!Orders
      BY <1>o, <2>1, <3>1, MovesToEnd
    <3> QED BY <2>1, <3>1, <3>3, <3>4, <3>5 DEF RotationInv
  <2>3. CASE ~ CatchUps!MinuteOld(chart[v])
    BY <1>8, <2>1, <2>3 DEF CatchUps!CatchUp, RotationInv
  <2> QED BY <2>2, <2>3
<1>9. ASSUME NEW p \in Pools, CatchUps!MinutePasses(p) PROVE RotationInv'
  <2>1. started' \in [Pools -> {0, 1}]
        /\ \A q \in Pools : started'[q] = 1 => q # p /\ started[q] = 1
    BY <1>9 DEF CatchUps!MinutePasses, RotationInv
  <2> QED BY <1>9, <2>1 DEF CatchUps!MinutePasses, RotationInv
<1>10. CASE UNCHANGED rotationVars
  BY <1>10 DEF rotationVars, RotationInv
<1> QED BY <1>1, <1>2, <1>3, <1>4, <1>5, <1>6, <1>7, <1>8, <1>9, <1>10 DEF CatchUps!Next

LEMMA RotationKeepsPromises ==
  ASSUME RotationInv PROVE CatchUps!TypeOK /\ CatchUps!OneCatchUpPerMinute
BY DEF RotationInv, Working, CatchUps!TypeOK, CatchUps!OneCatchUpPerMinute

-----------------------------------------------------------------------------
(* --------------------------- limits of requests ------------------------ *)

(* A request at a stage of its list.                                       *)
GateRequest ==
  [id : Nat, stage : Nat, action : STRING, wallet : Wallets \cup {None},
   session : Wallets \cup {None}, visitor : Visitors, instance : Instances,
   sameOrigin : BOOLEAN]

StageLists ==
  LET limit(name) == Gate!LimitOf(name)
      write == <<Gate!Origin, limit("request"), Gate!Body>> IN
  {<< >>, <<Gate!Session>>, <<Gate!Secret>>, <<limit("sale-share")>>,
   <<limit("trade-preview")>>, <<limit("public-read")>>, write,
   <<Gate!Origin, limit("request"), Gate!Body, Gate!Session>>,
   <<Gate!Origin, limit("request"), Gate!Body, Gate!Session, limit("image")>>,
   <<limit("fees-status")>>, <<limit("fees-read"), Gate!Session>>, <<limit("fees-read")>>,
   <<Gate!Origin, Gate!Session, limit("fees-write"), Gate!Body>>}

LEMMA JoinedToNone == \A a : <<a>> \o << >> = <<a>>
OBVIOUS

(* The stages of every request are one of few lists.                       *)
LEMMA StagesShape == \A action : Gate!Stages(action) \in StageLists
<1> SUFFICES ASSUME NEW action PROVE Gate!Stages(action) \in StageLists
  OBVIOUS
<1>1. Gate!WriteStages(action) \in StageLists
  BY DEF Gate!WriteStages, StageLists
<1>2. Gate!ReadStages(action) \in StageLists
  BY DEF Gate!ReadStages, StageLists
<1>3. Gate!FeeReadStages(action) \in StageLists
  BY DEF Gate!FeeReadStages, StageLists
<1>4. Gate!OwnStages \in StageLists /\ Gate!CronStages \in StageLists
      /\ Gate!FeeWriteStages \in StageLists
  BY DEF Gate!OwnStages, Gate!CronStages, Gate!FeeWriteStages, StageLists
<1> HIDE DEF StageLists
<1> QED BY <1>1, <1>2, <1>3, <1>4 DEF Gate!Stages

LEMMA RequestStagesShape == \A r : Gate!StagesOf(r) \in StageLists
<1> SUFFICES ASSUME NEW r PROVE Gate!StagesOf(r) \in StageLists
  OBVIOUS
<1>1. CASE Gate!Policy(r) = "public"
  <2>1. r.action \in Gate!PublicActions
    BY <1>1 DEF Gate!Policy
  <2>2. Gate!Stages(r.action) = << >>
    BY <2>1 DEF Gate!Stages, Gate!PublicActions, Gate!WalletReads, Gate!SessionPosts,
       Gate!WalletPosts, Gate!FeeReads, Gate!FeeWrites, Gate!ReadStages
  <2> QED BY <1>1, <2>2, JoinedToNone DEF Gate!StagesOf, StageLists
<1>2. CASE Gate!Policy(r) # "public"
  BY <1>2, StagesShape DEF Gate!StagesOf
<1> QED BY <1>1, <1>2

(* What is counted by wallet is counted after the session was asked for.   *)
LEMMA SessionFirst ==
  ASSUME NEW s \in StageLists, NEW i \in 1..Len(s), s[i].kind = "limit",
         s[i].name \in {"image", "fees-write"}
  PROVE  \E j \in 1..(i - 1) : s[j].kind = "session"
BY DEF StageLists, Gate!Origin, Gate!Session, Gate!Secret, Gate!Body, Gate!LimitOf

LEMMA GateCardinality == ASSUME NEW S PROVE Gate!Cardinality(S) = Cardinality(S)
BY DEF Gate!Cardinality, Cardinality

(* The grants of a key from a time on and before another.                  *)
Within(s, from, to) == {i \in DOMAIN s : from <= s[i] /\ s[i] < to}
Grants(s, from, to) == Cardinality(Within(s, from, to))

(* Every grant is in a window of its key that began before: no more than   *)
(* the limit in the present one and as many just before it.                *)
WindowInv(s, count, ends, time) ==
  /\ \A i \in DOMAIN s : s[i] <= time /\ s[i] < ends
  /\ ends <= time + Window
  /\ Grants(s, ends - Window, ends) <= Maximum
  /\ Grants(s, ends - Window, ends) <= count
  /\ Grants(s, ends - 2 * Window + 1, ends - Window) <= Maximum
  /\ \A t \in Nat : Grants(s, t, t + Window) <= 2 * Maximum

LEMMA GrantsCount ==
  ASSUME NEW s \in Seq(Nat), NEW from, NEW to
  PROVE  IsFiniteSet(Within(s, from, to)) /\ Grants(s, from, to) \in Nat
<1>1. IsFiniteSet(DOMAIN s)
  <2>1. DOMAIN s = 1..Len(s) /\ 1 \in Int /\ Len(s) \in Int
    OBVIOUS
  <2> QED BY <2>1, FS_Interval
<1>2. Within(s, from, to) \in SUBSET DOMAIN s
  BY DEF Within
<1> QED BY <1>1, <1>2, FS_Subset, FS_CardinalityType DEF Grants

LEMMA FewerGrants ==
  ASSUME NEW s \in Seq(Nat), NEW from, NEW to, NEW earlier, NEW later,
         Within(s, from, to) \subseteq Within(s, earlier, later)
  PROVE  Grants(s, from, to) <= Grants(s, earlier, later)
BY GrantsCount, FS_Subset DEF Grants

LEMMA OneMoreGrant ==
  ASSUME NEW s \in Seq(Nat), NEW time \in Nat, NEW from, NEW to
  PROVE  /\ Grants(Append(s, time), from, to) <= Grants(s, from, to) + 1
         /\ ~ (from <= time /\ time < to) =>
              Grants(Append(s, time), from, to) = Grants(s, from, to)
<1> DEFINE more == Append(s, time)  n == Len(s) + 1
<1>1. more \in Seq(Nat) /\ DOMAIN more = 1..n /\ DOMAIN s = 1..Len(s) /\ Len(s) \in Nat
      /\ more[n] = time /\ \A i \in 1..Len(s) : more[i] = s[i]
  OBVIOUS
<1> HIDE DEF more, n
<1>2. n \notin Within(s, from, to)
  BY <1>1 DEF Within, n
<1>3. CASE from <= time /\ time < to
  <2>1. Within(more, from, to) = Within(s, from, to) \cup {n}
    BY <1>1, <1>3 DEF Within, n
  <2>2. Cardinality(Within(s, from, to) \cup {n}) = Cardinality(Within(s, from, to)) + 1
    BY <1>2, GrantsCount, FS_AddElement
  <2>3. Grants(more, from, to) = Grants(s, from, to) + 1
    BY <2>1, <2>2 DEF Grants
  <2> QED BY <1>3, <2>3, GrantsCount DEF more
<1>4. CASE ~ (from <= time /\ time < to)
  <2>1. Within(more, from, to) = Within(s, from, to)
    BY <1>1, <1>4 DEF Within, n
  <2> QED BY <2>1, GrantsCount DEF Grants, more
<1> QED BY <1>3, <1>4

LEMMA GrantsOfTwo ==
  ASSUME NEW s \in Seq(Nat), NEW from \in Int, NEW middle \in Int, NEW to \in Int
  PROVE  Grants(s, from, to) <= Grants(s, from, middle) + Grants(s, middle, to)
<1> DEFINE A == Within(s, from, middle)  B == Within(s, middle, to)
           C == Within(s, from, to)
<1>1. C \in SUBSET (A \cup B)
  <2>1. ASSUME NEW i \in C PROVE i \in A \cup B
    <3>1. s[i] \in Nat /\ i \in DOMAIN s
      BY DEF Within
    <3> QED BY <3>1 DEF Within
  <2> QED BY <2>1
<1>2. IsFiniteSet(A) /\ IsFiniteSet(B) /\ Cardinality(A) \in Nat /\ Cardinality(B) \in Nat
      /\ IsFiniteSet(C) /\ Cardinality(C) \in Nat
  BY GrantsCount DEF Grants
<1> HIDE DEF A, B, C
<1>3. IsFiniteSet(A \cup B)
      /\ Cardinality(A \cup B) = Cardinality(A) + Cardinality(B) - Cardinality(A \cap B)
  BY <1>2, FS_Union
<1>4. Cardinality(C) <= Cardinality(A \cup B)
  BY <1>1, <1>3, FS_Subset
<1>5. A \cap B \in SUBSET A /\ Cardinality(A \cap B) \in Nat
  BY <1>2, FS_Subset, FS_CardinalityType
<1>6. Cardinality(C) <= Cardinality(A) + Cardinality(B)
  BY <1>2, <1>3, <1>4, <1>5
<1> QED BY <1>6 DEF Grants, A, B, C

(* A stretch of a window's length that reaches into the present window.    *)
LEMMA TwoWindows ==
  ASSUME GateAssumption, NEW s \in Seq(Nat), NEW ends \in Nat, NEW t \in Nat,
         \A i \in DOMAIN s : s[i] < ends, t >= ends - 2 * Window + 1,
         Grants(s, ends - Window, ends) <= Maximum,
         Grants(s, ends - 2 * Window + 1, ends - Window) <= Maximum
  PROVE  Grants(s, t, t + Window) <= 2 * Maximum
<1> DEFINE start == ends - Window  before == ends - 2 * Window + 1
<1>1. Window \in Nat /\ Maximum \in Nat /\ start \in Int /\ before \in Int /\ t >= before
  BY DEF GateAssumption
<1>2. \A i \in DOMAIN s : s[i] \in Nat /\ s[i] < ends
  OBVIOUS
<1>3. Grants(s, start, ends) <= Maximum /\ Grants(s, before, start) <= Maximum
  OBVIOUS
<1>n. /\ Grants(s, start, ends) \in Nat /\ Grants(s, before, start) \in Nat
      /\ Grants(s, t, start) \in Nat /\ Grants(s, start, t + Window) \in Nat
      /\ Grants(s, t, t + Window) \in Nat
  BY GrantsCount
<1> HIDE DEF start, before
<1>4. Within(s, t, start) \subseteq Within(s, before, start)
  BY <1>1, <1>2 DEF Within
<1>5. Within(s, start, t + Window) \subseteq Within(s, start, ends)
  BY <1>1, <1>2 DEF Within
<1>6. Grants(s, t, start) <= Maximum /\ Grants(s, start, t + Window) <= Maximum
  BY <1>1, <1>3, <1>4, <1>5, <1>n, FewerGrants
<1>7. Grants(s, t, t + Window) <= Grants(s, t, start) + Grants(s, start, t + Window)
  BY <1>1, GrantsOfTwo
<1> QED BY <1>1, <1>6, <1>7, <1>n

(* A request under a key is counted, and let through or not.               *)
Letting(s, count, time) ==
  {s} \cup IF count <= Maximum THEN {Append(s, time)} ELSE {}

LEMMA LettingKeeps ==
  ASSUME NEW s \in Seq(Nat), NEW count, NEW time \in Nat, NEW next \in Letting(s, count, time),
         \A i \in DOMAIN s : s[i] <= time
  PROVE  next \in Seq(Nat) /\ \A i \in DOMAIN next : next[i] \in Nat /\ next[i] <= time
<1>1. CASE next = s
  BY <1>1
<1>2. CASE next = Append(s, time)
  BY <1>2
<1> QED BY <1>1, <1>2 DEF Letting

LEMMA LettingOutside ==
  ASSUME NEW s \in Seq(Nat), NEW count, NEW time \in Nat, NEW next \in Letting(s, count, time),
         NEW from, NEW to, ~ (from <= time /\ time < to)
  PROVE  Grants(next, from, to) = Grants(s, from, to)
<1>1. CASE next = Append(s, time)
  BY <1>1, OneMoreGrant
<1> QED BY <1>1 DEF Letting

LEMMA FirstOfWindow ==
  ASSUME GateAssumption, NEW s \in Seq(Nat), NEW count \in Nat, NEW ends \in Nat,
         NEW time \in Nat, WindowInv(s, count, ends, time), ends <= time,
         NEW next \in Letting(s, 1, time)
  PROVE  WindowInv(next, 1, time + Window, time)
<1>1. Window \in Nat \ {0} /\ Maximum \in Nat
  BY DEF GateAssumption
<1>0. /\ \A i \in DOMAIN s : s[i] <= time /\ s[i] < ends
      /\ Grants(s, ends - Window, ends) <= Maximum
      /\ \A t \in Nat : Grants(s, t, t + Window) <= 2 * Maximum
  BY DEF WindowInv
<1>n. \A i \in DOMAIN s : s[i] \in Nat
  OBVIOUS
<1>2. \A i \in DOMAIN s : s[i] \in Nat /\ s[i] <= time /\ s[i] < ends /\ s[i] < time
  BY <1>0, <1>n
<1>3. next \in Seq(Nat) /\ \A i \in DOMAIN next : next[i] \in Nat /\ next[i] <= time
  BY <1>0, LettingKeeps
<1>4. Grants(s, time, time + Window) = 0
  <2>1. Within(s, time, time + Window) = {}
    BY <1>2 DEF Within
  <2> QED BY <2>1, FS_EmptySet DEF Grants
<1>5. Grants(next, time, time + Window) <= 1 /\ Grants(next, time, time + Window) <= Maximum
  <2>1. CASE next = s
    BY <1>1, <1>4, <2>1
  <2>2. CASE next = Append(s, time) /\ 1 <= Maximum
    <3>1. Grants(next, time, time + Window) <= Grants(s, time, time + Window) + 1
      BY <2>2, OneMoreGrant
    <3>2. Grants(next, time, time + Window) \in Nat
      BY <1>3, GrantsCount
    <3> QED BY <1>1, <1>4, <2>2, <3>1, <3>2
  <2> QED BY <2>1, <2>2 DEF Letting
<1>6. Grants(next, time - Window + 1, time) <= Maximum
  <2>1. Within(s, time - Window + 1, time) \subseteq Within(s, ends - Window, ends)
    BY <1>1, <1>2 DEF Within
  <2>2. Grants(s, time - Window + 1, time) <= Maximum
    <3>1. Grants(s, time - Window + 1, time) <= Grants(s, ends - Window, ends)
      BY <2>1, FewerGrants
    <3>2. /\ Grants(s, time - Window + 1, time) \in Nat
          /\ Grants(s, ends - Window, ends) \in Nat
      BY GrantsCount
    <3> QED BY <1>0, <1>1, <3>1, <3>2
  <2>3. Grants(next, time - Window + 1, time) = Grants(s, time - Window + 1, time)
    BY LettingOutside
  <2> QED BY <2>2, <2>3
<1>7. time + Window \in Nat /\ (time + Window) - Window = time
      /\ (time + Window) - 2 * Window + 1 = time - Window + 1
      /\ \A i \in DOMAIN next : next[i] < time + Window
  BY <1>1, <1>3
<1>8. ASSUME NEW t \in Nat PROVE Grants(next, t, t + Window) <= 2 * Maximum
  <2>1. CASE t >= time - Window + 1
    BY <1>3, <1>5, <1>6, <1>7, <2>1, TwoWindows
  <2>2. CASE ~ (t >= time - Window + 1)
    <3>1. ~ (t <= time /\ time < t + Window)
      BY <1>1, <2>2
    <3>2. Grants(next, t, t + Window) = Grants(s, t, t + Window)
      BY <3>1, LettingOutside
    <3> QED BY <1>0, <3>2
  <2> QED BY <2>1, <2>2
<1> QED BY <1>1, <1>3, <1>5, <1>6, <1>7, <1>8 DEF WindowInv

LEMMA NextOfWindow ==
  ASSUME GateAssumption, NEW s \in Seq(Nat), NEW count \in Nat, NEW ends \in Nat,
         NEW time \in Nat, WindowInv(s, count, ends, time), time < ends,
         NEW next \in Letting(s, count + 1, time)
  PROVE  WindowInv(next, count + 1, ends, time)
<1> DEFINE start == ends - Window  before == ends - 2 * Window + 1
<1>0. /\ \A i \in DOMAIN s : s[i] <= time
      /\ ends <= time + Window
      /\ Grants(s, start, ends) <= Maximum /\ Grants(s, start, ends) <= count
      /\ Grants(s, before, start) <= Maximum
      /\ \A t \in Nat : Grants(s, t, t + Window) <= 2 * Maximum
  BY DEF WindowInv
<1>1. Window \in Nat \ {0} /\ Maximum \in Nat /\ start \in Int /\ before \in Int
      /\ start <= time
  BY <1>0 DEF GateAssumption
<1>2. next \in Seq(Nat) /\ \A i \in DOMAIN next :
        next[i] \in Nat /\ next[i] <= time /\ next[i] < ends
  <2>1. next \in Seq(Nat) /\ \A i \in DOMAIN next : next[i] \in Nat /\ next[i] <= time
    BY <1>0, LettingKeeps
  <2> QED BY <2>1
<1>3. /\ Grants(s, start, ends) \in Nat /\ Grants(next, start, ends) \in Nat
      /\ Grants(s, start, ends) <= Maximum /\ Grants(s, start, ends) <= count
      /\ Grants(s, before, start) <= Maximum
  BY <1>0, <1>2, GrantsCount
<1> HIDE DEF start, before
<1>4. Grants(next, start, ends) <= count + 1 /\ Grants(next, start, ends) <= Maximum
  <2>1. CASE next = s
    BY <1>3, <2>1
  <2>2. CASE next = Append(s, time) /\ count + 1 <= Maximum
    <3>1. Grants(next, start, ends) <= Grants(s, start, ends) + 1
      BY <2>2, OneMoreGrant
    <3> QED BY <1>1, <1>3, <2>2, <3>1
  <2> QED BY <2>1, <2>2 DEF Letting
<1>5. Grants(next, before, start) <= Maximum
  <2>1. ~ (before <= time /\ time < start)
    BY <1>1
  <2>2. Grants(next, before, start) = Grants(s, before, start)
    BY <2>1, LettingOutside
  <2> QED BY <1>3, <2>2
<1>6. ASSUME NEW t \in Nat PROVE Grants(next, t, t + Window) <= 2 * Maximum
  <2>1. CASE t >= ends - 2 * Window + 1
    BY <1>2, <1>4, <1>5, <2>1, TwoWindows DEF start, before
  <2>2. CASE ~ (t >= ends - 2 * Window + 1)
    <3>1. ~ (t <= time /\ time < t + Window)
      BY <1>1, <2>2 DEF start
    <3>2. Grants(next, t, t + Window) = Grants(s, t, t + Window)
      BY <3>1, LettingOutside
    <3> QED BY <1>0, <3>2
  <2> QED BY <2>1, <2>2
<1> QED BY <1>2, <1>4, <1>5, <1>6 DEF WindowInv, start, before

LEMMA TimePasses ==
  ASSUME GateAssumption, NEW s \in Seq(Nat), NEW count \in Nat, NEW ends \in Nat,
         NEW time \in Nat, WindowInv(s, count, ends, time)
  PROVE  WindowInv(s, count, ends, time + 1)
<1>1. /\ \A i \in DOMAIN s : s[i] <= time /\ s[i] < ends
      /\ ends <= time + Window
  BY DEF WindowInv
<1>2. ends <= (time + 1) + Window
  BY <1>1 DEF GateAssumption
<1>3. \A i \in DOMAIN s : s[i] \in Nat
  OBVIOUS
<1>4. \A i \in DOMAIN s : s[i] <= time + 1
  BY <1>1, <1>3
<1> QED BY <1>1, <1>2, <1>4 DEF WindowInv

LEMMA LimitFromWindows ==
  ASSUME GateAssumption, NEW s \in Seq(Nat), NEW t \in Nat,
         Grants(s, t, t + Window) <= 2 * Maximum
  PROVE  Gate!Cardinality({i \in DOMAIN s : s[i] \in t..(t + Window - 1)}) <= 2 * Maximum
<1>1. {i \in DOMAIN s : s[i] \in t..(t + Window - 1)} = Within(s, t, t + Window)
  BY DEF Within, GateAssumption
<1> QED BY <1>1, GateCardinality DEF Grants

(* A request is one that may arrive, and behind its session stage it has a *)
(* session.                                                                *)
Admitted(r) ==
  /\ r \in GateRequest
  /\ \E q \in Possible : q.action = r.action
  /\ \A j \in 1..(r.stage - 1) :
       Gate!StagesOf(r)[j].kind = "session" => r.session # None
RequestsInv == \A r \in requests : Admitted(r)

(* The shared counts, and what the instances remember of them.             *)
Count == [count : Nat, ends : Nat]
CountsInv ==
  /\ nowG \in 0..MaxNow
  /\ limits \in [Gate!LimitKeys -> Count] /\ granted \in [Gate!LimitKeys -> Seq(Nat)]
  /\ \A k \in Gate!LimitKeys :
       WindowInv(granted[k], limits[k].count, limits[k].ends, nowG)

DenialsInv ==
  /\ DOMAIN blocked = Instances
  /\ \A i \in Instances : \A k \in DOMAIN blocked[i] :
       /\ k \in Gate!LimitKeys /\ blocked[i][k] \in Nat
       /\ blocked[i][k] > nowG => limits[k].ends >= blocked[i][k]

(* A public answer is about nobody.                                        *)
Public == [about : {None}, stored : Nat]
Statuses == {200, 400, 401, 403, 429, 503}
AnswersInv ==
  /\ cache \in [Gate!PublicActions -> Public \cup {None}]
  /\ reply # None => reply.status \in Statuses /\ reply.about \in {None} \cup reply.mine

GateInv ==
  /\ arrived \in 0..MaxRequests /\ outages \in 0..(2 * MaxOutages)
  /\ RequestsInv /\ CountsInv /\ DenialsInv /\ AnswersInv

CountVars == <<nowG, limits, granted, blocked>>

LEMMA CountsStay ==
  ASSUME CountsInv, DenialsInv, UNCHANGED CountVars PROVE CountsInv' /\ DenialsInv'
BY DEF CountVars, CountsInv, DenialsInv

LEMMA GateInit == ASSUME GateAssumption, Gate!Init PROVE GateInv
<1>1. WindowInv(<< >>, 0, 0, 0)
  <2>1. \A from, to : Grants(<< >>, from, to) = 0
    <3>1. \A from, to : Within(<< >>, from, to) = {}
      BY DEF Within
    <3> QED BY <3>1, FS_EmptySet DEF Grants
  <2> QED BY <2>1 DEF WindowInv, GateAssumption
<1>2. CountsInv
  <2>1. nowG = 0 /\ limits = [k \in Gate!LimitKeys |-> [count |-> 0, ends |-> 0]]
        /\ granted = [k \in Gate!LimitKeys |-> << >>]
    BY DEF Gate!Init
  <2>2. \A k \in Gate!LimitKeys :
          granted[k] = << >> /\ limits[k].count = 0 /\ limits[k].ends = 0
    BY <2>1
  <2>3. 0 \in 0..MaxNow
    BY DEF GateAssumption
  <2> QED BY <1>1, <2>1, <2>2, <2>3 DEF CountsInv, Count
<1>3. DenialsInv
  BY DEF Gate!Init, DenialsInv
<1>4. AnswersInv /\ RequestsInv
  BY DEF Gate!Init, AnswersInv, RequestsInv, Gate!PublicActions
<1>5. arrived \in 0..MaxRequests /\ outages \in 0..(2 * MaxOutages)
  BY DEF Gate!Init, GateAssumption
<1> QED BY <1>2, <1>3, <1>4, <1>5 DEF GateInv

(* ------------------------- parts of a step ----------------------------- *)

LEMMA RepliesAreOwn ==
  ASSUME AnswersInv, NEW r, NEW status \in Statuses, NEW about \in {None, r.session, r.wallet},
         Gate!Finish(r, status, about), UNCHANGED cache
  PROVE  AnswersInv'
BY DEF AnswersInv, Gate!Finish

LEMMA Finished ==
  ASSUME RequestsInv, NEW r, NEW status, NEW about, Gate!Finish(r, status, about)
  PROVE  RequestsInv'
<1>1. requests' \subseteq requests
  BY DEF Gate!Finish
<1> QED BY <1>1 DEF RequestsInv, Admitted

LEMMA Proceeded ==
  ASSUME RequestsInv, NEW r \in requests, Gate!Proceed(r),
         r.stage \in 1..Len(Gate!StagesOf(r)),
         Gate!StagesOf(r)[r.stage].kind = "session" => r.session # None
  PROVE  RequestsInv'
<1>1. PICK q \in GateRequest : q = r
  BY DEF RequestsInv, Admitted
<1>2. PICK p \in GateRequest : p = [q EXCEPT !.stage = q.stage + 1]
  <2>1. q.stage + 1 \in Nat
    BY DEF GateRequest
  <2>2. PICK n \in Nat : n = q.stage + 1
    BY <2>1
  <2>3. [q EXCEPT !.stage = n] \in GateRequest
    BY DEF GateRequest
  <2> QED BY <2>2, <2>3
<1>3. p.action = q.action /\ p.wallet = q.wallet /\ p.session = q.session
      /\ p.stage = q.stage + 1 /\ q.stage \in Nat
  BY <1>1, <1>2 DEF GateRequest
<1>4. Gate!StagesOf(p) = Gate!StagesOf(q)
  BY <1>3 DEF Gate!StagesOf, Gate!Policy
<1>5. Admitted(p)
  <2>1. Admitted(q)
    BY <1>1 DEF RequestsInv
  <2>2. ASSUME NEW j \in 1..(p.stage - 1), Gate!StagesOf(p)[j].kind = "session"
        PROVE  p.session # None
    <3>1. CASE j = q.stage
      BY <1>1, <1>3, <1>4, <2>2, <3>1
    <3>2. CASE j # q.stage
      <4>1. j \in 1..(q.stage - 1)
        BY <1>3, <3>2
      <4> QED BY <1>3, <1>4, <2>1, <2>2, <4>1 DEF Admitted
    <3> QED BY <3>1, <3>2
  <2> QED BY <1>3, <2>1, <2>2 DEF Admitted
<1>6. requests' = (requests \ {r}) \cup {p}
  BY <1>1, <1>2 DEF Gate!Proceed
<1>7. \A x \in requests' : Admitted(x)
  BY <1>5, <1>6 DEF RequestsInv
<1> QED BY <1>7 DEF RequestsInv, Admitted

(* A limit is counted under a key of the table.                            *)
Key(r) ==
  <<Gate!StagesOf(r)[r.stage].name, Gate!Subject(r, Gate!StagesOf(r)[r.stage].name)>>

LEMMA KeysAreKnown ==
  ASSUME GateAssumption, NEW r, Admitted(r), Gate!At(r, "limit")
  PROVE  Key(r) \in Gate!LimitKeys
<1> DEFINE s == Gate!StagesOf(r)  name == s[r.stage].name
<1>1. s \in StageLists /\ r.stage \in 1..Len(s) /\ s[r.stage].kind = "limit"
  BY RequestStagesShape DEF Gate!At
<1>2. name \in Gate!LimitNames
  <2>1. CASE Gate!Policy(r) = "public"
    <3>1. r.action \in Gate!PublicActions
      BY <2>1 DEF Gate!Policy
    <3>2. Gate!Stages(r.action) = << >>
      BY <3>1 DEF Gate!Stages, Gate!PublicActions, Gate!WalletReads, Gate!SessionPosts,
         Gate!WalletPosts, Gate!FeeReads, Gate!FeeWrites, Gate!ReadStages
    <3>3. s = <<Gate!LimitOf("public-read")>>
      BY <2>1, <3>2, JoinedToNone DEF Gate!StagesOf
    <3>4. name = "public-read"
      BY <1>1, <3>3 DEF Gate!LimitOf
    <3> HIDE DEF name
    <3> QED BY <3>4, Zenon DEF Gate!LimitNames
  <2>2. CASE Gate!Policy(r) # "public"
    <3>1. s = Gate!Stages(r.action)
      BY <2>2 DEF Gate!StagesOf
    <3>2. PICK q \in Possible : s = Gate!Stages(q.action)
      BY <3>1 DEF Admitted
    <3>3. name \in {s[i].name : i \in {j \in DOMAIN s : s[j].kind = "limit"}}
      <4>1. DOMAIN s = 1..Len(s)
        BY <1>1 DEF StageLists
      <4> QED BY <1>1, <4>1
    <3> HIDE DEF s, name
    <3>4. s \in {Gate!Stages(p.action) : p \in Possible}
      BY <3>2
    <3>5. {s[i].name : i \in {j \in DOMAIN s : s[j].kind = "limit"}} \in
            {{t[i].name : i \in {j \in DOMAIN t : t[j].kind = "limit"}} :
               t \in {Gate!Stages(p.action) : p \in Possible}}
      BY <3>4
    <3> QED BY <3>3, <3>5, Zenon DEF Gate!LimitNames
  <2> QED BY <2>1, <2>2
<1>3. Gate!Subject(r, name) \in Wallets \cup Visitors
  <2>1. r.session \in Wallets \cup {None} /\ r.visitor \in Visitors /\ r.stage \in Nat
    BY DEF Admitted, GateRequest
  <2>2. CASE name \in {"image", "fees-write"}
    <3>1. PICK j \in 1..(r.stage - 1) : s[j].kind = "session"
      <4> HIDE DEF s
      <4> QED BY <1>1, <2>2, SessionFirst
    <3>2. r.session # None
      BY <3>1 DEF Admitted
    <3> QED BY <2>1, <2>2, <3>2 DEF Gate!Subject
  <2>3. CASE name \notin {"image", "fees-write"}
    BY <2>1, <2>3 DEF Gate!Subject
  <2> QED BY <2>2, <2>3
<1> QED BY <1>2, <1>3 DEF Key, Gate!LimitKeys

LEMMA CountedIsCount ==
  ASSUME GateAssumption, CountsInv, NEW k \in Gate!LimitKeys PROVE Gate!Counted(k) \in Count
<1>1. PICK l \in Count : l = limits[k]
  BY DEF CountsInv
<1>2. l.count + 1 \in Nat /\ nowG + Window \in Nat /\ 1 \in Nat
  BY DEF GateAssumption, CountsInv, Count
<1>3. [count |-> 1, ends |-> nowG + Window] \in Count
  BY <1>2 DEF Count
<1>4. [l EXCEPT !.count = l.count + 1] \in Count
  BY <1>2 DEF Count
<1>5. [limits[k] EXCEPT !.count = @ + 1] = [l EXCEPT !.count = l.count + 1]
  BY <1>1
<1> QED BY <1>3, <1>4, <1>5 DEF Gate!Counted

(* One count under a key, and a grant or none.                             *)
LEMMA CountedKeeps ==
  ASSUME GateAssumption, CountsInv, DenialsInv, NEW k \in Gate!LimitKeys,
         NEW g \in Letting(granted[k], Gate!Counted(k).count, nowG),
         limits' = [limits EXCEPT ![k] = Gate!Counted(k)],
         granted' = [granted EXCEPT ![k] = g], UNCHANGED nowG
  PROVE  /\ CountsInv'
         /\ Gate!Counted(k) \in Count /\ limits'[k] = Gate!Counted(k)
         /\ \A x \in Gate!LimitKeys, until \in Nat :
              (until > nowG => limits[x].ends >= until) =>
                (until > nowG => limits'[x].ends >= until)
<1>1. /\ granted[k] \in Seq(Nat) /\ limits[k] \in Count /\ nowG \in Nat
      /\ WindowInv(granted[k], limits[k].count, limits[k].ends, nowG)
  BY DEF CountsInv, GateAssumption
<1>2. PICK c \in Count : c = Gate!Counted(k)
  BY CountedIsCount
<1>3. /\ WindowInv(g, c.count, c.ends, nowG) /\ g \in Seq(Nat)
      /\ (limits[k].ends <= nowG \/ c.ends = limits[k].ends)
  <2>1. CASE limits[k].ends <= nowG
    <3>1. c.count = 1 /\ c.ends = nowG + Window
      BY <1>2, <2>1 DEF Gate!Counted
    <3>2. WindowInv(g, 1, nowG + Window, nowG)
      BY <1>1, <1>2, <2>1, <3>1, FirstOfWindow DEF Count
    <3>3. g \in Seq(Nat)
      BY <1>1, LettingKeeps DEF WindowInv
    <3> QED BY <2>1, <3>1, <3>2, <3>3
  <2>2. CASE nowG < limits[k].ends
    <3>1. c.count = limits[k].count + 1 /\ c.ends = limits[k].ends
      BY <1>1, <1>2, <2>2 DEF Gate!Counted, Count
    <3>2. WindowInv(g, limits[k].count + 1, limits[k].ends, nowG)
      BY <1>1, <1>2, <2>2, <3>1, NextOfWindow DEF Count
    <3>3. g \in Seq(Nat)
      BY <1>1, LettingKeeps DEF WindowInv
    <3> QED BY <3>1, <3>2, <3>3
  <2> QED BY <1>1, <2>1, <2>2 DEF Count
<1>4. \A x \in Gate!LimitKeys :
        limits'[x] = (IF x = k THEN c ELSE limits[x])
        /\ granted'[x] = (IF x = k THEN g ELSE granted[x])
  BY <1>2 DEF CountsInv
<1>5. limits' \in [Gate!LimitKeys -> Count] /\ granted' \in [Gate!LimitKeys -> Seq(Nat)]
  BY <1>2, <1>3 DEF CountsInv
<1>6. ASSUME NEW x \in Gate!LimitKeys, NEW d, d = limits'[x], NEW s, s = granted'[x]
      PROVE  WindowInv(s, d.count, d.ends, nowG)
  BY <1>3, <1>4, <1>6 DEF CountsInv
<1>7. CountsInv'
  <2>1. \A x \in Gate!LimitKeys :
          WindowInv(granted'[x], limits'[x].count, limits'[x].ends, nowG)
    BY <1>6
  <2> QED BY <1>5, <2>1 DEF CountsInv, WindowInv, Grants, Within
<1>8. ASSUME NEW x \in Gate!LimitKeys, NEW until \in Nat,
             until > nowG => limits[x].ends >= until, until > nowG
      PROVE  limits'[x].ends >= until
  <2>1. CASE x = k
    BY <1>1, <1>3, <1>4, <1>8, <2>1 DEF Count
  <2>2. CASE x # k
    BY <1>4, <1>8, <2>2
  <2> QED BY <2>1, <2>2
<1> QED BY <1>2, <1>4, <1>7, <1>8

LEMMA RateLimitKeeps ==
  ASSUME GateAssumption, GateInv, NEW r \in requests, Gate!RateLimit(r) PROVE GateInv'
<1>1. Admitted(r) /\ Gate!At(r, "limit") /\ r.instance \in Instances
      /\ UNCHANGED <<nowG, redisUp, outages, cache, arrived>>
  BY DEF GateInv, RequestsInv, Admitted, GateRequest, Gate!RateLimit
<1>2. PICK k \in Gate!LimitKeys : k = Key(r)
  BY <1>1, KeysAreKnown
<1> DEFINE counts == ~ Gate!Denied(r.instance, k) /\ redisUp
           verdict == Gate!Verdict(r, k)
<1>3. /\ limits' = IF counts THEN [limits EXCEPT ![k] = Gate!Counted(k)] ELSE limits
      /\ IF verdict = 200
         THEN Gate!Proceed(r) /\ UNCHANGED reply
              /\ granted' = [granted EXCEPT ![k] = Append(granted[k], nowG)]
         ELSE Gate!Finish(r, verdict, None) /\ UNCHANGED granted
      /\ blocked' = IF counts /\ verdict = 429
                    THEN [blocked EXCEPT ![r.instance] = Gate!Remember(r.instance, k)]
                    ELSE blocked
  BY <1>2 DEF Gate!RateLimit, Key, GateInv, CountsInv
<1>4. verdict \in Statuses
      /\ (verdict = 200 => counts /\ Gate!Counted(k).count <= Maximum)
  <2>1. CASE counts
    <3>1. Gate!Counted(k).count \in Nat
      BY CountedIsCount DEF GateInv, Count
    <3> QED BY <2>1, <3>1 DEF Gate!Verdict, Statuses, GateAssumption
  <2>2. CASE ~ counts
    BY <2>2 DEF Gate!Verdict, Statuses, Gate!WhileDown
  <2> QED BY <2>1, <2>2
<1> HIDE DEF counts, verdict
<1>5. RequestsInv' /\ AnswersInv'
  <2>1. CASE verdict = 200
    <3>1. Gate!Proceed(r) /\ UNCHANGED reply
      BY <1>3, <2>1
    <3>2. r.stage \in 1..Len(Gate!StagesOf(r)) /\ Gate!StagesOf(r)[r.stage].kind = "limit"
      BY <1>1 DEF Gate!At
    <3>3. RequestsInv'
      BY <3>1, <3>2, Proceeded DEF GateInv
    <3> QED BY <1>1, <3>1, <3>3 DEF GateInv, AnswersInv
  <2>2. CASE verdict # 200
    <3>1. Gate!Finish(r, verdict, None)
      BY <1>3, <2>2
    <3> QED BY <1>1, <1>4, <3>1, Finished, RepliesAreOwn DEF GateInv
  <2> QED BY <2>1, <2>2
<1>6. CASE ~ counts
  <2>1. UNCHANGED CountVars
    BY <1>1, <1>3, <1>4, <1>6 DEF CountVars
  <2> QED BY <1>1, <1>5, <2>1, CountsStay DEF GateInv
<1>7. CASE counts
  <2>1. granted[k] \in Seq(Nat)
    BY DEF GateInv, CountsInv
  <2>2. PICK g \in Letting(granted[k], Gate!Counted(k).count, nowG) :
          granted' = [granted EXCEPT ![k] = g]
    <3>1. CASE verdict = 200
      BY <1>3, <1>4, <3>1 DEF Letting
    <3>2. CASE verdict # 200
      <4>1. granted' = [granted EXCEPT ![k] = granted[k]]
        BY <1>3, <3>2 DEF GateInv, CountsInv
      <4> QED BY <4>1 DEF Letting
    <3> QED BY <3>1, <3>2
  <2>3. /\ CountsInv'
        /\ Gate!Counted(k) \in Count /\ limits'[k] = Gate!Counted(k)
        /\ \A x \in Gate!LimitKeys, until \in Nat :
             (until > nowG => limits[x].ends >= until) =>
               (until > nowG => limits'[x].ends >= until)
    BY <1>1, <1>3, <1>7, <2>2, CountedKeeps DEF GateInv
  <2>4. PICK m \in Nat : m = Gate!Left(k) /\ m = limits'[k].ends
    BY <2>3 DEF Gate!Left, Count
  <2>5. DenialsInv'
    <3>1. CASE blocked' = blocked
      BY <1>1, <2>3, <3>1 DEF GateInv, DenialsInv
    <3>2. CASE blocked' = [blocked EXCEPT ![r.instance] = Gate!Remember(r.instance, k)]
      <4>1. PICK b : b = Gate!Remember(r.instance, k)
        OBVIOUS
      <4>2. DOMAIN b = DOMAIN blocked[r.instance] \cup {k}
            /\ \A x \in DOMAIN b : b[x] = IF x = k THEN m ELSE blocked[r.instance][x]
        BY <2>4, <4>1 DEF Gate!Remember
      <4>3. DOMAIN blocked' = Instances
            /\ \A i \in Instances : blocked'[i] = IF i = r.instance THEN b ELSE blocked[i]
        BY <1>1, <3>2, <4>1 DEF GateInv, DenialsInv
      <4>4. ASSUME NEW i \in Instances, NEW x \in DOMAIN blocked'[i]
            PROVE  /\ x \in Gate!LimitKeys /\ blocked'[i][x] \in Nat
                   /\ blocked'[i][x] > nowG => limits'[x].ends >= blocked'[i][x]
        <5>1. CASE i = r.instance /\ x = k
          BY <2>4, <4>2, <4>3, <4>4, <5>1
        <5>2. CASE ~ (i = r.instance /\ x = k)
          <6>1. x \in DOMAIN blocked[i] /\ blocked'[i][x] = blocked[i][x]
            BY <4>2, <4>3, <4>4, <5>2
          <6>2. x \in Gate!LimitKeys /\ blocked[i][x] \in Nat
                /\ (blocked[i][x] > nowG => limits[x].ends >= blocked[i][x])
            BY <6>1 DEF GateInv, DenialsInv
          <6> QED BY <2>3, <6>1, <6>2
        <5> QED BY <5>1, <5>2
      <4> QED BY <1>1, <4>3, <4>4 DEF DenialsInv
    <3> QED BY <1>3, <3>1, <3>2
  <2> QED BY <1>1, <1>5, <2>3, <2>5 DEF GateInv
<1> QED BY <1>6, <1>7

LEMMA CountLostKeeps ==
  ASSUME GateAssumption, GateInv, NEW r \in requests, Gate!CountLost(r) PROVE GateInv'
<1>1. Admitted(r) /\ Gate!At(r, "limit")
      /\ UNCHANGED <<nowG, redisUp, blocked, cache, granted, arrived>>
      /\ Gate!Finish(r, 503, None) /\ outages' \in 0..(2 * MaxOutages)
  BY DEF GateInv, RequestsInv, Gate!CountLost, Gate!WhileDown, GateAssumption
<1>2. PICK k \in Gate!LimitKeys : k = Key(r)
  BY <1>1, KeysAreKnown
<1>3. limits' = [limits EXCEPT ![k] = Gate!Counted(k)]
  BY <1>2 DEF Gate!CountLost, Key
<1>4. RequestsInv' /\ AnswersInv'
  BY <1>1, Finished, RepliesAreOwn DEF GateInv, Statuses
<1>5. granted[k] \in Letting(granted[k], Gate!Counted(k).count, nowG)
      /\ granted' = [granted EXCEPT ![k] = granted[k]]
  BY <1>1 DEF Letting, GateInv, CountsInv
<1>6. /\ CountsInv'
      /\ \A x \in Gate!LimitKeys, until \in Nat :
           (until > nowG => limits[x].ends >= until) =>
             (until > nowG => limits'[x].ends >= until)
  BY <1>1, <1>3, <1>5, CountedKeeps DEF GateInv
<1>7. DenialsInv'
  BY <1>1, <1>6 DEF GateInv, DenialsInv
<1> QED BY <1>1, <1>4, <1>6, <1>7 DEF GateInv

LEMMA TickKeepsCounts ==
  ASSUME GateAssumption, CountsInv, DenialsInv, nowG' = nowG + 1, nowG' \in 0..MaxNow,
         UNCHANGED <<limits, granted, blocked>>
  PROVE  CountsInv' /\ DenialsInv'
<1>1. nowG \in Nat /\ \A k \in Gate!LimitKeys :
        granted[k] \in Seq(Nat) /\ limits[k].count \in Nat /\ limits[k].ends \in Nat
  BY DEF CountsInv, Count, GateAssumption
<1>2. \A k \in Gate!LimitKeys :
        WindowInv(granted[k], limits[k].count, limits[k].ends, nowG + 1)
  BY <1>1, TimePasses DEF CountsInv
<1>3. CountsInv'
  BY <1>2 DEF CountsInv, WindowInv, Grants, Within
<1>4. DenialsInv'
  BY <1>1 DEF DenialsInv
<1> QED BY <1>3, <1>4

LEMMA ArriveKeeps ==
  ASSUME GateAssumption, GateInv, NEW q \in Possible, Gate!Arrive(q) PROVE GateInv'
<1>1. PICK r : r = [id |-> arrived + 1, stage |-> 1, action |-> q.action,
                    wallet |-> q.wallet, session |-> q.session, visitor |-> q.visitor,
                    instance |-> q.instance, sameOrigin |-> q.sameOrigin]
  OBVIOUS
<1>2. /\ arrived' \in 0..MaxRequests
      /\ UNCHANGED <<nowG, redisUp, outages, limits, blocked, cache, granted>>
      /\ \/ Gate!Finish(r, 400, None)
         \/ Gate!Hit(r) /\ Gate!Finish(r, 200, cache[r.action].about)
         \/ requests' = requests \cup {r} /\ UNCHANGED reply
  BY <1>1 DEF Gate!Arrive, GateInv, GateAssumption
<1>3. CountsInv' /\ DenialsInv'
  BY <1>2, CountsStay DEF GateInv, CountVars
<1>4. CASE Gate!Finish(r, 400, None)
  BY <1>2, <1>3, <1>4, Finished, RepliesAreOwn DEF GateInv, Statuses
<1>5. CASE Gate!Hit(r) /\ Gate!Finish(r, 200, cache[r.action].about)
  <2>1. r.action \in Gate!PublicActions /\ cache[r.action] # None
    BY <1>5 DEF Gate!Hit, Gate!Policy
  <2>2. cache[r.action].about = None
    BY <2>1 DEF GateInv, AnswersInv, Public
  <2> QED BY <1>2, <1>3, <1>5, <2>2, Finished, RepliesAreOwn DEF GateInv, Statuses
<1>6. CASE requests' = requests \cup {r} /\ UNCHANGED reply
  <2>1. r \in GateRequest
    BY <1>1 DEF GateAssumption, GateRequest, GateInv
  <2>2. Admitted(r)
    BY <1>1, <2>1 DEF Admitted
  <2>3. \A x \in requests' : Admitted(x)
    BY <1>6, <2>2 DEF GateInv, RequestsInv
  <2>4. RequestsInv'
    BY <2>3 DEF RequestsInv, Admitted
  <2> QED BY <1>2, <1>3, <1>6, <2>4 DEF GateInv, AnswersInv
<1> QED BY <1>2, <1>4, <1>5, <1>6

LEMMA StagesKeep ==
  ASSUME GateAssumption, GateInv, NEW r \in requests,
         \/ Gate!CheckOrigin(r) \/ Gate!RequireWallet(r) \/ Gate!ReadBody(r)
         \/ Gate!CheckSecret(r) \/ Gate!Failed(r)
  PROVE  GateInv'
<1>1. UNCHANGED <<nowG, redisUp, outages, limits, blocked, cache, granted, arrived>>
  BY DEF Gate!CheckOrigin, Gate!RequireWallet, Gate!ReadBody, Gate!CheckSecret, Gate!Failed
<1>2. CountsInv' /\ DenialsInv'
  BY <1>1, CountsStay DEF GateInv, CountVars
<1>3. \/ /\ Gate!Proceed(r) /\ UNCHANGED reply
         /\ r.stage \in 1..Len(Gate!StagesOf(r))
         /\ Gate!StagesOf(r)[r.stage].kind = "session" => r.session # None
      \/ \E status \in Statuses : Gate!Finish(r, status, None)
  <2>1. CASE Gate!CheckOrigin(r) \/ Gate!RequireWallet(r)
    BY <2>1 DEF Gate!CheckOrigin, Gate!RequireWallet, Gate!At, Statuses
  <2>2. CASE Gate!ReadBody(r) \/ Gate!CheckSecret(r) \/ Gate!Failed(r)
    BY <2>2 DEF Gate!ReadBody, Gate!CheckSecret, Gate!Failed, Gate!At, Statuses
  <2> QED BY <2>1, <2>2
<1>4. CASE /\ Gate!Proceed(r) /\ UNCHANGED reply
           /\ r.stage \in 1..Len(Gate!StagesOf(r))
           /\ Gate!StagesOf(r)[r.stage].kind = "session" => r.session # None
  BY <1>1, <1>2, <1>4, Proceeded DEF GateInv, AnswersInv
<1>5. CASE \E status \in Statuses : Gate!Finish(r, status, None)
  BY <1>1, <1>2, <1>5, Finished, RepliesAreOwn DEF GateInv
<1> QED BY <1>3, <1>4, <1>5

LEMMA HandleKeeps ==
  ASSUME GateAssumption, GateInv, NEW r \in requests, Gate!Handle(r) PROVE GateInv'
<1>1. UNCHANGED <<nowG, redisUp, outages, limits, blocked, granted, arrived>>
      /\ Gate!Finish(r, 200, Gate!About(r))
      /\ cache' = IF Gate!Policy(r) = "public"
                  THEN [cache EXCEPT ![r.action] = [about |-> Gate!About(r), stored |-> nowG]]
                  ELSE cache
  BY DEF Gate!Handle
<1>2. CountsInv' /\ DenialsInv' /\ RequestsInv'
  BY <1>1, CountsStay, Finished DEF GateInv, CountVars
<1>3. Gate!About(r) \in {None, r.session, r.wallet}
  BY DEF Gate!About
<1>4. reply' # None => reply'.status \in Statuses /\ reply'.about \in {None} \cup reply'.mine
  BY <1>1, <1>3 DEF Gate!Finish, Statuses
<1>5. cache' \in [Gate!PublicActions -> Public \cup {None}]
  <2>1. CASE Gate!Policy(r) = "public"
    <3>1. r.action \in Gate!PublicActions /\ r.wallet = None
      BY <2>1 DEF Gate!Policy
    <3>2. Gate!About(r) = None
      BY <3>1 DEF Gate!About, Gate!PublicActions, Gate!OpenReads
    <3>3. [about |-> Gate!About(r), stored |-> nowG] \in Public
      BY <3>2 DEF Public, GateInv, CountsInv, GateAssumption
    <3> QED BY <1>1, <2>1, <3>1, <3>3 DEF GateInv, AnswersInv
  <2>2. CASE Gate!Policy(r) # "public"
    BY <1>1, <2>2 DEF GateInv, AnswersInv
  <2> QED BY <2>1, <2>2
<1> QED BY <1>1, <1>2, <1>4, <1>5 DEF GateInv, AnswersInv

LEMMA GateStep ==
  ASSUME GateAssumption, GateInv, [Gate!Next]_limitVars PROVE GateInv'
<1>1. CASE UNCHANGED limitVars
  <2>1. UNCHANGED CountVars /\ UNCHANGED <<requests, cache, reply, arrived, outages>>
    BY <1>1 DEF limitVars, CountVars
  <2> QED BY <2>1, CountsStay DEF GateInv, RequestsInv, Admitted, AnswersInv
<1>2. CASE Gate!Tick
  <2>1. nowG' = nowG + 1 /\ nowG' \in 0..MaxNow
        /\ UNCHANGED <<limits, granted, blocked>>
        /\ UNCHANGED <<requests, cache, reply, arrived, outages>>
    BY <1>2 DEF Gate!Tick, GateInv, CountsInv, GateAssumption
  <2>2. CountsInv' /\ DenialsInv'
    BY <2>1, TickKeepsCounts DEF GateInv
  <2> QED BY <2>1, <2>2 DEF GateInv, RequestsInv, Admitted, AnswersInv
<1>3. CASE Gate!Outage
  <2>1. UNCHANGED CountVars /\ UNCHANGED <<requests, cache, reply, arrived>>
        /\ outages' \in 0..(2 * MaxOutages)
    BY <1>3 DEF Gate!Outage, CountVars, GateInv, GateAssumption
  <2> QED BY <2>1, CountsStay DEF GateInv, RequestsInv, Admitted, AnswersInv
<1>4. ASSUME NEW i \in Instances, NEW k \in DOMAIN blocked[i], Gate!Forget(i, k)
      PROVE  GateInv'
  <2>1. blocked' = [blocked EXCEPT ![i] = [x \in DOMAIN blocked[i] \ {k} |-> blocked[i][x]]]
        /\ UNCHANGED <<nowG, limits, granted, requests, cache, reply, arrived, outages>>
    BY <1>4 DEF Gate!Forget
  <2>2. DOMAIN blocked' = Instances
        /\ \A j \in Instances : /\ DOMAIN blocked'[j] \subseteq DOMAIN blocked[j]
                                /\ \A x \in DOMAIN blocked'[j] : blocked'[j][x] = blocked[j][x]
    BY <2>1 DEF GateInv, DenialsInv
  <2>3. DenialsInv'
    BY <2>1, <2>2 DEF GateInv, DenialsInv
  <2> QED BY <2>1, <2>3 DEF GateInv, CountsInv, RequestsInv, Admitted, AnswersInv
<1> QED BY <1>1, <1>2, <1>3, <1>4, RateLimitKeeps, CountLostKeeps, ArriveKeeps, StagesKeep,
           HandleKeeps DEF Gate!Next

LEMMA GateKeepsPromises ==
  ASSUME GateAssumption, GateInv
  PROVE  /\ Gate!TypeOK /\ Gate!LimitHolds /\ Gate!DenialEndsWithWindow
         /\ Gate!PublicIsNobodys
<1>1. Gate!TypeOK
  BY DEF GateInv, CountsInv, Count, DenialsInv, AnswersInv, Statuses, Gate!TypeOK
<1>2. Gate!LimitHolds
  <2>1. \A k \in Gate!LimitKeys, t \in 0..MaxNow :
          granted[k] \in Seq(Nat) /\ Grants(granted[k], t, t + Window) <= 2 * Maximum
    BY DEF GateInv, CountsInv, WindowInv, GateAssumption
  <2>2. 0..MaxNow \subseteq Nat
    BY DEF GateAssumption
  <2> QED BY <2>1, <2>2, LimitFromWindows DEF Gate!LimitHolds
<1>3. Gate!DenialEndsWithWindow
  BY DEF GateInv, DenialsInv, Gate!DenialEndsWithWindow
<1>4. Gate!PublicIsNobodys
  BY DEF GateInv, AnswersInv, Public, Gate!PublicIsNobodys
<1> QED BY <1>1, <1>2, <1>3, <1>4

(* Limits hold over all instances and through Redis outages, a denial ends *)
(* with the window that caused it, what is about a wallet never becomes a  *)
(* public answer (rateLimit, publicPolicy), and a pool whose chart is      *)
(* empty is caught up with once a minute (the candles read).               *)
THEOREM LimitsAreKept == MCServicesSpec => []LimitsHold
<1> DEFINE I == /\ part = "gate" => GateInv
                /\ part = "catch-ups" => RotationInv
<1>1. MCServicesInit => I
  BY GateInit, RotationInit, GateAssumption, RotationAssumption DEF MCServicesInit
<1>2. I /\ [MCServicesNext]_<<part, historyVars, sessionVars, limitVars, rotationVars,
                              commentVars, saleVars>> => I'
  <2> SUFFICES ASSUME I, [MCServicesNext]_<<part, historyVars, sessionVars, limitVars,
                                            rotationVars, commentVars, saleVars>>
               PROVE  I'
    OBVIOUS
  <2>1. part' = part
    BY DEF MCServicesNext
  <2>2. CASE part = "gate"
    <3>1. GateInv /\ [Gate!Next]_limitVars
      BY <2>2 DEF MCServicesNext
    <3> QED BY <2>1, <2>2, <3>1, GateStep, GateAssumption
  <2>3. CASE part = "catch-ups"
    <3>1. RotationInv /\ [CatchUps!Next]_rotationVars
      BY <2>3 DEF MCServicesNext
    <3> QED BY <2>1, <2>3, <3>1, RotationStep, RotationAssumption
  <2> QED BY <2>1, <2>2, <2>3
<1>3. I => LimitsHold
  BY GateKeepsPromises, RotationKeepsPromises, GateAssumption DEF LimitsHold
<1>. QED  BY <1>1, <1>2, <1>3, PTL DEF MCServicesSpec

(* -------------------------------- comments ----------------------------- *)

Bought(w, i) == i \in DOMAIN receipts[w] /\ receipts[w][i] = "purchase"

(* Whatever stands as a proof is a purchase that is final.                 *)
CommentsInv ==
  /\ DOMAIN receipts = Wallets /\ \A w \in Wallets : receipts[w] \in Seq(Comments!Effects)
  /\ DOMAIN proofs = Wallets
  /\ \A w \in Wallets : proofs[w] # None => Bought(w, proofs[w])
  /\ DOMAIN posting = Wallets
  /\ \A w \in Wallets : \E step \in {"idle", "record", "insert"} : \E i :
       /\ posting[w] = [step |-> step, proof |-> i]
       /\ step # "idle" => Bought(w, i)
  /\ used \in 0..MaxComments /\ removed \in 0..MaxRemovals
  /\ \A c \in comments : /\ c.id \in 1..used /\ c.wallet \in Wallets
                         /\ Bought(c.wallet, c.proof)

LEMMA NewestIsThere ==
  ASSUME NEW n \in Nat, NEW S \in SUBSET (1..n), S # {}
  PROVE  Comments!Newest(S) \in S
<1> DEFINE D == {n - i : i \in S}
<1>1. D \in SUBSET Nat /\ D # {}
  <2>1. \A i \in S : n - i \in Nat
    OBVIOUS
  <2> QED BY <2>1
<1>2. PICK d \in D : \A e \in D : d <= e
  BY <1>1, LeastNat
<1>3. PICK i \in S : d = n - i
  BY <1>2
<1>4. \A j \in S : j <= i
  <2> TAKE j \in S
  <2>1. n - j \in D /\ j \in 1..n /\ i \in 1..n
    OBVIOUS
  <2> QED BY <1>2, <1>3, <2>1
<1> QED BY <1>4 DEF Comments!Newest

LEMMA CommentsInit == ASSUME RecordsAssumption, Comments!Init PROVE CommentsInv
<1>1. \A w \in Wallets : posting[w] = [step |-> "idle", proof |-> None]
  BY DEF Comments!Init, Comments!NoPost
<1>2. DOMAIN posting = Wallets /\ DOMAIN receipts = Wallets /\ DOMAIN proofs = Wallets
      /\ comments = {} /\ used = 0 /\ removed = 0
      /\ \A w \in Wallets : receipts[w] = << >> /\ proofs[w] = None
  BY DEF Comments!Init
<1>3. << >> \in Seq(Comments!Effects) /\ 0 \in 0..MaxComments /\ 0 \in 0..MaxRemovals
  BY DEF RecordsAssumption
<1> QED BY <1>1, <1>2, <1>3 DEF CommentsInv

(* A purchase that is final stays one.                                     *)
LEMMA PurchasesStay ==
  ASSUME CommentsInv, [Comments!Next]_commentVars
  PROVE  \A w \in Wallets : \A i : Bought(w, i) => Bought(w, i)'
<1> SUFFICES ASSUME NEW w \in Wallets, NEW i, Bought(w, i) PROVE Bought(w, i)'
  OBVIOUS
<1>1. CASE receipts' = receipts
  BY <1>1 DEF Bought
<1>2. ASSUME NEW v \in Wallets, NEW effect \in Comments!Effects, Comments!Trade(v, effect)
      PROVE  Bought(w, i)'
  BY <1>2 DEF Comments!Trade, CommentsInv, Bought
<1>3. ASSUME NEW v \in Wallets, NEW j \in DOMAIN receipts[v], Comments!Finalize(v, j)
      PROVE  Bought(w, i)'
  BY <1>3 DEF Comments!Finalize, CommentsInv, Bought
<1> QED BY <1>1, <1>2, <1>3
    DEF Comments!Next, commentVars, Comments!VerifyBuyer, Comments!RecordProof,
        Comments!PostComment, Comments!RemoveComment, Comments!Ask, Comments!Show

LEMMA ReceiptsTyped ==
  ASSUME CommentsInv, [Comments!Next]_commentVars
  PROVE  DOMAIN receipts' = Wallets /\ \A w \in Wallets : receipts'[w] \in Seq(Comments!Effects)
<1>1. CASE receipts' = receipts
  BY <1>1 DEF CommentsInv
<1>2. ASSUME NEW v \in Wallets, NEW effect \in Comments!Effects, Comments!Trade(v, effect)
      PROVE  DOMAIN receipts' = Wallets /\ \A w \in Wallets : receipts'[w] \in Seq(Comments!Effects)
  BY <1>2 DEF Comments!Trade, CommentsInv
<1>3. ASSUME NEW v \in Wallets, NEW j \in DOMAIN receipts[v], Comments!Finalize(v, j)
      PROVE  DOMAIN receipts' = Wallets /\ \A w \in Wallets : receipts'[w] \in Seq(Comments!Effects)
  <2>1. PICK effect \in {"purchase", "no-purchase"} : receipts' = [receipts EXCEPT ![v][j] = effect]
    BY <1>3 DEF Comments!Finalize
  <2>2. [receipts[v] EXCEPT ![j] = effect] \in Seq(Comments!Effects)
    BY DEF CommentsInv, Comments!Effects
  <2> QED BY <2>1, <2>2 DEF CommentsInv
<1> QED BY <1>1, <1>2, <1>3
    DEF Comments!Next, commentVars, Comments!VerifyBuyer, Comments!RecordProof,
        Comments!PostComment, Comments!RemoveComment, Comments!Ask, Comments!Show

LEMMA CommentsStep ==
  ASSUME RecordsAssumption, CommentsInv, [Comments!Next]_commentVars PROVE CommentsInv'
<1>r. /\ DOMAIN receipts' = Wallets
      /\ \A w \in Wallets : receipts'[w] \in Seq(Comments!Effects)
      /\ \A w \in Wallets : \A i : Bought(w, i) => Bought(w, i)'
  BY PurchasesStay, ReceiptsTyped
<1> DEFINE Post(w) == \E step \in {"idle", "record", "insert"} : \E i :
                        /\ posting[w] = [step |-> step, proof |-> i]
                        /\ step # "idle" => Bought(w, i)
<1>p. ASSUME NEW w \in Wallets PROVE Post(w)
  BY DEF CommentsInv
<1>1. CASE UNCHANGED <<proofs, comments, posting, used, removed>>
  BY <1>1, <1>r DEF CommentsInv
<1>2. ASSUME NEW w \in Wallets, Comments!VerifyBuyer(w) PROVE CommentsInv'
  <2>1. \E step \in {"idle", "record", "insert"} : \E i :
          posting' = [posting EXCEPT ![w] = [step |-> step, proof |-> i]] /\ Bought(w, i)
    <3>1. CASE proofs[w] # None
      BY <1>2, <3>1 DEF Comments!VerifyBuyer, CommentsInv
    <3>2. CASE proofs[w] = None
      <4>1. Comments!Candidates(w) # {} /\ Comments!Candidates(w) \in SUBSET (1..Len(receipts[w]))
            /\ Len(receipts[w]) \in Nat
        BY <1>2, <3>2 DEF Comments!VerifyBuyer, Comments!Candidates, CommentsInv
      <4>2. Comments!Newest(Comments!Candidates(w)) \in Comments!Candidates(w)
        BY <4>1, NewestIsThere
      <4>3. Bought(w, Comments!Newest(Comments!Candidates(w)))
        BY <4>2 DEF Comments!Candidates, Comments!Verified, Bought
      <4> QED BY <1>2, <3>2, <4>3 DEF Comments!VerifyBuyer
    <3> QED BY <3>1, <3>2
  <2>2. UNCHANGED <<proofs, comments, used, removed>>
    BY <1>2 DEF Comments!VerifyBuyer
  <2>3. DOMAIN posting' = Wallets /\ \A v \in Wallets : Post(v)'
    <3>0. PICK step \in {"idle", "record", "insert"} : \E i :
            posting' = [posting EXCEPT ![w] = [step |-> step, proof |-> i]] /\ Bought(w, i)
      BY <2>1
    <3>1. PICK i : posting' = [posting EXCEPT ![w] = [step |-> step, proof |-> i]] /\ Bought(w, i)
      BY <3>0
    <3>2. ASSUME NEW v \in Wallets, v # w PROVE posting'[v] = posting[v]
      BY <3>1, <3>2 DEF CommentsInv
    <3>3. DOMAIN posting' = Wallets /\ posting'[w] = [step |-> step, proof |-> i]
      BY <3>1 DEF CommentsInv
    <3> QED BY <1>p, <1>r, <3>1, <3>2, <3>3
  <2> QED BY <1>r, <2>2, <2>3 DEF CommentsInv
<1>3. ASSUME NEW w \in Wallets, Comments!RecordProof(w) PROVE CommentsInv'
  <2>0. PICK step \in {"idle", "record", "insert"} : \E i :
          posting[w] = [step |-> step, proof |-> i] /\ (step # "idle" => Bought(w, i))
    BY DEF CommentsInv
  <2>1. PICK i : posting[w] = [step |-> step, proof |-> i] /\ (step # "idle" => Bought(w, i))
    BY <2>0
  <2>2. Bought(w, i)
    BY <1>3, <2>1 DEF Comments!RecordProof
  <2>3. /\ posting' = [posting EXCEPT ![w] = [step |-> "insert", proof |-> i]]
        /\ proofs' = [proofs EXCEPT ![w] = IF proofs[w] = None THEN i ELSE proofs[w]]
        /\ UNCHANGED <<comments, used, removed>>
    <3>1. posting[w].proof = i /\ [posting[w] EXCEPT !.step = "insert"] = [step |-> "insert", proof |-> i]
      BY <2>1
    <3>2. posting' = [posting EXCEPT ![w] = [posting[w] EXCEPT !.step = "insert"]]
      BY <1>3 DEF Comments!RecordProof
    <3>3. proofs' = [proofs EXCEPT ![w] = IF proofs[w] = None THEN posting[w].proof ELSE proofs[w]]
          /\ UNCHANGED <<comments, used, removed>>
      BY <1>3 DEF Comments!RecordProof
    <3> QED BY <3>1, <3>2, <3>3
  <2>4. DOMAIN posting' = Wallets /\ \A v \in Wallets : Post(v)'
    <3>2. ASSUME NEW v \in Wallets, v # w PROVE posting'[v] = posting[v]
      BY <2>3, <3>2 DEF CommentsInv
    <3>3. DOMAIN posting' = Wallets /\ posting'[w] = [step |-> "insert", proof |-> i]
      BY <2>3 DEF CommentsInv
    <3> QED BY <1>p, <1>r, <2>2, <3>2, <3>3
  <2>5. DOMAIN proofs' = Wallets /\ \A v \in Wallets : proofs'[v] # None => Bought(v, proofs'[v])
    BY <2>2, <2>3 DEF CommentsInv
  <2> QED BY <1>r, <2>3, <2>4, <2>5 DEF CommentsInv
<1>4. ASSUME NEW w \in Wallets, Comments!PostComment(w) PROVE CommentsInv'
  <2>0. PICK step \in {"idle", "record", "insert"} : \E i :
          posting[w] = [step |-> step, proof |-> i] /\ (step # "idle" => Bought(w, i))
    BY DEF CommentsInv
  <2>1. PICK i : posting[w] = [step |-> step, proof |-> i] /\ (step # "idle" => Bought(w, i))
    BY <2>0
  <2>2. Bought(w, i)
    BY <1>4, <2>1 DEF Comments!PostComment
  <2>3. /\ posting' = [posting EXCEPT ![w] = [step |-> "idle", proof |-> None]]
        /\ comments' = comments \cup {[id |-> used + 1, wallet |-> w, proof |-> i]}
        /\ used' = used + 1 /\ used < MaxComments /\ UNCHANGED <<proofs, removed>>
    BY <1>4, <2>1 DEF Comments!PostComment, Comments!NoPost
  <2>4. DOMAIN posting' = Wallets /\ \A v \in Wallets : Post(v)'
    <3>2. ASSUME NEW v \in Wallets, v # w PROVE posting'[v] = posting[v]
      BY <2>3, <3>2 DEF CommentsInv
    <3>3. DOMAIN posting' = Wallets /\ posting'[w] = [step |-> "idle", proof |-> None]
      BY <2>3 DEF CommentsInv
    <3> QED BY <1>p, <1>r, <3>2, <3>3
  <2>5. used' \in 0..MaxComments
    BY <2>3 DEF RecordsAssumption, CommentsInv
  <2>6. ASSUME NEW c \in comments'
        PROVE  c.id \in 1..used' /\ c.wallet \in Wallets /\ Bought(c.wallet, c.proof)
    BY <2>2, <2>3 DEF RecordsAssumption, CommentsInv
  <2> QED BY <1>r, <2>3, <2>4, <2>5, <2>6 DEF CommentsInv
<1>5. ASSUME NEW c \in comments, Comments!RemoveComment(c) PROVE CommentsInv'
  <2>1. UNCHANGED <<proofs, posting, used>> /\ comments' \subseteq comments
        /\ removed' \in 0..MaxRemovals
    BY <1>5 DEF RecordsAssumption, CommentsInv, Comments!RemoveComment
  <2> QED BY <1>r, <2>1 DEF CommentsInv
<1> QED BY <1>1, <1>2, <1>3, <1>4, <1>5
    DEF Comments!Next, commentVars, Comments!Trade, Comments!Finalize, Comments!Ask, Comments!Show

LEMMA CommentsSafe ==
  ASSUME CommentsInv PROVE Comments!TypeOK /\ Comments!CommentsAreFromBuyers
<1>1. ASSUME NEW w \in Wallets PROVE posting[w].step \in {"idle", "record", "insert"}
  BY DEF CommentsInv
<1> QED BY <1>1 DEF CommentsInv, Bought, Comments!TypeOK, Comments!CommentsAreFromBuyers

(* ---------------------------------- sales ------------------------------ *)

(* The trades of the wallet, as they landed.                               *)
SaleChain ==
  /\ chainS \in Seq(Sales!SomeTrades)
  /\ \A i, j \in DOMAIN chainS : i <= j => chainS[i].time <= chainS[j].time
  /\ \A i, j \in DOMAIN chainS : chainS[i].signature = chainS[j].signature => i = j

LEMMA SalesCardinality == ASSUME NEW S PROVE Sales!Cardinality(S) = Cardinality(S)
BY DEF Sales!Cardinality, Cardinality

LEMMA TradesTyped ==
  ASSUME RecordsAssumption, SaleChain
  PROVE  /\ Len(chainS) \in Nat /\ DOMAIN chainS = 1..Len(chainS)
         /\ IsFiniteSet(DOMAIN chainS)
         /\ \A i \in DOMAIN chainS :
              /\ chainS[i] \in Sales!SomeTrades
              /\ chainS[i].time \in Nat /\ chainS[i].signature \in Nat
              /\ chainS[i].amount \in Nat \ {0} /\ chainS[i].side \in {"buy", "sell"}
<1>1. Len(chainS) \in Nat /\ DOMAIN chainS = 1..Len(chainS)
      /\ \A i \in DOMAIN chainS : chainS[i] \in Sales!SomeTrades
  BY DEF SaleChain
<1>2. IsFiniteSet(1..Len(chainS))
  BY <1>1, FS_Interval
<1>3. \A t \in Sales!SomeTrades :
        /\ t.time \in Nat /\ t.signature \in Nat
        /\ t.amount \in Nat \ {0} /\ t.side \in {"buy", "sell"}
  <2> SUFFICES ASSUME NEW t \in Sales!SomeTrades
               PROVE  /\ t.time \in Nat /\ t.signature \in Nat
                      /\ t.amount \in Nat \ {0} /\ t.side \in {"buy", "sell"}
    OBVIOUS
  <2>1. t.time \in 1..MaxSeconds /\ t.signature \in 1..MaxTrades /\ t.amount \in Amounts
        /\ t.side \in {"buy", "sell"}
    BY DEF Sales!SomeTrades
  <2>2. MaxSeconds \in Nat /\ MaxTrades \in Nat /\ Amounts \subseteq Nat \ {0}
    BY DEF RecordsAssumption
  <2>3. \A m \in Nat : 1..m \subseteq Nat
    OBVIOUS
  <2>4. t.time \in Nat /\ t.signature \in Nat
    BY <2>1, <2>2, <2>3
  <2>5. t.amount \in Nat \ {0}
    BY <2>1, <2>2
  <2> QED BY <2>1, <2>4, <2>5
<1> QED BY <1>1, <1>2, <1>3

(* The order of the index is a strict order of all trades.                 *)
LEMMA BeforeOrders ==
  ASSUME RecordsAssumption, SaleChain,
         NEW i \in DOMAIN chainS, NEW j \in DOMAIN chainS
  PROVE  /\ ~ Sales!Before(i, i)
         /\ i # j => Sales!Before(i, j) \/ Sales!Before(j, i)
         /\ Sales!Before(i, j) => ~ Sales!Before(j, i)
         /\ \A k \in DOMAIN chainS :
              Sales!Before(i, j) /\ Sales!Before(j, k) => Sales!Before(i, k)
<1>1. i # j => chainS[i].signature # chainS[j].signature
  BY DEF SaleChain
<1>2. \A k \in DOMAIN chainS : chainS[k].time \in Nat /\ chainS[k].signature \in Nat
  BY TradesTyped
<1>3. ASSUME NEW k \in DOMAIN chainS, Sales!Before(i, j), Sales!Before(j, k)
      PROVE  Sales!Before(i, k)
  BY <1>2, <1>3 DEF Sales!Before
<1>4. ~ Sales!Before(i, i) /\ (i # j => Sales!Before(i, j) \/ Sales!Before(j, i))
      /\ (Sales!Before(i, j) => ~ Sales!Before(j, i))
  BY <1>1, <1>2 DEF Sales!Before
<1> QED BY <1>3, <1>4

(* A trade's place is the number of those before it, and one more.         *)
LEMMA PlacesOrder ==
  ASSUME RecordsAssumption, SaleChain, NEW S \in SUBSET DOMAIN chainS
  PROVE  /\ IsFiniteSet(S) /\ Cardinality(S) \in Nat
         /\ Sales!InOrder(S) \in [1..Cardinality(S) -> S]
         /\ \A i \in S : /\ Sales!Place(S, i) \in 1..Cardinality(S)
                         /\ Sales!InOrder(S)[Sales!Place(S, i)] = i
         /\ \A k \in 1..Cardinality(S) : Sales!Place(S, Sales!InOrder(S)[k]) = k
         /\ \A i, j \in S : Sales!Before(i, j) <=> Sales!Place(S, i) < Sales!Place(S, j)
<1> DEFINE n == Cardinality(S)
           Earlier(i) == {j \in S : Sales!Before(j, i)}
           place == [i \in S |-> Cardinality(Earlier(i)) + 1]
<1>1. IsFiniteSet(S) /\ n \in Nat
  BY TradesTyped, FS_Subset, FS_CardinalityType
<1>2. \A i \in S : Sales!Place(S, i) = place[i]
  BY SalesCardinality DEF Sales!Place
<1>3. ASSUME NEW i \in S
      PROVE  IsFiniteSet(Earlier(i)) /\ Cardinality(Earlier(i)) \in Nat /\ place[i] \in 1..n
  <2>1. Earlier(i) \in SUBSET S /\ i \notin Earlier(i)
    BY BeforeOrders
  <2>2. IsFiniteSet(Earlier(i)) /\ Cardinality(Earlier(i)) \in Nat
        /\ Cardinality(Earlier(i)) <= n /\ (Cardinality(Earlier(i)) = n => Earlier(i) = S)
    BY <1>1, <2>1, FS_Subset, FS_CardinalityType
  <2> HIDE DEF Earlier
  <2> QED BY <1>1, <2>1, <2>2
<1>4. ASSUME NEW i \in S, NEW j \in S, Sales!Before(i, j) PROVE place[i] < place[j]
  <2>1. Earlier(i) \in SUBSET Earlier(j) /\ i \in Earlier(j) /\ i \notin Earlier(i)
    BY <1>4, BeforeOrders
  <2>2. Cardinality(Earlier(i)) <= Cardinality(Earlier(j))
        /\ (Cardinality(Earlier(i)) = Cardinality(Earlier(j)) => Earlier(i) = Earlier(j))
    <3> HIDE DEF Earlier
    <3> QED BY <1>3, <2>1, FS_Subset
  <2> HIDE DEF Earlier
  <2> QED BY <1>3, <2>1, <2>2
<1>5. \A i, j \in S : Sales!Before(i, j) <=> place[i] < place[j]
  <2> SUFFICES ASSUME NEW i \in S, NEW j \in S, place[i] < place[j] PROVE Sales!Before(i, j)
    BY <1>4
  <2>1. place[i] \in Nat /\ place[j] \in Nat
    <3>1. place[i] \in 1..n /\ place[j] \in 1..n
      BY <1>3
    <3> HIDE DEF place
    <3> QED BY <1>1, <3>1
  <2>2. i # j /\ ~ Sales!Before(j, i)
    <3>1. Sales!Before(j, i) => place[j] < place[i]
      BY <1>4
    <3> HIDE DEF place
    <3> QED BY <2>1, <3>1
  <2> QED BY <2>2, BeforeOrders
<1>6. place \in [S -> 1..n]
  BY <1>3
<1> HIDE DEF place, Earlier
<1>7. \A i, j \in S : place[i] = place[j] => i = j
  <2> SUFFICES ASSUME NEW i \in S, NEW j \in S, place[i] = place[j], i # j PROVE FALSE
    OBVIOUS
  <2>1. place[i] < place[j] \/ place[j] < place[i]
    BY <1>5, BeforeOrders
  <2> QED BY <1>1, <1>6, <2>1
<1>8. \A k \in 1..n : \E i \in S : place[i] = k
  <2>1. place \in Injection(S, 1..n)
    BY <1>6, <1>7 DEF Injection, IsInjective
  <2>2. IsFiniteSet(1..n) /\ Cardinality(1..n) = n
    <3>1. 1 \in Int /\ n \in Int
      BY <1>1
    <3>2. IsFiniteSet(1..n) /\ Cardinality(1..n) = IF 1 > n THEN 0 ELSE n - 1 + 1
      BY <3>1, FS_Interval
    <3> QED BY <1>1, <3>2
  <2>3. place \in Surjection(S, 1..n)
    BY <2>1, <2>2, FS_Injection
  <2> QED BY <2>3 DEF Surjection
<1>9. Sales!InOrder(S) = [k \in 1..n |-> CHOOSE i \in S : place[i] = k]
  BY <1>2, SalesCardinality DEF Sales!InOrder
<1>10. ASSUME NEW k \in 1..n
       PROVE  Sales!InOrder(S)[k] \in S /\ place[Sales!InOrder(S)[k]] = k
  BY <1>8, <1>9
<1>11. ASSUME NEW i \in S PROVE Sales!InOrder(S)[place[i]] = i
  BY <1>6, <1>7, <1>10
<1>12. Sales!InOrder(S) \in [1..n -> S]
  BY <1>9, <1>10
<1> QED BY <1>1, <1>2, <1>5, <1>6, <1>10, <1>11, <1>12

(* What a trade adds to what the wallet holds.                             *)
Deltas == [i \in DOMAIN chainS |-> Sales!Delta(chainS[i])]

(* A replay that does not stop ends with what was bought and not sold.     *)
LEMMA ReplayPosition ==
  ASSUME RecordsAssumption, SaleChain, NEW N \in Nat, NEW e \in [1..N -> DOMAIN chainS],
         \A i, j \in 1..N : e[i] = e[j] => i = j,
         Sales!Replay(Sales!TradesOf(e)) # None
  PROVE  Sales!Replay(Sales!TradesOf(e)).position
           = SumFunctionOnSet(Deltas, {e[k] : k \in 1..N})
<1> DEFINE trades == Sales!TradesOf(e)
           Begin == [position |-> 0, cost |-> 0]
           Step(n, s) ==
             IF s = None THEN None
             ELSE IF trades[n].side = "buy" THEN Sales!Bought(s, trades[n])
             ELSE IF trades[n].amount <= s.position /\ s.position > 0
                  THEN Sales!Sold(s, trades[n])
             ELSE None
           Runs(g, m) == \A n \in 0..m : g[n] = IF n = 0 THEN Begin ELSE Step(n, g[n - 1])
           Fold(g) == g = [n \in 0..N |-> IF n = 0 THEN Begin ELSE Step(n, g[n - 1])]
           Reached == {m \in Nat : m <= N => \E g : Runs(g, m)}
<1>t. /\ Len(trades) = N
      /\ \A n \in 1..N : /\ trades[n] = chainS[e[n]] /\ Deltas[e[n]] = Sales!Delta(trades[n])
                          /\ trades[n].amount \in Nat /\ trades[n].side \in {"buy", "sell"}
  <2>1. trades = [n \in 1..N |-> chainS[e[n]]]
    BY DEF Sales!TradesOf
  <2>2. ASSUME NEW n \in 1..N PROVE e[n] \in DOMAIN chainS
    OBVIOUS
  <2>3. trades \in Seq(Sales!SomeTrades) /\ Len(trades) = N
    BY <2>1, TradesTyped
  <2> HIDE DEF trades
  <2> QED BY <2>1, <2>2, <2>3, TradesTyped DEF Deltas
<1> HIDE DEF trades
<1>1. N \in Nat
  OBVIOUS
<1>2. 0 \in Reached
  <2>1. Runs([n \in {0} |-> Begin], 0)
    OBVIOUS
  <2> QED BY <2>1
<1>3. ASSUME NEW m \in Nat, m \in Reached PROVE m + 1 \in Reached
  <2> SUFFICES ASSUME m + 1 <= N PROVE \E g : Runs(g, m + 1)
    OBVIOUS
  <2>1. PICK g : Runs(g, m)
    BY <1>1, <1>3
  <2> DEFINE h == [n \in 0..(m + 1) |-> IF n = m + 1 THEN Step(n, g[m]) ELSE g[n]]
  <2>2. ASSUME NEW n \in 0..(m + 1) PROVE h[n] = IF n = 0 THEN Begin ELSE Step(n, h[n - 1])
    <3> HIDE DEF Step
    <3>1. CASE n = m + 1
      BY <3>1
    <3>2. CASE n # m + 1
      <4>1. n \in 0..m /\ h[n] = g[n] /\ (n # 0 => h[n - 1] = g[n - 1])
        BY <3>2
      <4>2. g[n] = IF n = 0 THEN Begin ELSE Step(n, g[n - 1])
        BY <2>1, <4>1
      <4> HIDE DEF h
      <4> QED BY <4>1, <4>2
    <3> QED BY <3>1, <3>2
  <2> HIDE DEF h, Step
  <2>3. Runs(h, m + 1)
    BY <2>2
  <2> QED BY <2>3
<1> HIDE DEF Step
<1>4. \E g : Runs(g, N)
  <2>1. Nat \subseteq Reached
    <3> HIDE DEF Reached
    <3> QED BY <1>2, <1>3, EveryNat
  <2> QED BY <1>1, <2>1
<1>5. \E g : Fold(g)
  <2>1. PICK g : Runs(g, N)
    BY <1>4
  <2> DEFINE h == [n \in 0..N |-> g[n]]
  <2>2. ASSUME NEW n \in 0..N PROVE h[n] = IF n = 0 THEN Begin ELSE Step(n, h[n - 1])
    <3>1. h[n] = g[n] /\ (n # 0 => h[n - 1] = g[n - 1])
      BY <1>1
    <3>2. g[n] = IF n = 0 THEN Begin ELSE Step(n, g[n - 1])
      BY <2>1
    <3> HIDE DEF h
    <3> QED BY <3>1, <3>2
  <2>3. h = [n \in 0..N |-> h[n]]
    OBVIOUS
  <2> HIDE DEF h
  <2>4. Fold(h)
    BY <2>2, <2>3
  <2> QED BY <2>4
<1> DEFINE F == CHOOSE g : Fold(g)
<1>6. Fold(F)
  <2> HIDE DEF Fold
  <2> QED BY <1>5
<1>7. Sales!Replay(trades) = F[N]
  BY <1>t DEF Sales!Replay, Step
<1> HIDE DEF F
<1> DEFINE Upto(n) == {e[k] : k \in 1..n}
           Sum(n) == SumFunctionOnSet(Deltas, Upto(n))
           Ends(n) == F[n] # None => \E c : F[n] = [position |-> Sum(n), cost |-> c]
           Built == {n \in Nat : n <= N => Ends(n)}
<1> HIDE DEF Ends
<1>s. ASSUME NEW n \in 0..N PROVE IsFiniteSet(Upto(n)) /\ Upto(n) \subseteq DOMAIN chainS /\ Sum(n) \in Int
  <2>1. Upto(n) \in SUBSET DOMAIN chainS
    OBVIOUS
  <2>2. IsFiniteSet(Upto(n))
    BY <2>1, TradesTyped, FS_Subset
  <2>3. \A i \in DOMAIN chainS : Deltas[i] \in Int
    BY TradesTyped DEF Deltas, Sales!Delta
  <2> QED BY <2>1, <2>2, <2>3, SumInteger
<1>8. Ends(0)
  <2>1. F[0] = Begin
    BY <1>1, <1>6
  <2>2. Upto(0) = {}
    OBVIOUS
  <2>3. Sum(0) = 0
    BY <2>2, SumEmpty
  <2>4. F[0] = [position |-> Sum(0), cost |-> 0]
    BY <2>1, <2>3
  <2> HIDE DEF Sum
  <2> QED BY <2>4 DEF Ends
<1>9. ASSUME NEW n \in Nat, n + 1 <= N, Ends(n) PROVE Ends(n + 1)
  <2> SUFFICES ASSUME F[n + 1] # None
               PROVE  \E c : F[n + 1] = [position |-> Sum(n + 1), cost |-> c]
    BY DEF Ends
  <2>1. n + 1 \in 1..N /\ n \in 0..N /\ n + 1 \in 0..N
    BY <1>1, <1>9
  <2>2. F[n + 1] = Step(n + 1, F[n])
    <3>1. n + 1 \in 0..N /\ n + 1 # 0 /\ (n + 1) - 1 = n
      BY <1>1, <2>1
    <3> QED BY <1>6, <3>1
  <2>3. F[n] # None
    BY <2>2 DEF Step
  <2>4. PICK c : F[n] = [position |-> Sum(n), cost |-> c]
    <3> HIDE DEF Sum
    <3> QED BY <1>9, <2>3 DEF Ends
  <2>5. Sum(n + 1) = Deltas[e[n + 1]] + Sum(n)
    <3>1. Upto(n + 1) = Upto(n) \cup {e[n + 1]}
      <4>1. 1..(n + 1) = (1..n) \cup {n + 1}
        BY <2>1
      <4> QED BY <4>1
    <3>2. e[n + 1] \notin Upto(n)
      <4> SUFFICES ASSUME NEW k \in 1..n, e[k] = e[n + 1] PROVE FALSE
        OBVIOUS
      <4>1. k \in 1..N /\ k # n + 1
        BY <2>1
      <4> QED BY <2>1, <4>1
    <3>3. \A i \in Upto(n) \cup {e[n + 1]} : Deltas[i] \in Int
      <4>1. Upto(n + 1) \subseteq DOMAIN chainS
        BY <1>s, <2>1
      <4>2. \A i \in DOMAIN chainS : Deltas[i] \in Int
        BY TradesTyped DEF Deltas, Sales!Delta
      <4> QED BY <3>1, <4>1, <4>2
    <3>4. IsFiniteSet(Upto(n))
      BY <1>s, <2>1
    <3> HIDE DEF Upto
    <3> QED BY <3>1, <3>2, <3>3, <3>4, SumInsert
  <2>6. Sum(n) \in Int
    BY <1>s, <2>1
  <2> HIDE DEF Sum
  <2>7. PICK t : t = trades[n + 1] /\ t.amount \in Nat /\ t.side \in {"buy", "sell"}
                 /\ Deltas[e[n + 1]] = Sales!Delta(t)
    BY <1>t, <2>1
  <2>8. CASE t.side = "buy"
    <3>1. F[n + 1] = [[position |-> Sum(n), cost |-> c] EXCEPT !.position = @ + t.amount, !.cost = @ + t.quote]
      BY <2>2, <2>3, <2>4, <2>7, <2>8 DEF Step, Sales!Bought
    <3>2. F[n + 1] = [position |-> Sum(n) + t.amount, cost |-> c + t.quote]
      BY <3>1
    <3>3. Sum(n) + t.amount = Sum(n + 1)
      BY <2>5, <2>6, <2>7, <2>8 DEF Sales!Delta
    <3> QED BY <3>2, <3>3
  <2>9. CASE t.side = "sell"
    <3>1. F[n + 1] = Sales!Sold([position |-> Sum(n), cost |-> c], t)
      BY <2>2, <2>3, <2>4, <2>7, <2>9 DEF Step
    <3>2. F[n + 1] = [position |-> Sum(n) - t.amount, cost |-> c - (c * t.amount) \div Sum(n)]
      BY <3>1 DEF Sales!Sold
    <3>3. Sum(n) - t.amount = Sum(n + 1)
      BY <2>5, <2>6, <2>7, <2>9 DEF Sales!Delta
    <3> QED BY <3>2, <3>3
  <2> QED BY <2>7, <2>8, <2>9
<1>10. Ends(N)
  <2>1. 0 \in Built
    BY <1>8
  <2>2. ASSUME NEW n \in Nat, n \in Built PROVE n + 1 \in Built
    <3> SUFFICES ASSUME n + 1 <= N PROVE Ends(n + 1)
      OBVIOUS
    <3>1. n <= N
      BY <1>1
    <3> QED BY <1>9, <2>2, <3>1
  <2>3. Nat \subseteq Built
    <3> HIDE DEF Built
    <3> QED BY <2>1, <2>2, EveryNat
  <2> QED BY <1>1, <2>3
<1>11. \E c : F[N] = [position |-> Sum(N), cost |-> c]
  <2>1. F[N] # None
    BY <1>7 DEF trades
  <2> HIDE DEF Sum
  <2> QED BY <1>10, <2>1 DEF Ends
<1>12. F[N].position = Sum(N)
  <2> HIDE DEF Sum
  <2> QED BY <1>11
<1> QED BY <1>7, <1>12 DEF trades

LEMMA SalesSum ==
  ASSUME NEW f PROVE Sales!SumFunction(f) = SumFunctionOnSet(f, DOMAIN f)
BY DEF Sales!SumFunction, Sales!SumFunctionOnSet, Sales!FoldFunctionOnSet,
       Sales!MapThenFoldSet, SumFunctionOnSet, FoldFunctionOnSet, MapThenFoldSet

(* What the wallet holds is the sum over all its trades.                   *)
LEMMA HeldIsSum ==
  ASSUME RecordsAssumption, SaleChain
  PROVE  /\ Sales!Held = SumFunctionOnSet(Deltas, DOMAIN chainS)
         /\ \A i \in DOMAIN chainS : Deltas[i] \in Int /\ Deltas[i] = Sales!Delta(chainS[i])
         /\ \A S \in SUBSET DOMAIN chainS : IsFiniteSet(S) /\ SumFunctionOnSet(Deltas, S) \in Int
<1>1. \A i \in DOMAIN chainS : Deltas[i] \in Int /\ Deltas[i] = Sales!Delta(chainS[i])
  BY TradesTyped DEF Deltas, Sales!Delta
<1>2. DOMAIN Deltas = DOMAIN chainS
  BY DEF Deltas
<1>3. Sales!Held = SumFunctionOnSet(Deltas, DOMAIN chainS)
  <2>1. Sales!Held = Sales!SumFunction(Deltas)
    BY DEF Sales!Held, Deltas
  <2> QED BY <1>2, <2>1, SalesSum
<1>4. \A S \in SUBSET DOMAIN chainS : IsFiniteSet(S) /\ SumFunctionOnSet(Deltas, S) \in Int
  BY <1>1, TradesTyped, FS_Subset, SumInteger
<1> QED BY <1>1, <1>3, <1>4

(* A cost over the trades before a sale comes out only where no other sale *)
(* of its second is behind it in the index: what those before it bought    *)
(* and did not sell is what the wallet held.                               *)
LEMMA EveryTradeCounts ==
  ASSUME RecordsAssumption, SessionAssumption, SaleChain, chainS # <<>>,
         sale = Len(chainS), chainS[sale].side = "sell",
         Sales!Ordered(chainS),
         NEW N \in Nat, NEW e \in [1..N -> DOMAIN chainS],
         \A i, j \in 1..N : e[i] = e[j] => i = j,
         {e[k] : k \in 1..N} = {i \in DOMAIN chainS : Sales!Before(i, sale)},
         Sales!CostOf(Sales!TradesOf(e), chainS[sale], Sales!Held + chainS[sale].amount) # None
  PROVE  {i \in DOMAIN chainS : Sales!Before(i, sale)} = 1..(sale - 1)
<1> DEFINE Sum(S) == SumFunctionOnSet(Deltas, S)
           All == DOMAIN chainS
           Earlier == {i \in All : Sales!Before(i, sale)}
           Later == {i \in All : Sales!Before(sale, i)}
<1>1. sale \in All /\ All = 1..sale /\ sale \in Nat \ {0}
  <2>1. chainS \in Seq(Sales!SomeTrades)
    BY DEF SaleChain
  <2>2. Len(chainS) # 0
    BY <2>1
  <2> QED BY <2>2, TradesTyped
<1>2. /\ Earlier \in SUBSET All /\ Later \in SUBSET All
      /\ Earlier \cap Later = {} /\ sale \notin Earlier /\ sale \notin Later
      /\ All = (Earlier \cup Later) \cup {sale}
  BY <1>1, BeforeOrders
<1>3. Sum(Earlier) = Sales!Held + chainS[sale].amount
  <2>1. Sales!Replay(Sales!TradesOf(e)) # None
    BY DEF Sales!CostOf
  <2>2. Sales!Replay(Sales!TradesOf(e)).position = Sales!Held + chainS[sale].amount
    BY <2>1 DEF Sales!CostOf
  <2>3. Sales!Replay(Sales!TradesOf(e)).position = SumFunctionOnSet(Deltas, {e[k] : k \in 1..N})
    BY <2>1, ReplayPosition
  <2> QED BY <2>2, <2>3
<1>4. ASSUME NEW i \in Later PROVE Deltas[i] \in Int /\ Deltas[i] < 0
  <2>1. i \in All /\ i <= sale /\ Sales!Before(sale, i)
    BY <1>1
  <2>2. chainS[i].time <= chainS[sale].time
    BY <1>1, <2>1 DEF SaleChain
  <2>3. chainS[i].time = chainS[sale].time
    BY <1>1, <2>1, <2>2, TradesTyped DEF Sales!Before
  <2>4. chainS[i].side = "sell"
    BY <1>1, <2>1, <2>3 DEF Sales!Ordered
  <2>5. Deltas[i] = - chainS[i].amount /\ chainS[i].amount \in Nat \ {0}
    BY <2>1, <2>4, HeldIsSum, TradesTyped DEF Sales!Delta
  <2> QED BY <2>5
<1>5. Deltas[sale] = - chainS[sale].amount /\ chainS[sale].amount \in Nat \ {0}
  BY <1>1, HeldIsSum, TradesTyped DEF Sales!Delta
<1> HIDE DEF Earlier, Later, All
<1>6. /\ IsFiniteSet(Earlier) /\ IsFiniteSet(Later) /\ IsFiniteSet(Earlier \cup Later)
      /\ Sum(Earlier) \in Int /\ Sum(Later) \in Int /\ Sum(Earlier \cup Later) \in Int
      /\ \A i \in All : Deltas[i] \in Int
  BY <1>2, HeldIsSum DEF All
<1>7. Sum(Earlier \cup Later) = Sum(Earlier) + Sum(Later)
  BY <1>2, <1>6, SumUnion
<1>8. Sum(All) = Deltas[sale] + Sum(Earlier \cup Later)
  BY <1>2, <1>6, SumInsert
<1>9. Sales!Held = Sum(All)
  BY HeldIsSum DEF All
<1>10. Sum(Later) = 0
  <2> HIDE DEF Sum
  <2> QED BY <1>3, <1>5, <1>6, <1>7, <1>8, <1>9
<1>11. Later = {}
  <2> SUFFICES ASSUME Later # {} PROVE FALSE
    OBVIOUS
  <2>1. Sum(Later) < 0
    BY <1>4, <1>6, SumNegative
  <2> HIDE DEF Sum
  <2> QED BY <1>10, <2>1
<1>12. Earlier = (1..sale) \ {sale}
  BY <1>1, <1>2, <1>11
<1>13. (1..sale) \ {sale} = 1..(sale - 1)
  BY <1>1
<1> QED BY <1>12, <1>13 DEF Earlier, All

(* What the chain, the index and the sale have in common. A scan of a      *)
(* venue covers every trade there up to the second it ended in, and no     *)
(* later trade can carry that second.                                      *)
SaleState ==
  /\ SaleChain
  /\ sale # None => chainS # <<>> /\ sale = Len(chainS) /\ chainS[sale].side = "sell"
  /\ graduatedS \in {None} \cup 0..Len(chainS) /\ indexed \in SUBSET DOMAIN chainS
  /\ DOMAIN through = Sales!Venues
  /\ \A v \in Sales!Venues : through[v] # None =>
       /\ through[v] \in Nat
       /\ \A i \in DOMAIN chainS :
            Sales!Venue(i) = v /\ chainS[i].time <= through[v] => i \in indexed
  /\ polls \in 0..MaxPolls
  /\ shown.status \in {"pending", "unavailable", "ready"}

(* A shown result was ready when it was shown.                             *)
SaleInv ==
  /\ SaleState
  /\ shown.status = "ready" => sale # None
  /\ Sales!ShownCostIsTrue

(* How far the curve of a graduated pool is covered now.                   *)
CurveNow == IF graduatedS = None THEN None ELSE through["dbc"]

(* Every trade is indexed once the history covers the second of the sale,  *)
(* and of a graduated pool the curve's own.                                *)
LEMMA CoveredIsWhole ==
  ASSUME RecordsAssumption, SessionAssumption, SaleState, sale # None, Sales!Complete,
         Sales!CurveCovered(CurveNow)
  PROVE  /\ sale \in DOMAIN chainS /\ DOMAIN chainS = 1..sale /\ sale \in Nat \ {0}
         /\ indexed = DOMAIN chainS /\ Sales!Rows = DOMAIN chainS
<1>1. sale \in DOMAIN chainS /\ DOMAIN chainS = 1..sale /\ sale \in Nat \ {0}
  <2>1. chainS \in Seq(Sales!SomeTrades) /\ chainS # <<>> /\ sale = Len(chainS)
    BY DEF SaleState, SaleChain
  <2>2. Len(chainS) # 0
    BY <2>1
  <2> QED BY <2>1, <2>2, TradesTyped DEF SaleState
<1>3. \A i \in DOMAIN chainS : chainS[i].time \in Nat /\ chainS[i].time <= chainS[sale].time
  BY <1>1, TradesTyped DEF SaleState, SaleChain
<1>4. ASSUME NEW i \in DOMAIN chainS PROVE i \in indexed
  <2>1. CASE Sales!Venue(i) = "dbc"
    <3>1. through["dbc"] # None /\ "dbc" \in Sales!Venues
      BY DEF Sales!Complete, Sales!Venues
    <3>2. through["dbc"] \in Nat
      BY <3>1 DEF SaleState
    <3>3. CASE graduatedS = None
      <4>1. through["dbc"] >= chainS[sale].time
        BY <3>3 DEF Sales!Complete
      <4>2. chainS[i].time <= through["dbc"]
        BY <1>1, <1>3, <3>2, <4>1
      <4> QED BY <2>1, <3>1, <4>2 DEF SaleState
    <3>4. CASE graduatedS # None
      <4>1. chainS[i].time <= through["dbc"]
        BY <2>1, <3>1, <3>4 DEF Sales!CurveCovered, CurveNow
      <4> QED BY <2>1, <3>1, <4>1 DEF SaleState
    <3> QED BY <3>3, <3>4
  <2>2. CASE Sales!Venue(i) = "damm-v2"
    <3>1. graduatedS # None /\ "damm-v2" \in Sales!Venues
      BY <2>2 DEF Sales!Venue, Sales!Venues
    <3>2. through["damm-v2"] # None /\ through["damm-v2"] >= chainS[sale].time
      BY <3>1 DEF Sales!Complete
    <3>3. through["damm-v2"] \in Nat
      BY <3>1, <3>2 DEF SaleState
    <3>4. chainS[i].time <= through["damm-v2"]
      BY <1>1, <1>3, <3>2, <3>3
    <3> QED BY <2>2, <3>1, <3>2, <3>4 DEF SaleState
  <2> QED BY <2>1, <2>2 DEF Sales!Venue
<1>5. indexed = DOMAIN chainS
  BY <1>4 DEF SaleState
<1> QED BY <1>1, <1>3, <1>5 DEF Sales!Rows

(* A result that is ready is the cost over all the trades before the sale, *)
(* of a graduated pool where its curve is covered.                         *)
LEMMA ReadyIsTrue ==
  ASSUME RecordsAssumption, SessionAssumption, SaleState, sale # None,
         Sales!Result.status = "ready", Sales!CurveCovered(CurveNow)
  PROVE  /\ Sales!Ordered(chainS)
         /\ \E h \in Sales!Histories :
              Sales!Result.cost
                = Sales!CostOf(Sales!TradesOf(h), chainS[sale], Sales!Held + chainS[sale].amount)
<1> DEFINE All == DOMAIN chainS
           order == Sales!InOrder(All)
           p == Sales!Place(All, sale)
           N == p - 1
           earlier == SubSeq(order, 1, N)
           h == [k \in 1..N |-> order[k]]
<1>0. SaleChain
  BY DEF SaleState
<1>1. Sales!Complete /\ Sales!Cost # None /\ Sales!Result.cost = Sales!Cost
  BY DEF Sales!Result, Sales!Pending, Sales!Answer
<1>2. /\ sale \in All /\ All = 1..sale /\ sale \in Nat \ {0} /\ Sales!Rows = All
  BY <1>1, CoveredIsWhole
<1>3. sale \in indexed /\ Sales!Ordered(Sales!TradesOf(order))
      /\ Sales!Cost = Sales!CostOf(Sales!TradesOf(earlier), chainS[sale], Sales!Held + chainS[sale].amount)
  BY <1>1, <1>2 DEF Sales!Cost
<1> HIDE DEF order, p
<1>4. /\ Cardinality(All) = sale
      /\ order \in [1..sale -> All]
      /\ \A i \in All : Sales!Place(All, i) \in 1..sale /\ order[Sales!Place(All, i)] = i
      /\ \A k \in 1..sale : Sales!Place(All, order[k]) = k
      /\ \A i, j \in All : Sales!Before(i, j) <=> Sales!Place(All, i) < Sales!Place(All, j)
  <2>1. Cardinality(All) = sale
    <3>1. 1 \in Int /\ sale \in Int
      BY <1>2
    <3>2. Cardinality(1..sale) = IF 1 > sale THEN 0 ELSE sale - 1 + 1
      BY <3>1, FS_Interval
    <3> QED BY <1>2, <3>2
  <2>2. All \in SUBSET DOMAIN chainS
    OBVIOUS
  <2> HIDE DEF All
  <2> QED BY <1>0, <2>1, <2>2, PlacesOrder DEF order, All
<1>5. p \in 1..sale /\ N \in Nat /\ N < sale
  <2>1. p \in 1..sale
    BY <1>2, <1>4 DEF p
  <2> QED BY <1>2, <2>1
<1>6. earlier = h
  <2>1. order \in Seq(All)
    BY <1>2, <1>4
  <2>2. earlier = [k \in 1..N |-> order[k]]
    BY <2>1, <1>2, <1>4, <1>5
  <2> QED BY <2>2
<1>7. Sales!Ordered(chainS)
  <2> SUFFICES ASSUME NEW i \in All, NEW j \in All, chainS[i].time = chainS[j].time
               PROVE  chainS[i].side = chainS[j].side
    BY DEF Sales!Ordered
  <2>1. DOMAIN Sales!TradesOf(order) = 1..sale
        /\ \A k \in 1..sale : Sales!TradesOf(order)[k] = chainS[order[k]]
    BY <1>4 DEF Sales!TradesOf
  <2>2. PICK k \in 1..sale, l \in 1..sale : order[k] = i /\ order[l] = j
    BY <1>4
  <2> QED BY <1>3, <2>1, <2>2 DEF Sales!Ordered
<1>8. /\ h \in [1..N -> All] /\ \A i, j \in 1..N : h[i] = h[j] => i = j
  <2>1. \A k \in 1..N : k \in 1..sale
    BY <1>2, <1>5
  <2>2. \A k \in 1..N : h[k] = order[k] /\ h[k] \in All /\ Sales!Place(All, h[k]) = k
    BY <1>4, <2>1
  <2>3. h \in [1..N -> All]
    BY <2>2
  <2> HIDE DEF h
  <2> QED BY <2>2, <2>3
<1>9. {h[k] : k \in 1..N} = {i \in All : Sales!Before(i, sale)}
  <2>1. ASSUME NEW k \in 1..N PROVE h[k] \in All /\ Sales!Before(h[k], sale)
    <3>1. k \in 1..sale /\ k < p
      BY <1>2, <1>5
    <3>2. order[k] \in All /\ Sales!Place(All, order[k]) < Sales!Place(All, sale)
      BY <1>4, <3>1 DEF p
    <3> QED BY <1>2, <1>4, <3>2
  <2>2. ASSUME NEW i \in All, Sales!Before(i, sale) PROVE \E k \in 1..N : h[k] = i
    <3>1. Sales!Place(All, i) \in 1..sale /\ Sales!Place(All, i) < p /\ order[Sales!Place(All, i)] = i
      BY <1>2, <1>4, <2>2 DEF p
    <3>2. Sales!Place(All, i) \in 1..N
      BY <1>2, <1>5, <3>1
    <3> QED BY <3>1, <3>2
  <2> HIDE DEF h
  <2> QED BY <2>1, <2>2
<1>10. Sales!Cost = Sales!CostOf(Sales!TradesOf(h), chainS[sale], Sales!Held + chainS[sale].amount)
  BY <1>3, <1>6
<1>11. chainS # <<>> /\ sale = Len(chainS) /\ chainS[sale].side = "sell"
  BY DEF SaleState
<1>12. {i \in All : Sales!Before(i, sale)} = 1..(sale - 1)
  <2> HIDE DEF h, N, earlier
  <2> QED BY <1>0, <1>1, <1>5, <1>7, <1>8, <1>9, <1>10, <1>11, EveryTradeCounts
<1>13. N = sale - 1
  <2>1. h \in Surjection(1..N, 1..(sale - 1)) /\ IsInjective(h)
    BY <1>8, <1>9, <1>12 DEF Surjection, IsInjective
  <2>2. h \in Injection(1..N, 1..(sale - 1))
    BY <2>1 DEF Surjection, Injection
  <2>3. N \in Int /\ sale - 1 \in Nat /\ 1 \in Int
    BY <1>2, <1>5
  <2>4. IsFiniteSet(1..N) /\ Cardinality(1..N) = IF 1 > N THEN 0 ELSE N - 1 + 1
    BY <2>3, FS_Interval
  <2>5. IsFiniteSet(1..(sale - 1)) /\ Cardinality(1..(sale - 1)) = IF 1 > sale - 1 THEN 0 ELSE (sale - 1) - 1 + 1
    BY <2>3, FS_Interval
  <2>6. Cardinality(1..N) = N /\ Cardinality(1..(sale - 1)) = sale - 1
    BY <1>5, <2>3, <2>4, <2>5
  <2> HIDE DEF h, N
  <2>7. Cardinality(1..(sale - 1)) <= Cardinality(1..N)
    BY <2>1, <2>4, FS_Surjection
  <2>8. Cardinality(1..N) <= Cardinality(1..(sale - 1))
    BY <2>2, <2>5, FS_Injection
  <2> QED BY <1>2, <1>5, <2>6, <2>7, <2>8
<1>14. h \in Sales!Histories
  <2>1. h \in [1..(sale - 1) -> 1..(sale - 1)]
    <3>1. \A k \in 1..N : h[k] \in 1..(sale - 1)
      <4> HIDE DEF h, N
      <4> QED BY <1>9, <1>12
    <3> QED BY <1>13, <3>1
  <2>2. h \in Sales!Injection(1..(sale - 1), 1..(sale - 1))
    <3> HIDE DEF h, N
    <3> QED BY <1>8, <1>13, <2>1 DEF Sales!Injection, Sales!IsInjective
  <2>3. ASSUME NEW i \in 1..(sale - 1), NEW j \in 1..(sale - 1), i < j
        PROVE  chainS[h[i]].time <= chainS[h[j]].time
    <3>1. i \in 1..sale /\ j \in 1..sale /\ h[i] = order[i] /\ h[j] = order[j]
      BY <1>2, <1>13
    <3>2. order[i] \in All /\ order[j] \in All /\ Sales!Before(order[i], order[j])
      BY <1>4, <2>3, <3>1
    <3> QED BY <1>0, <3>1, <3>2, TradesTyped DEF Sales!Before
  <2> HIDE DEF h, N
  <2> QED BY <2>2, <2>3 DEF Sales!Histories
<1> QED BY <1>1, <1>7, <1>10, <1>14

LEMMA SaleInit ==
  ASSUME RecordsAssumption, SessionAssumption, Sales!Init PROVE SaleInv
<1>1. chainS = <<>> /\ graduatedS = None /\ indexed = {} /\ sale = None
      /\ through = [v \in Sales!Venues |-> None] /\ shown = Sales!Pending /\ polls = 0
  BY DEF Sales!Init
<1>2. chainS \in Seq(Sales!SomeTrades) /\ DOMAIN chainS = {}
  BY <1>1
<1>3. SaleChain
  BY <1>2 DEF SaleChain
<1>4. DOMAIN through = Sales!Venues /\ \A v \in Sales!Venues : through[v] = None
  BY <1>1
<1>5. polls \in 0..MaxPolls /\ shown.status = "pending"
  BY <1>1 DEF Sales!Pending, Sales!Answer, RecordsAssumption
<1> QED BY <1>1, <1>3, <1>4, <1>5 DEF SaleInv, SaleState, Sales!ShownCostIsTrue

(* The truth of a cost depends on the trades and the sale alone.           *)
LEMMA TruthIsTheirs ==
  ASSUME UNCHANGED <<chainS, sale>>
  PROVE  /\ Sales!Held' = Sales!Held /\ Sales!Histories' = Sales!Histories
         /\ Sales!Ordered(chainS)' = Sales!Ordered(chainS)
         /\ \A h : Sales!CostOf(Sales!TradesOf(h), chainS[sale],
                                 Sales!Held + chainS[sale].amount)'
                    = Sales!CostOf(Sales!TradesOf(h), chainS[sale],
                                   Sales!Held + chainS[sale].amount)
<1>1. Sales!Held' = Sales!Held
  BY DEF Sales!Held
<1>2. Sales!Histories' = Sales!Histories
  BY DEF Sales!Histories
<1>3. Sales!Ordered(chainS)' = Sales!Ordered(chainS)
  BY DEF Sales!Ordered
<1>4. ASSUME NEW h
      PROVE  Sales!CostOf(Sales!TradesOf(h), chainS[sale], Sales!Held + chainS[sale].amount)'
               = Sales!CostOf(Sales!TradesOf(h), chainS[sale], Sales!Held + chainS[sale].amount)
  <2>1. Sales!TradesOf(h)' = Sales!TradesOf(h)
    BY DEF Sales!TradesOf
  <2> QED BY <1>1, <2>1
<1> QED BY <1>1, <1>2, <1>3, <1>4

(* A trade stays where it was made.                                        *)
LEMMA VenuesStay ==
  ASSUME RecordsAssumption, SessionAssumption, SaleState, chainS' = chainS,
         graduatedS' = graduatedS \/ (graduatedS = None /\ graduatedS' = Len(chainS)),
         NEW i \in DOMAIN chainS
  PROVE  Sales!Venue(i)' = Sales!Venue(i)
<1>1. CASE graduatedS' = graduatedS
  BY <1>1 DEF Sales!Venue
<1>2. CASE graduatedS = None /\ graduatedS' = Len(chainS)
  <2>1. i \in 1..Len(chainS) /\ Len(chainS) \in Nat
    BY TradesTyped DEF SaleState
  <2>2. ~ (i > Len(chainS))
    BY <2>1
  <2> QED BY <1>2, <2>2 DEF Sales!Venue
<1> QED BY <1>1, <1>2

(* What was shown stays true while the trades and the sale stay.           *)
LEMMA ShownStays ==
  ASSUME RecordsAssumption, SessionAssumption, SaleState,
         Sales!ShownCostIsTrue, UNCHANGED <<chainS, sale, shown>>,
         graduatedS' = graduatedS \/ (graduatedS = None /\ graduatedS' = Len(chainS))
  PROVE  Sales!ShownCostIsTrue'
<1>1. Sales!CurveCovered(shown.curve)' => Sales!CurveCovered(shown.curve)
  BY VenuesStay DEF Sales!CurveCovered
<1> QED BY <1>1, TruthIsTheirs DEF Sales!ShownCostIsTrue

LEMMA TradeKeeps ==
  ASSUME RecordsAssumption, SessionAssumption, SaleInv,
         NEW t \in Sales!SomeTrades, Sales!Trade(t)
  PROVE  SaleInv'
<1>1. /\ sale = None /\ chainS' = Append(chainS, t)
      /\ UNCHANGED <<graduatedS, indexed, through, sale, shown, polls>>
  BY DEF Sales!Trade
<1>2. SaleState /\ SaleChain /\ shown.status # "ready"
  BY <1>1 DEF SaleInv, SaleState
<1>3. chainS \in Seq(Sales!SomeTrades)
  BY <1>2 DEF SaleChain
<1> DEFINE n == Len(chainS) + 1
<1>4. /\ n \in Nat \ {0} /\ DOMAIN chainS = 1..(n - 1) /\ DOMAIN chainS' = 1..n
      /\ chainS' \in Seq(Sales!SomeTrades)
      /\ chainS'[n] = t /\ \A i \in 1..(n - 1) : chainS'[i] = chainS[i]
  BY <1>1, <1>3
<1>5. 1..n = (1..(n - 1)) \cup {n} /\ n \notin 1..(n - 1)
  BY <1>4
<1> HIDE DEF n
<1>6. \A i \in 1..n : chainS'[i].time \in Nat
  <2>1. \A i \in DOMAIN chainS' : chainS'[i] \in Sales!SomeTrades
    BY <1>4
  <2>2. \A u \in Sales!SomeTrades : u.time \in Nat
    <3>1. \A u \in Sales!SomeTrades : u.time \in 1..MaxSeconds
      BY DEF Sales!SomeTrades
    <3>2. 1..MaxSeconds \subseteq Nat
      BY DEF RecordsAssumption
    <3> QED BY <3>1, <3>2
  <2> QED BY <1>4, <2>1, <2>2
<1>7. \A i \in 1..(n - 1) : chainS[i].time <= t.time
  <2> SUFFICES ASSUME NEW i \in 1..(n - 1) PROVE chainS[i].time <= t.time
    OBVIOUS
  <2>1. chainS # <<>> /\ n - 1 \in DOMAIN chainS /\ i \in DOMAIN chainS /\ i <= n - 1
    BY <1>4
  <2>2. t.time >= chainS[n - 1].time
    BY <1>4, <2>1 DEF Sales!Trade, Sales!Now, n
  <2>3. chainS[i].time <= chainS[n - 1].time
    BY <1>2, <2>1 DEF SaleChain
  <2>4. chainS[i].time \in Nat /\ chainS[n - 1].time \in Nat /\ t.time \in Nat
    BY <1>4, <1>5, <1>6, <2>1
  <2> QED BY <2>2, <2>3, <2>4
<1>8. \A i, j \in 1..n : i <= j => chainS'[i].time <= chainS'[j].time
  <2> SUFFICES ASSUME NEW i \in 1..n, NEW j \in 1..n, i <= j
               PROVE  chainS'[i].time <= chainS'[j].time
    OBVIOUS
  <2>1. CASE j = n
    <3>1. chainS'[i].time \in Nat /\ chainS'[j] = t
      BY <1>4, <1>6, <2>1
    <3>2. i = n \/ i \in 1..(n - 1)
      BY <1>5
    <3> QED BY <1>4, <1>6, <1>7, <2>1, <3>1, <3>2
  <2>2. CASE j # n
    <3>1. j \in 1..(n - 1) /\ i \in 1..(n - 1)
      BY <1>4, <1>5, <2>2
    <3> QED BY <1>2, <1>4, <3>1 DEF SaleChain
  <2> QED BY <2>1, <2>2
<1>9. \A i, j \in 1..n : chainS'[i].signature = chainS'[j].signature => i = j
  <2>1. \A i \in 1..(n - 1) : chainS[i].signature # t.signature
    BY <1>4 DEF Sales!Trade
  <2>2. \A i, j \in 1..(n - 1) : chainS[i].signature = chainS[j].signature => i = j
    BY <1>2, <1>4 DEF SaleChain
  <2> QED BY <1>4, <1>5, <2>1, <2>2
<1>10. SaleChain'
  BY <1>4, <1>8, <1>9 DEF SaleChain
<1>11. indexed' \in SUBSET DOMAIN chainS'
  BY <1>1, <1>2, <1>4, <1>5 DEF SaleState
<1>12. ASSUME NEW v \in Sales!Venues, through[v] # None
       PROVE  /\ through[v] \in Nat
              /\ \A i \in DOMAIN chainS' :
                   Sales!Venue(i)' = v /\ chainS'[i].time <= through[v] => i \in indexed
  <2>1. t.time > through[v] /\ through[v] \in Nat
    BY <1>2, <1>12 DEF Sales!Trade, SaleState
  <2>2. \A i \in DOMAIN chainS :
          Sales!Venue(i) = v /\ chainS[i].time <= through[v] => i \in indexed
    BY <1>2, <1>12 DEF SaleState
  <2>3. ~ (t.time <= through[v])
    <3>1. t.time \in Nat
      BY <1>4, <1>5, <1>6
    <3> QED BY <2>1, <3>1
  <2>4. \A i : Sales!Venue(i)' = Sales!Venue(i)
    BY <1>1 DEF Sales!Venue
  <2> QED BY <1>4, <1>5, <2>1, <2>2, <2>3, <2>4
<1>13. graduatedS' \in {None} \cup 0..Len(chainS')
  <2>1. graduatedS \in {None} \cup 0..(n - 1) /\ Len(chainS') = n
    BY <1>1, <1>2, <1>3 DEF SaleState, n
  <2> QED BY <1>1, <1>4, <2>1
<1>14. SaleState'
  BY <1>1, <1>2, <1>10, <1>11, <1>12, <1>13 DEF SaleState
<1> QED BY <1>1, <1>2, <1>14 DEF SaleInv, Sales!ShownCostIsTrue

LEMMA SaleStep ==
  ASSUME RecordsAssumption, SessionAssumption, SaleInv,
         Sales!Next \/ UNCHANGED saleVars
  PROVE  SaleInv'
<1>0. SaleState /\ SaleChain
  BY DEF SaleInv, SaleState
<1>1. ASSUME UNCHANGED saleVars PROVE SaleInv'
  <2>1. /\ chainS' = chainS /\ graduatedS' = graduatedS /\ indexed' = indexed
        /\ through' = through /\ sale' = sale /\ shown' = shown /\ polls' = polls
    BY <1>1 DEF saleVars
  <2>2. Sales!ShownCostIsTrue'
    BY <1>0, <2>1, ShownStays DEF SaleInv
  <2>3. SaleState'
    BY <1>0, <2>1, VenuesStay DEF SaleState, SaleChain
  <2> QED BY <2>1, <2>2, <2>3 DEF SaleInv
<1>2. ASSUME NEW t \in Sales!SomeTrades, Sales!Trade(t) PROVE SaleInv'
  BY <1>2, TradeKeeps
<1>3. ASSUME Sales!Share PROVE SaleInv'
  <2>1. /\ sale = None /\ sale' = Len(chainS) /\ chainS # <<>>
        /\ chainS[Len(chainS)].side = "sell"
        /\ chainS' = chainS /\ graduatedS' = graduatedS /\ indexed' = indexed
        /\ through' = through /\ shown' = shown /\ polls' = polls
    BY <1>3 DEF Sales!Share
  <2>2. shown.status # "ready"
    BY <2>1 DEF SaleInv
  <2>3. SaleState'
    BY <1>0, <2>1, VenuesStay DEF SaleState, SaleChain
  <2> QED BY <2>1, <2>2, <2>3 DEF SaleInv, Sales!ShownCostIsTrue
<1>4. ASSUME Sales!Graduate PROVE SaleInv'
  <2>1. /\ graduatedS = None /\ graduatedS' = Len(chainS)
        /\ chainS' = chainS /\ indexed' = indexed /\ through' = through
        /\ sale' = sale /\ shown' = shown /\ polls' = polls
    BY <1>4 DEF Sales!Graduate
  <2>2. Len(chainS) \in 0..Len(chainS)
    BY <1>0, TradesTyped
  <2>3. SaleState'
    BY <1>0, <2>1, <2>2, VenuesStay DEF SaleState, SaleChain
  <2>4. Sales!ShownCostIsTrue'
    BY <1>0, <2>1, ShownStays DEF SaleInv
  <2> QED BY <2>1, <2>3, <2>4 DEF SaleInv
<1>5. ASSUME Sales!Poll PROVE SaleInv'
  <2>1. /\ sale # None /\ polls < MaxPolls /\ shown' = Sales!Result /\ polls' = polls + 1
        /\ chainS' = chainS /\ graduatedS' = graduatedS /\ indexed' = indexed
        /\ through' = through /\ sale' = sale
    BY <1>5 DEF Sales!Poll
  <2>2. polls' \in 0..MaxPolls
    BY <1>0, <2>1 DEF SaleState, RecordsAssumption
  <2>3. Sales!Result.status \in {"pending", "unavailable", "ready"}
        /\ Sales!Result.curve = CurveNow
    BY DEF Sales!Result, Sales!Pending, Sales!Answer, CurveNow
  <2>4. SaleState'
    BY <1>0, <2>1, <2>2, <2>3, VenuesStay DEF SaleState, SaleChain
  <2>5. ASSUME shown'.status = "ready", Sales!CurveCovered(shown.curve)'
        PROVE  /\ Sales!Ordered(chainS)
               /\ \E h \in Sales!Histories :
                    shown'.cost
                      = Sales!CostOf(Sales!TradesOf(h), chainS[sale], Sales!Held + chainS[sale].amount)
    <3>1. Sales!Result.status = "ready"
      BY <2>1, <2>5
    <3>2. Sales!CurveCovered(CurveNow)
      BY <1>0, <2>1, <2>3, <2>5, VenuesStay DEF Sales!CurveCovered
    <3> QED BY <1>0, <2>1, <3>1, <3>2, ReadyIsTrue
  <2>6. Sales!ShownCostIsTrue'
    BY <2>1, <2>5, TruthIsTheirs DEF Sales!ShownCostIsTrue
  <2> QED BY <2>1, <2>4, <2>6 DEF SaleInv
<1>6. ASSUME NEW i \in 1..MaxTrades, Sales!Sweep(i) PROVE SaleInv'
  <2>1. /\ i \in DOMAIN chainS /\ indexed' = indexed \cup {i}
        /\ chainS' = chainS /\ graduatedS' = graduatedS
        /\ through' = through /\ sale' = sale /\ shown' = shown /\ polls' = polls
    BY <1>6 DEF Sales!Sweep
  <2>2. Sales!ShownCostIsTrue'
    BY <1>0, <2>1, ShownStays DEF SaleInv
  <2>3. SaleState'
    BY <1>0, <2>1, VenuesStay DEF SaleState, SaleChain
  <2> QED BY <2>1, <2>2, <2>3 DEF SaleInv
<1>7. ASSUME NEW v \in Sales!Venues, Sales!Scan(v) PROVE SaleInv'
  <2>2. /\ indexed' = indexed \cup {i \in DOMAIN chainS : Sales!Venue(i) = v}
        /\ through' = [through EXCEPT ![v] = Sales!Now]
        /\ chainS' = chainS /\ graduatedS' = graduatedS
        /\ sale' = sale /\ shown' = shown /\ polls' = polls
    BY <1>7 DEF Sales!Scan
  <2>4. Sales!Now \in Nat
    <3>1. CASE chainS = <<>>
      BY <3>1 DEF Sales!Now
    <3>2. CASE chainS # <<>>
      <4>1. chainS \in Seq(Sales!SomeTrades)
        BY <1>0 DEF SaleChain
      <4>2. Len(chainS) \in DOMAIN chainS
        BY <3>2, <4>1
      <4> QED BY <1>0, <3>2, <4>2, TradesTyped DEF Sales!Now
    <3> QED BY <3>1, <3>2
  <2>5. DOMAIN through' = Sales!Venues /\ through'[v] = Sales!Now
        /\ \A u \in Sales!Venues : u # v => through'[u] = through[u]
    BY <1>0, <2>2 DEF SaleState
  <2>6. Sales!ShownCostIsTrue'
    BY <1>0, <2>2, ShownStays DEF SaleInv
  <2>8. \A i \in DOMAIN chainS : Sales!Venue(i)' = Sales!Venue(i)
    BY <1>0, <2>2, VenuesStay
  <2>9. ASSUME NEW u \in Sales!Venues, through'[u] # None
        PROVE  /\ through'[u] \in Nat
               /\ \A i \in DOMAIN chainS :
                    Sales!Venue(i)' = u /\ chainS[i].time <= through'[u] => i \in indexed'
    <3>1. CASE u = v
      BY <2>2, <2>4, <2>5, <2>8, <3>1
    <3>2. CASE u # v
      <4>1. through[u] # None /\ through'[u] = through[u]
        BY <2>5, <2>9, <3>2
      <4> QED BY <1>0, <2>2, <2>8, <4>1 DEF SaleState
    <3> QED BY <3>1, <3>2
  <2>10. SaleState'
    BY <1>0, <2>2, <2>5, <2>9 DEF SaleState, SaleChain
  <2> QED BY <2>2, <2>6, <2>10 DEF SaleInv
<1> QED BY <1>1, <1>2, <1>3, <1>4, <1>5, <1>6, <1>7 DEF Sales!Next

(* The records of sales are typed, and what one shows is true.             *)
LEMMA SalesSafe ==
  ASSUME RecordsAssumption, SessionAssumption, SaleInv
  PROVE  Sales!TypeOK /\ Sales!ShownCostIsTrue
<1>1. sale \in {None} \cup DOMAIN chainS
  <2> SUFFICES ASSUME sale # None PROVE sale \in DOMAIN chainS
    OBVIOUS
  <2>1. chainS \in Seq(Sales!SomeTrades) /\ chainS # <<>> /\ sale = Len(chainS)
    BY DEF SaleInv, SaleState, SaleChain
  <2> QED BY <2>1
<1> QED BY <1>1 DEF SaleInv, SaleState, Sales!TypeOK

(* --------------------------------- records ----------------------------- *)

(* A comment stands by a finalized purchase of its author (comments.ts),   *)
(* and the cost shown for a sale is the average cost of all the trades     *)
(* before it, in an order the chain allows, of a graduated pool where its  *)
(* curve was covered when the cost was computed (sale-share.ts).           *)
THEOREM RecordsAreKept == MCServicesSpec => []RecordsAreTrue
<1> DEFINE I == /\ part = "comments" => CommentsInv
                /\ part = "sales" => SaleInv
<1>1. MCServicesInit => I
  BY CommentsInit, SaleInit, RecordsAssumption, SessionAssumption DEF MCServicesInit
<1>2. I /\ [MCServicesNext]_<<part, historyVars, sessionVars, limitVars, rotationVars,
                              commentVars, saleVars>> => I'
  <2> SUFFICES ASSUME I, [MCServicesNext]_<<part, historyVars, sessionVars, limitVars,
                                            rotationVars, commentVars, saleVars>>
               PROVE  I'
    OBVIOUS
  <2>1. part' = part
    BY DEF MCServicesNext
  <2>2. CASE part = "comments"
    <3>1. CommentsInv /\ [Comments!Next]_commentVars
      BY <2>2 DEF MCServicesNext
    <3> QED BY <2>1, <2>2, <3>1, CommentsStep, RecordsAssumption
  <2>3. CASE part = "sales"
    <3>1. SaleInv /\ (Sales!Next \/ UNCHANGED saleVars)
      BY <2>3 DEF MCServicesNext
    <3> QED BY <2>1, <2>3, <3>1, SaleStep, RecordsAssumption, SessionAssumption
  <2> QED BY <2>1, <2>2, <2>3
<1>3. I => RecordsAreTrue
  BY CommentsSafe, SalesSafe, RecordsAssumption, SessionAssumption DEF RecordsAreTrue
<1>. QED  BY <1>1, <1>2, <1>3, PTL DEF MCServicesSpec
=============================================================================
