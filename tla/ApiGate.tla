------------------------------ MODULE ApiGate ------------------------------
(* The two routes every request of the API goes through, on several server *)
(* instances: which answers are public and cached, and the stages a        *)
(* handler goes through before it does its work: the origin, the traffic   *)
(* limits that the instances share in Redis, the session.  Requests        *)
(* overlap, time passes between two stages, and Redis may be down.         *)
EXTENDS Integers, Sequences, FiniteSets

CONSTANTS Instances, Wallets, Visitors, None,
          Possible,               \* the requests that may arrive
          Maximum, Window,        \* requests allowed per window, its length
          Kept,                   \* how long the shared cache keeps an answer
          MaxNow, MaxRequests, MaxOutages     \* bounds

VARIABLES now, redisUp, outages,
          limits,      \* Redis: the count under a key and when it expires
          blocked,     \* each instance's map of denials, until when
          cache,       \* the shared public cache
          requests,    \* what is being handled
          reply,       \* the last answer
          granted,     \* when the limit let a request under a key through
          arrived

vars == <<now, redisUp, outages, limits, blocked, cache, requests, reply,
          granted, arrived>>

(* ----------------------------- the handlers ---------------------------- *)

Origin == [kind |-> "origin", name |-> "origin"]
Session == [kind |-> "session", name |-> "session"]
Secret == [kind |-> "secret", name |-> "cron"]
Body == [kind |-> "body", name |-> "body"]
LimitOf(name) == [kind |-> "limit", name |-> name]

(* What a handler requires, in the order of the code.  GET of the          *)
(* launchpad route: most reads are open; two shares of work are limited.   *)
OpenReads == {"tokens", "token", "candles", "config", "trade-assets",
              "leaderboard", "office", "office-fees", "comments", "health",
              "setup", "profile", "session", "ticker", "metadata", "image"}
ReadStages(action) ==
  IF action \in {"sale-share", "trade-preview"} THEN <<LimitOf(action)>> ELSE <<>>

WalletReads == {"intent", "portfolio"}
OwnStages == <<Session>>
CronStages == <<Secret>>

(* POST: the origin and the visitor's limit, then a session for all but    *)
(* the three that open or close one; an image has a limit of its own.      *)
SessionPosts == {"challenge", "verify", "logout"}
WalletPosts == {"link-x", "buyer", "comment", "comment-delete", "setup-pool",
                "continue-launch", "launch", "trade", "claim", "migrate",
                "review-wallet-fee", "submit"}
WriteStages(action) ==
  LET open == <<Origin, LimitOf("request"), Body>>
      owned == <<Origin, LimitOf("request"), Body, Session>>
      image == <<Origin, LimitOf("request"), Body, Session, LimitOf("image")>>
  IN IF action \in SessionPosts THEN open
     ELSE IF action = "post-image" THEN image ELSE owned

(* The creator fee route limits a write by its wallet, after the session.  *)
FeeReadStages(action) ==
  CASE action = "fees-status" -> <<LimitOf("fees-status")>>
    [] action = "fees-me" -> <<LimitOf("fees-read"), Session>>
    [] OTHER -> <<LimitOf("fees-read")>>
FeeReads == {"fees-status", "fees-me", "fees-leaderboard", "fees-profiles",
             "fees-recipients"}
FeeWrites == {"fees-bind", "fees-challenges", "fees-verify", "fees-collect",
              "fees-claim", "fees-reconcile"}
FeeWriteStages == <<Origin, Session, LimitOf("fees-write"), Body>>

Stages(action) ==
  CASE action \in WalletReads -> OwnStages
    [] action = "cron" -> CronStages
    [] action \in SessionPosts \cup WalletPosts \cup {"post-image"} ->
         WriteStages(action)
    [] action \in FeeReads -> FeeReadStages(action)
    [] action \in FeeWrites -> FeeWriteStages
    [] OTHER -> ReadStages(action)

(* Whose a count is: the wallet of the session, or the visitor's address.  *)
Subject(r, name) ==
  IF name \in {"image", "fees-write"} THEN r.session ELSE r.visitor

(* publicPolicy: the allowlist.  Balances of a wallet are not public; a    *)
(* wallet is an unexpected parameter of every other public answer.         *)
PublicActions == {"tokens", "token", "candles", "config", "trade-assets",
                  "leaderboard", "office"}
Policy(r) ==
  IF r.action \notin PublicActions THEN "private"
  ELSE IF r.wallet = None THEN "public"
  ELSE IF r.action = "trade-assets" THEN "private" ELSE "refused"

(* Behind the cache only origin work is limited.                           *)
StagesOf(r) == IF Policy(r) = "public" THEN <<LimitOf("public-read")>> \o Stages(r.action)
               ELSE Stages(r.action)

LimitNames ==
  {"public-read"} \cup
    UNION {{s[i].name : i \in {j \in DOMAIN s : s[j].kind = "limit"}} :
             s \in {Stages(q.action) : q \in Possible}}
LimitKeys == LimitNames \X (Wallets \cup Visitors)

Init ==
  /\ now = 0 /\ redisUp = TRUE /\ outages = 0
  /\ limits = [k \in LimitKeys |-> [count |-> 0, ends |-> 0]]
  /\ blocked = [i \in Instances |-> [k \in {} |-> 0]]
  /\ cache = [a \in PublicActions |-> None]
  /\ requests = {} /\ reply = None /\ granted = [k \in LimitKeys |-> <<>>]
  /\ arrived = 0

Finish(r, status, about) ==
  /\ requests' = requests \ {r}
  /\ reply' = [status |-> status, about |-> about, mine |-> {r.session, r.wallet}]

Proceed(r) == requests' = (requests \ {r}) \cup {[r EXCEPT !.stage = @ + 1]}

At(r, kind) ==
  /\ r.stage \in 1..Len(StagesOf(r)) /\ StagesOf(r)[r.stage].kind = kind

(* ----------------------------- the outside ----------------------------- *)

Tick ==
  /\ now < MaxNow /\ now' = now + 1
  /\ UNCHANGED <<redisUp, outages, limits, blocked, cache, requests, reply,
                 granted, arrived>>

Outage ==
  /\ outages < 2 * MaxOutages /\ outages' = outages + 1 /\ redisUp' = ~redisUp
  /\ UNCHANGED <<now, limits, blocked, cache, requests, reply, granted, arrived>>

(* A request, and the public answer the cache already has for it: then no  *)
(* origin work is done.                                                    *)
Hit(r) == /\ Policy(r) = "public" /\ cache[r.action] # None
          /\ now < cache[r.action].stored + Kept

Arrive(request) ==
  LET asked == [id |-> arrived + 1, stage |-> 1, action |-> request.action,
                wallet |-> request.wallet, session |-> request.session,
                visitor |-> request.visitor, instance |-> request.instance,
                sameOrigin |-> request.sameOrigin]
  IN
  /\ arrived < MaxRequests /\ arrived' = arrived + 1
  /\ CASE Policy(asked) = "refused" ->
            Finish(asked, 400, None)
       [] Hit(asked) -> Finish(asked, 200, cache[asked.action].about)
       [] OTHER -> requests' = requests \cup {asked} /\ UNCHANGED reply
  /\ UNCHANGED <<now, redisUp, outages, limits, blocked, cache, granted>>

(* ------------------------------ the stages ----------------------------- *)

CheckOrigin(r) ==
  /\ At(r, "origin")
  /\ IF r.sameOrigin THEN Proceed(r) /\ UNCHANGED reply
     ELSE Finish(r, 403, None)
  /\ UNCHANGED <<now, redisUp, outages, limits, blocked, cache, granted, arrived>>

RequireWallet(r) ==
  /\ At(r, "session")
  /\ IF r.session # None THEN Proceed(r) /\ UNCHANGED reply
     ELSE Finish(r, 401, None)
  /\ UNCHANGED <<now, redisUp, outages, limits, blocked, cache, granted, arrived>>

(* A body that is too long, or is no JSON object, is refused.               *)
ReadBody(r) ==
  /\ At(r, "body")
  /\ \/ Proceed(r) /\ UNCHANGED reply
     \/ Finish(r, 400, None)
  /\ UNCHANGED <<now, redisUp, outages, limits, blocked, cache, granted, arrived>>

(* The secret of the scheduler is no browser's.                            *)
CheckSecret(r) ==
  /\ At(r, "secret") /\ Finish(r, 401, None)
  /\ UNCHANGED <<now, redisUp, outages, limits, blocked, cache, granted, arrived>>

(* rateLimit.  A denial is remembered by the instance for what is left of  *)
(* the window; counting and expiry are one script in Redis, and while it   *)
(* is down nobody gets through.                                            *)
Denied(i, k) == k \in DOMAIN blocked[i] /\ blocked[i][k] > now

Counted(k) == IF limits[k].ends <= now
              THEN [count |-> 1, ends |-> now + Window]
              ELSE [limits[k] EXCEPT !.count = @ + 1]

WholeWindow(k) == now + Window
Left(k) == Counted(k).ends

Remember(i, k) == [x \in DOMAIN blocked[i] \cup {k} |->
                     IF x = k THEN Left(k) ELSE blocked[i][x]]

(* The map of denials is bounded, and a new instance starts without one.   *)
Forget(i, k) ==
  /\ blocked' = [blocked EXCEPT ![i] = [x \in DOMAIN @ \ {k} |-> @[x]]]
  /\ UNCHANGED <<now, redisUp, outages, limits, cache, requests, reply, granted,
                 arrived>>

WhileDown == 503

Verdict(r, k) ==
  IF Denied(r.instance, k) THEN 429
  ELSE IF ~redisUp THEN WhileDown
  ELSE IF Counted(k).count > Maximum THEN 429 ELSE 200

RateLimit(r) ==
  LET name == StagesOf(r)[r.stage].name
      k == <<name, Subject(r, name)>>
      counts == ~Denied(r.instance, k) /\ redisUp
  IN
  /\ At(r, "limit")
  /\ limits' = IF counts THEN [limits EXCEPT ![k] = Counted(k)] ELSE limits
  /\ IF Verdict(r, k) = 200
     THEN Proceed(r) /\ UNCHANGED reply /\ granted' = [granted EXCEPT ![k] = Append(@, now)]
     ELSE Finish(r, Verdict(r, k), None) /\ UNCHANGED granted
  /\ blocked' = IF counts /\ Verdict(r, k) = 429
                THEN [blocked EXCEPT ![r.instance] = Remember(r.instance, k)]
                ELSE blocked
  /\ UNCHANGED <<now, redisUp, outages, cache, arrived>>

(* The answer of Redis comes too late: the request is counted and refused. *)
CountLost(r) ==
  /\ At(r, "limit") /\ redisUp /\ outages < 2 * MaxOutages
  /\ LET name == StagesOf(r)[r.stage].name
         k == <<name, Subject(r, name)>>
     IN ~Denied(r.instance, k) /\ limits' = [limits EXCEPT ![k] = Counted(k)]
  /\ Finish(r, WhileDown, None) /\ outages' = outages + 1
  /\ UNCHANGED <<now, redisUp, blocked, cache, granted, arrived>>

(* ------------------------------- the work ------------------------------ *)

(* Whom an answer is about: balances of the wallet asked for, or the       *)
(* session's.  Public work is stored for everybody.                        *)
About(r) ==
  IF r.action = "trade-assets" THEN r.wallet
  ELSE IF r.action \in OpenReads \ {"profile", "session"} THEN None ELSE r.session

Handle(r) ==
  /\ r.stage = Len(StagesOf(r)) + 1
  /\ Finish(r, 200, About(r))
  /\ cache' = IF Policy(r) = "public"
              THEN [cache EXCEPT ![r.action] = [about |-> About(r), stored |-> now]]
              ELSE cache
  /\ UNCHANGED <<now, redisUp, outages, limits, blocked, granted, arrived>>

(* A failing handler answers with an error, and no error is cached.        *)
Failed(r) ==
  /\ r.stage = Len(StagesOf(r)) + 1 /\ Finish(r, 503, None)
  /\ UNCHANGED <<now, redisUp, outages, limits, blocked, cache, granted, arrived>>

Next ==
  \/ Tick \/ Outage
  \/ \E i \in Instances : \E k \in DOMAIN blocked[i] : Forget(i, k)
  \/ \E request \in Possible : Arrive(request)
  \/ \E r \in requests : \/ CheckOrigin(r) \/ RequireWallet(r) \/ CheckSecret(r)
                         \/ ReadBody(r) \/ RateLimit(r) \/ CountLost(r)
                         \/ Handle(r) \/ Failed(r)

Spec == Init /\ [][Next]_vars

(* ------------------------------ properties ----------------------------- *)

TypeOK ==
  /\ now \in 0..MaxNow /\ arrived \in 0..MaxRequests /\ outages \in 0..(2 * MaxOutages)
  /\ \A k \in LimitKeys : limits[k].count \in Nat
  /\ \A i \in Instances : DOMAIN blocked[i] \subseteq LimitKeys
  /\ reply # None => reply.status \in {200, 400, 401, 403, 429, 503}

(* What others can read is about nobody, and what is about a wallet goes   *)
(* to the request whose session or parameter it is: the wallet read never  *)
(* enters the public cache under the key of the open one.                  *)
PublicIsNobodys ==
  /\ \A a \in PublicActions : cache[a] # None => cache[a].about = None
  /\ reply # None => reply.about \in {None} \cup reply.mine

(* Under one key at most Maximum requests get through per fixed window, on *)
(* all instances together, across evicted denials and Redis outages: a     *)
(* stretch of one window's length touches two windows at most.             *)
LimitHolds ==
  \A k \in LimitKeys, t \in 0..MaxNow :
    Cardinality({i \in DOMAIN granted[k] : granted[k][i] \in t..(t + Window - 1)})
      <= 2 * Maximum

(* An instance's memory of a denial never outlives the shared window that  *)
(* caused it: nobody is refused for longer than the limit says.            *)
DenialEndsWithWindow ==
  \A i \in Instances : \A k \in DOMAIN blocked[i] :
    blocked[i][k] > now => limits[k].ends >= blocked[i][k]
=============================================================================
