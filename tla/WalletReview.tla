---------------------------- MODULE WalletReview ----------------------------
(* One page of the app: the transaction review every panel hands its       *)
(* intents to (provider.tsx), with the wallet prompt, the submit call, the *)
(* status polls, the id kept in sessionStorage, and a reload or a change   *)
(* of the connected address at any moment.                                 *)
(* A call and its answer are separate steps, answers come in any order, and*)
(* with LostReplies the answer of a submit may be lost while the request   *)
(* itself is still on its way to the server.                               *)
EXTENDS Naturals, FiniteSets

CONSTANTS Intents,
          Trades, Conversions, Setups,      \* intents of these kinds
          None, LostReplies,
          MaxPolls, MaxAttempts, MaxReloads      \* bounds

VARIABLES server,             \* the status of each intent in the database
          page,               \* what the page shows and does
          storage,            \* sessionStorage: the intent to resume
          calls,              \* GET intent/:id under way, with its answer
          submitted,          \* the submit call under way, with its answer
          late,               \* submits whose caller has given up
          counted, notified,  \* transactionRevision by intent; notified
          attempts,
          reloads             \* of the page, or changes of its address

vars == <<server, page, storage, calls, submitted, late, counted, notified,
          attempts, reloads>>
network == <<calls, submitted, late>>

Terminal == {"confirmed", "failed", "expired"}
Blank == [shown |-> None, status |-> "none", direct |-> FALSE,
          error |-> FALSE, signing |-> "no", current |-> None]

Init ==
  /\ server = [i \in Intents |-> "none"] /\ page = Blank /\ storage = None
  /\ calls = {} /\ submitted = None /\ late = {}
  /\ counted = [i \in Intents |-> 0] /\ notified = {}
  /\ attempts = 0 /\ reloads = 0

Busy == page.signing # "no"
(* The trade panels are locked while a trade waits.                        *)
TradePending == page.shown \in Trades /\ page.status \in {"prepared", "submitted"}

(* ------------------------------- rendering ----------------------------- *)

NeverSeen(i) == FALSE
Seen(i) == i \in notified

(* A confirmed conversion stays, because the launch it pays for follows.   *)
Continues(i, status) == i \in Conversions /\ status = "confirmed"

(* The page commits p; the effect on `intent` then counts a confirmed one, *)
(* forgets its id and closes the review.  `kept` is what storage becomes   *)
(* otherwise.                                                              *)
Commit(p, kept) ==
  IF /\ p.shown # None /\ p.status = "confirmed"
     /\ ~Continues(p.shown, p.status) /\ ~Seen(p.shown)
  THEN /\ page' = [p EXCEPT !.shown = None, !.status = "none", !.error = FALSE]
       /\ storage' = None
       /\ counted' = [counted EXCEPT ![p.shown] = @ + 1]
       /\ notified' = notified \cup {p.shown}
  ELSE /\ page' = p /\ storage' = kept /\ UNCHANGED <<counted, notified>>

(* -------------------------- opening and closing ------------------------ *)

StartSigning(p, i) ==
  [p EXCEPT !.signing = "authenticating", !.current = i, !.error = FALSE]

(* A panel got a new intent, the wallet page an old one, or a confirmed    *)
(* conversion its launch, for review.                                      *)
Review(i) ==
  /\ page.shown = None \/ page.direct \/ (Continues(page.shown, page.status) /\ ~Busy)
  /\ server' = IF server[i] = "none" THEN [server EXCEPT ![i] = "prepared"]
               ELSE server
  /\ Commit([page EXCEPT !.shown = i, !.status = server'[i], !.direct = FALSE,
                         !.error = FALSE], i)
  /\ UNCHANGED <<network, attempts, reloads>>

(* A trade goes straight to the wallet.                                    *)
ExecuteTrade(i) ==
  /\ i \in Trades /\ server[i] = "none" /\ ~TradePending /\ ~Busy
  /\ page.shown = None \/ page.direct
  /\ attempts < MaxAttempts /\ attempts' = attempts + 1
  /\ server' = [server EXCEPT ![i] = "prepared"]
  /\ page' = StartSigning([page EXCEPT !.shown = i, !.status = "prepared",
                                       !.direct = TRUE], i)
  /\ storage' = i
  /\ UNCHANGED <<network, counted, notified, reloads>>

(* "Approve in wallet" in the dialog, "Retry approval" in the toast, and   *)
(* "Refresh and approve" for a setup that expired.                         *)
Approve ==
  /\ page.shown # None /\ ~Busy
  /\ page.status = "prepared" \/ (page.status = "expired" /\ page.shown \in Setups)
  /\ page.direct => page.error
  /\ attempts < MaxAttempts /\ attempts' = attempts + 1
  /\ page' = StartSigning(page, page.shown)
  /\ UNCHANGED <<server, storage, network, counted, notified, reloads>>

Close ==
  /\ page.shown # None /\ ~Busy
  /\ page.direct => page.status \in {"failed", "expired", "approval-failed"}
  /\ page' = [page EXCEPT !.shown = None, !.status = "none"]
  /\ UNCHANGED <<server, storage, network, counted, notified, attempts, reloads>>

(* -------------------------------- signing ------------------------------ *)

(* Ambiguous outcomes stay "submitted", so that polls can recover them.    *)
TradeSubmissionFailure(submissionAttempted, rejected) ==
  IF submissionAttempted /\ ~rejected THEN "submitted" ELSE "approval-failed"

SignFails(submissionAttempted, rejected) ==
  LET i == page.current
      status == TradeSubmissionFailure(submissionAttempted, rejected)
      ended == [page EXCEPT !.signing = "no", !.current = None, !.error = TRUE]
  IN IF i \in Trades
     THEN Commit([ended EXCEPT !.shown = i, !.status = status],
                 IF status = "submitted" THEN storage ELSE None)
     ELSE Commit(ended, storage)

Authenticate ==
  /\ page.signing = "authenticating"
  /\ \/ page' = [page EXCEPT !.signing = IF page.current \in Setups THEN "rebuilding"
                                        ELSE "wallet"]
        /\ UNCHANGED <<storage, counted, notified>>
     \/ SignFails(FALSE, FALSE)
  /\ UNCHANGED <<server, network, attempts, reloads>>

(* Before the wallet opens the server is asked for the latest setup: the   *)
(* one under review, another, or a new one; what is not prepared any more  *)
(* is shown and not signed.                                                *)
Rebuild ==
  /\ page.signing = "rebuilding"
  /\ \/ SignFails(FALSE, FALSE) /\ UNCHANGED server
     \/ \E i \in Setups :
          /\ server' = IF server[i] = "none" THEN [server EXCEPT ![i] = "prepared"] ELSE server
          /\ LET rebuilt == [page EXCEPT !.shown = i, !.status = server'[i]]
             IN Commit(IF server'[i] = "prepared"
                       THEN [rebuilt EXCEPT !.signing = "wallet", !.current = i]
                       ELSE [rebuilt EXCEPT !.signing = "no", !.current = None], i)
  /\ UNCHANGED <<network, attempts, reloads>>

Sign ==
  /\ page.signing = "wallet"
  /\ page' = [page EXCEPT !.signing = "submitting"]
  /\ submitted' = [intent |-> page.current, answer |-> None]
  /\ UNCHANGED <<server, storage, calls, late, counted, notified, attempts, reloads>>

Decline ==
  /\ page.signing = "wallet" /\ SignFails(FALSE, FALSE)
  /\ UNCHANGED <<server, network, attempts, reloads>>

(* The wallet edited a fee: the revised wire is reviewed again.            *)
ReviewWalletFee ==
  /\ page.signing = "wallet" /\ page.current \notin Trades
  /\ IF server[page.current] = "prepared"
     THEN Commit([page EXCEPT !.shown = page.current, !.status = "prepared",
                    !.error = TRUE, !.signing = "no", !.current = None], storage)
     ELSE SignFails(FALSE, FALSE)
  /\ UNCHANGED <<server, network, attempts, reloads>>

(* submit: a prepared intent is persisted or refused, any other one only   *)
(* reported.                                                               *)
Served(i, answer) ==
  IF server[i] = "prepared"
  THEN \/ answer = "submitted" /\ server' = [server EXCEPT ![i] = "submitted"]
       \/ answer = "rejected" /\ UNCHANGED server
  ELSE answer = server[i] /\ UNCHANGED server

ServeSubmit ==
  /\ submitted # None /\ submitted.answer = None
  /\ \E answer \in Terminal \cup {"submitted", "rejected"} :
       Served(submitted.intent, answer)
       /\ submitted' = [submitted EXCEPT !.answer = answer]
  /\ UNCHANGED <<page, storage, calls, late, counted, notified, attempts, reloads>>

SubmitAnswers ==
  /\ submitted # None /\ submitted.answer # None
  /\ IF submitted.answer = "rejected" THEN SignFails(TRUE, TRUE)
     ELSE Commit([page EXCEPT !.shown = page.current,
                    !.status = submitted.answer,
                    !.signing = "no", !.current = None], storage)
  /\ submitted' = None
  /\ UNCHANGED <<server, calls, late, attempts, reloads>>

SubmitLost ==
  /\ LostReplies /\ submitted # None
  /\ SignFails(TRUE, FALSE)
  /\ late' = IF submitted.answer = None THEN late \cup {submitted.intent} ELSE late
  /\ submitted' = None
  /\ UNCHANGED <<server, calls, attempts, reloads>>

ServeLate(i) ==
  /\ i \in late /\ late' = late \ {i}
  /\ \E answer \in Terminal \cup {"submitted", "rejected"} : Served(i, answer)
  /\ UNCHANGED <<page, storage, calls, submitted, counted, notified, attempts, reloads>>

(* -------------------------- polling and resuming ----------------------- *)

Poll ==
  /\ page.shown # None /\ page.status = "submitted"
  /\ Cardinality(calls) < MaxPolls
  /\ calls' = calls \cup {[intent |-> page.shown, resume |-> FALSE, answer |-> None]}
  /\ UNCHANGED <<server, page, storage, submitted, late, counted, notified,
                 attempts, reloads>>

Serve(c) ==
  /\ c \in calls /\ c.answer = None
  /\ calls' = (calls \ {c}) \cup {[c EXCEPT !.answer = server[c.intent]]}
  /\ UNCHANGED <<server, page, storage, submitted, late, counted, notified,
                 attempts, reloads>>

Merges(c) == page.shown = c.intent

PollAnswers(c) ==
  /\ c \in calls /\ ~c.resume /\ c.answer # None
  /\ Commit(IF Merges(c) THEN [page EXCEPT !.status = c.answer] ELSE page,
            IF c.answer \in Terminal /\ ~Continues(c.intent, c.answer) THEN None ELSE storage)
  /\ calls' = calls \ {c}
  /\ UNCHANGED <<server, submitted, late, attempts, reloads>>

PollFails(c) ==
  /\ c \in calls /\ c.answer = None /\ LostReplies
  /\ page' = [page EXCEPT !.error = @ \/ ~c.resume]
  /\ calls' = calls \ {c}
  /\ UNCHANGED <<server, storage, submitted, late, counted, notified,
                 attempts, reloads>>

(* A new page, or another address, asks for the intent it remembers.  The  *)
(* answer is shown whatever is on screen when it comes.                    *)
ResumeAnswers(c) ==
  /\ c \in calls /\ c.resume /\ c.answer # None
  /\ IF c.answer \in {"expired", "failed"}
     THEN storage' = None /\ UNCHANGED <<page, counted, notified>>
     ELSE Commit([page EXCEPT !.shown = c.intent, !.status = c.answer], storage)
  /\ calls' = calls \ {c}
  /\ UNCHANGED <<server, submitted, late, attempts, reloads>>

Resumed == IF storage = None THEN {}
           ELSE {[intent |-> storage, resume |-> TRUE, answer |-> None]}

Connect ==
  /\ reloads < MaxReloads /\ reloads' = reloads + 1
  /\ calls' = calls \cup Resumed
  /\ UNCHANGED <<server, page, storage, submitted, late, counted, notified, attempts>>

Reload ==
  /\ reloads < MaxReloads /\ reloads' = reloads + 1
  /\ page' = Blank /\ notified' = {} /\ counted' = [i \in Intents |-> 0]
  /\ calls' = Resumed
  /\ late' = IF submitted # None /\ submitted.answer = None
             THEN late \cup {submitted.intent} ELSE late
  /\ submitted' = None
  /\ UNCHANGED <<server, storage, attempts>>

(* The chain and the cron job decide what becomes of an intent.            *)
Settle(i) ==
  /\ \/ server[i] = "submitted"
        /\ \E status \in Terminal : server' = [server EXCEPT ![i] = status]
     \/ server[i] = "prepared" /\ server' = [server EXCEPT ![i] = "expired"]
  /\ UNCHANGED <<page, storage, network, counted, notified, attempts, reloads>>

Next ==
  \/ \E i \in Intents : Review(i) \/ ExecuteTrade(i) \/ ServeLate(i) \/ Settle(i)
  \/ Approve \/ Close \/ Authenticate \/ Rebuild \/ Sign \/ Decline \/ ReviewWalletFee
  \/ ServeSubmit \/ SubmitAnswers \/ SubmitLost \/ Poll \/ Connect \/ Reload
  \/ \E c \in calls : Serve(c) \/ PollAnswers(c) \/ PollFails(c) \/ ResumeAnswers(c)

Spec == Init /\ [][Next]_vars

(* The timer fires while the review is open, calls are answered, and the   *)
(* chain decides; what the user does is not fair.                          *)
Fairness ==
  /\ WF_vars(Poll) /\ WF_vars(ServeSubmit) /\ WF_vars(SubmitAnswers)
  /\ WF_vars(\E c \in calls : Serve(c))
  /\ WF_vars(\E c \in calls : PollAnswers(c) \/ ResumeAnswers(c))
  /\ \A i \in Intents : WF_vars(server[i] = "submitted" /\ Settle(i))
FairSpec == Spec /\ Fairness

(* ------------------------------ properties ----------------------------- *)

TypeOK ==
  /\ server \in [Intents -> {"none", "prepared", "submitted"} \cup Terminal]
  /\ page.shown \in Intents \cup {None} /\ storage \in Intents \cup {None}
  /\ page.shown = None <=> page.status = "none"

(* However polls, resumes and reviews overlap, a confirmed intent is       *)
(* counted, announced and reloaded for once in the life of a page.         *)
ConfirmedOnce == \A i \in Intents : counted[i] <= 1

(* What the page says of an intent that is over is what became of it: no   *)
(* late answer about another intent is shown as this one's.                *)
ShownIsTrue ==
  page.status \in Terminal => server[page.shown] = page.status

(* Once its approval is over, and until a resume begins, a submitted       *)
(* intent stays on screen until it is settled or the user moves on,        *)
(* whatever stale answers to polls arrive.  A resume may put another in    *)
(* its place, or set it back to what it was; nothing polls for it then     *)
(* (provider.tsx:251-260).                                                 *)
Resuming == \E c \in calls : c.resume

SettlesOnScreen ==
  \A i \in Intents :
    page.shown = i /\ page.status = "submitted" /\ ~Busy /\ ~Resuming
      ~> page.shown # i \/ page.status \in Terminal \/ Resuming

(* "Network failures and server errors remain ambiguous and must keep      *)
(* signature recovery" (provider.tsx, sign): a trade the server has        *)
(* submitted is not shown as a failed approval.                            *)
FailedApprovalWasNotSent ==
  page.status = "approval-failed" => server[page.shown] # "submitted"
=============================================================================
