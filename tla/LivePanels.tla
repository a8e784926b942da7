----------------------------- MODULE LivePanels -----------------------------
(* The panels that follow what is selected: trade balances, the quote of a *)
(* trade, the price chart, the traders' and creators' rankings, the list   *)
(* of fee recipients, the office totals and the token page.  Each loads in *)
(* an effect and most reload on a timer.  Answers are late, fail, or come  *)
(* for a selection that is no longer the one on the screen.  One panel is  *)
(* modelled at a time; they share no state.                                *)
EXTENDS Naturals, FiniteSets

CONSTANTS Panels, Groups, Details, Latest, None,
          MaxChanges, MaxFailures, MaxHides        \* bounds

VARIABLES panel,
          selection,   \* the dependencies of the effect
          requests,    \* under way; live unless the effect was cleaned up
          shown,       \* what the state holds, and what it was asked for
          loading, failed,
          hidden,      \* document.hidden
          due,         \* the effect or its timer has a load to start
          changes, failures, hides

vars == <<panel, selection, requests, shown, loading, failed, hidden, due,
          changes, failures, hides>>

Selections == [group : Groups, detail : Details]

(* Those that reload on a timer, a chart on its latest page only; the      *)
(* others offer a button.                                                  *)
Polled == {"assets", "quote", "chart", "traders", "office", "token"}
Polls == panel \in Polled /\ (panel = "chart" => selection.detail = Latest)
Single == {"office"}                       \* nothing to select

Init ==
  /\ panel \in Panels /\ selection \in Selections
  /\ requests = {} /\ shown = None /\ loading = TRUE /\ failed = FALSE
  /\ hidden = FALSE /\ due = TRUE
  /\ changes = 0 /\ failures = 0 /\ hides = 0

(* ------------------------------- the panels ---------------------------- *)

(* What a new effect keeps of the state.                                   *)
AssetsKept == None
ChartKept == None
CreatorsKept == None
RecipientsKept(s) == IF s.group = selection.group THEN shown ELSE None
TradersKept == shown
TokenKept == shown

Kept(s) ==
  CASE panel = "assets" -> AssetsKept
    [] panel = "chart" -> ChartKept
    [] panel = "creators" -> CreatorsKept
    [] panel = "recipients" -> RecipientsKept(s)
    [] OTHER -> IF panel = "traders" THEN TradersKept ELSE TokenKept

(* What the start of a load keeps: a quote only within its group.          *)
QuoteKept ==
  IF shown # None /\ shown.group = selection.group THEN shown ELSE None

(* What a failure leaves: balances and quotes go, the rest stays with an   *)
(* error beside it.                                                        *)
Left == IF panel \in {"assets", "quote"} THEN None ELSE shown

(* What is rendered of the state.                                          *)
PeriodShown == IF shown # None /\ shown = selection THEN shown ELSE None
QuoteShown ==
  IF shown # None /\ shown.group = selection.group THEN shown ELSE None

Rendered ==
  CASE panel = "traders" -> PeriodShown
    [] panel = "quote" -> QuoteShown
    [] OTHER -> shown

(* A quote of other terms is rendered as updating.                         *)
Settled ==
  IF panel = "quote" THEN ~loading /\ shown = selection ELSE ~loading

(* --------------------------------- steps ------------------------------- *)

(* Cleanup and effect: requests under way no longer count, a load is due.  *)
Cancelled == {[r EXCEPT !.live = FALSE] : r \in requests}

Select(s) ==
  /\ s # selection /\ changes < MaxChanges /\ panel \notin Single
  /\ changes' = changes + 1 /\ selection' = s
  /\ requests' = Cancelled
  /\ shown' = Kept(s)
  /\ loading' = TRUE /\ failed' = FALSE /\ due' = TRUE
  /\ UNCHANGED <<panel, hidden, failures, hides>>

(* A timer fires: the panels that poll have another load to start.         *)
TimerRuns == Polls

Tick ==
  /\ TimerRuns /\ ~due /\ due' = TRUE
  /\ UNCHANGED <<panel, selection, requests, shown, loading, failed, hidden,
                 changes, failures, hides>>

Retry ==
  /\ failed /\ ~due /\ due' = TRUE
  /\ UNCHANGED <<panel, selection, requests, shown, loading, failed, hidden,
                 changes, failures, hides>>

(* load: not while one is under way in this effect, nor while hidden.      *)
Fetching == \E r \in requests : r.live

StartLoad ==
  /\ due /\ due' = FALSE
  /\ IF Fetching \/ hidden
     THEN UNCHANGED <<requests, shown, loading, failed>>
     ELSE /\ requests' = requests \cup {[for |-> selection, live |-> TRUE]}
          /\ shown' = IF panel = "quote" THEN QuoteKept ELSE shown
          /\ loading' = TRUE /\ failed' = FALSE
  /\ UNCHANGED <<panel, selection, hidden, changes, failures, hides>>

Always(r) == TRUE
Counts(r) == r.live

Answer(r) ==
  /\ r \in requests /\ requests' = requests \ {r}
  /\ IF Counts(r)
     THEN shown' = r.for /\ loading' = FALSE /\ failed' = FALSE
     ELSE UNCHANGED <<shown, loading, failed>>
  /\ UNCHANGED <<panel, selection, hidden, due, changes, failures, hides>>

Fail(r) ==
  /\ r \in requests /\ failures < MaxFailures /\ failures' = failures + 1
  /\ requests' = requests \ {r}
  /\ IF Counts(r)
     THEN shown' = Left /\ loading' = FALSE /\ failed' = TRUE
     ELSE UNCHANGED <<shown, loading, failed>>
  /\ UNCHANGED <<panel, selection, hidden, due, changes, hides>>

Hide ==
  /\ ~hidden /\ hides < MaxHides /\ hidden' = TRUE /\ hides' = hides + 1
  /\ UNCHANGED <<panel, selection, requests, shown, loading, failed, due,
                 changes, failures>>

Show ==
  /\ hidden /\ hidden' = FALSE
  /\ UNCHANGED <<panel, selection, requests, shown, loading, failed, due,
                 changes, failures, hides>>

Next ==
  \/ \E s \in Selections : Select(s)
  \/ Tick \/ Retry \/ StartLoad
  \/ \E r \in requests : Answer(r) \/ Fail(r)
  \/ Hide \/ Show

(* The timers and the network go on, the creator looks at the page again;  *)
(* a request is answered or fails.                                         *)
Fairness ==
  /\ WF_vars(Tick) /\ WF_vars(StartLoad) /\ WF_vars(Show)
  /\ WF_vars(\E r \in requests : Answer(r) \/ Fail(r))

Spec == Init /\ [][Next]_vars /\ Fairness

(* ------------------------------ properties ----------------------------- *)

TypeOK ==
  /\ panel \in Panels /\ selection \in Selections
  /\ \A r \in requests : r.for \in Selections
  /\ Cardinality({r \in requests : r.live}) <= 1
  /\ shown \in Selections \cup {None}

(* What a panel shows as settled is what is selected, although the answer  *)
(* for an earlier wallet, period, page or amount may arrive after it.      *)
SettledIsSelected ==
  Settled /\ ~failed /\ Rendered # None => Rendered = selection

(* A panel that polls shows what is selected in the end, also after a      *)
(* failed load or one that was skipped because the page was hidden.        *)
CatchesUp ==
  <>[](Polls => Rendered = selection)
=============================================================================
