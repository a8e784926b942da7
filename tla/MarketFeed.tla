----------------------------- MODULE MarketFeed -----------------------------
(* The browser's market results: one cache of answers and of requests under *)
(* way that every list and the search dialog share, the hook that shows an *)
(* answer, and the offer to launch a ticker nobody has.  A request may be  *)
(* slow or fail, the filters change while it is under way, and a confirmed *)
(* trade makes everything read before it old.                              *)
EXTENDS Naturals, FiniteSets

CONSTANTS Keys, None,
          MaxTrades, MaxFetches, MaxChanges     \* bounds

VARIABLES entries,     \* the answers kept, by key
          pending,     \* the request a key has under way
          fetches,     \* the requests not yet answered
          generation,
          key,         \* the filters of the hook
          view,        \* useState of the hook
          hook,        \* its effect: the run, and the fetch its load awaits
          seeking, available,   \* the ticker lookup of the search dialog
          fetched, changes

vars == <<entries, pending, fetches, generation, key, view, hook, seeking,
          available, fetched, changes>>

NoEntries == [k \in Keys |-> None]
Shown(k, data, refreshing) ==
  [key |-> k, data |-> data, failed |-> FALSE, refreshing |-> refreshing]

Init ==
  /\ entries = NoEntries /\ pending = NoEntries /\ fetches = {}
  /\ generation = 0 /\ key \in Keys
  /\ view = Shown(key, None, TRUE)
  /\ hook = [run |-> 1, due |-> TRUE, awaits |-> None]
  /\ seeking = {} /\ available = None /\ fetched = 0 /\ changes = 0

(* ------------------------------- the cache ----------------------------- *)

(* loadMarket: an answer that is still fresh, or the request under way for *)
(* the key, or a new one.                                                  *)
IsFresh(k, force) == ~force /\ entries[k] # None /\ entries[k].fresh

Request(k) ==
  IF pending[k] # None THEN pending[k]
  ELSE [id |-> fetched + 1, key |-> k, generation |-> generation]

Load(k) ==
  LET f == Request(k) IN
  /\ pending[k] # None \/ fetched < MaxFetches
  /\ fetches' = fetches \cup {f}
  /\ pending' = [pending EXCEPT ![k] = f]
  /\ fetched' = IF pending[k] = None THEN fetched + 1 ELSE fetched

(* The search button warms the results it will show.                       *)
Prefetch(k) ==
  /\ ~IsFresh(k, FALSE) /\ Load(k)
  /\ UNCHANGED <<entries, generation, key, view, hook, seeking, available, changes>>

(* Only an answer of the current generation is kept; the request that is   *)
(* replaced in pending does not remove its successor.                      *)
Current(f) == f.generation = generation

Seeded(f) == IF Current(f)
             THEN [entries EXCEPT ![f.key] = [read |-> f.generation, fresh |-> TRUE]]
             ELSE entries

(* An answer reaches every load that awaits it; the hook shows it unless   *)
(* its effect has been replaced (current = false).                         *)
Ages(k) ==
  /\ entries[k] # None
  /\ entries' = [entries EXCEPT ![k] = IF @.fresh THEN [@ EXCEPT !.fresh = FALSE]
                                       ELSE None]
  /\ UNCHANGED <<pending, fetches, generation, key, view, hook, seeking,
                 available, fetched, changes>>

Answered(f) ==
  /\ f \in fetches /\ fetches' = fetches \ {f}
  /\ pending' = IF pending[f.key] = f THEN [pending EXCEPT ![f.key] = None]
                ELSE pending

Succeeds(f) ==
  /\ Answered(f) /\ entries' = Seeded(f)
  /\ IF hook.awaits = f
     THEN /\ view' = Shown(f.key, [key |-> f.key, read |-> f.generation], FALSE)
          /\ hook' = [hook EXCEPT !.awaits = None]
     ELSE UNCHANGED <<view, hook>>
  /\ UNCHANGED <<generation, key, seeking, available, fetched, changes>>

(* A failed refresh keeps rows that are recent enough.                     *)
Fails(f) ==
  /\ Answered(f)
  /\ \E kept \in {None, view.data} :
       IF hook.awaits = f
       THEN /\ view' = [view EXCEPT !.key = f.key, !.data = kept, !.failed = TRUE,
                                    !.refreshing = FALSE]
            /\ hook' = [hook EXCEPT !.awaits = None]
       ELSE UNCHANGED <<view, hook>>
  /\ UNCHANGED <<entries, generation, key, seeking, available, fetched, changes>>

(* ------------------------------- the hook ------------------------------ *)

(* The effect of a new key or revision: the old one no longer counts, the  *)
(* rows of the cache are shown meanwhile, and a load is due.               *)
RowsOf(k) ==
  IF entries'[k] # None THEN [key |-> k, read |-> entries'[k].read]
  ELSE IF view.key = k THEN view.data ELSE None

Effect(k) ==
  /\ view' = Shown(k, RowsOf(k), TRUE)
  /\ hook' = [run |-> hook.run + 1, due |-> TRUE, awaits |-> None]

Change == changes < MaxChanges /\ changes' = changes + 1

ChangeKey(k) ==
  /\ Change /\ k # key /\ key' = k
  /\ UNCHANGED entries /\ Effect(k)
  /\ available' = None /\ seeking' = {}
  /\ UNCHANGED <<pending, fetches, generation, fetched>>

(* A confirmed trade: clearMarket, then a new revision for every hook.     *)
KeepsPending == pending
NonePending == NoEntries

Confirmed ==
  /\ generation < MaxTrades /\ generation' = generation + 1
  /\ entries' = NoEntries /\ pending' = NonePending
  /\ Effect(key)
  /\ UNCHANGED <<fetches, key, seeking, available, fetched, changes>>

(* The first load of an effect is forced once a trade was confirmed, and   *)
(* so is that of the timer and of a focus.                                 *)
HookLoads(forced) ==
  /\ hook.awaits = None /\ (hook.due \/ forced)
  /\ IF hook.due /\ IsFresh(key, generation > 0)
     THEN /\ view' = Shown(key, [key |-> key, read |-> entries[key].read], FALSE)
          /\ hook' = [hook EXCEPT !.due = FALSE]
          /\ UNCHANGED <<fetches, pending, fetched>>
     ELSE /\ Load(key)
          /\ hook' = [hook EXCEPT !.due = FALSE, !.awaits = Request(key)]
          /\ view' = [view EXCEPT !.refreshing = TRUE]
  /\ UNCHANGED <<entries, generation, key, seeking, available, changes>>

(* --------------------------- the launch offer -------------------------- *)

(* Results without the searched ticker: ask whether it is free.  A change  *)
(* of the search aborts the question.                                      *)
AskTicker ==
  /\ ~view.failed /\ view.key = key /\ view.data # None /\ seeking = {}
  /\ available = None
  /\ seeking' = {key} /\ UNCHANGED <<entries, pending, fetches, generation, key,
                                     view, hook, available, fetched, changes>>

TickerIsFree(k) ==
  /\ k \in seeking /\ seeking' = {}
  /\ available' \in {None, k}
  /\ UNCHANGED <<entries, pending, fetches, generation, key, view, hook, fetched,
                 changes>>

Next ==
  \/ \E k \in Keys : Prefetch(k) \/ Ages(k) \/ ChangeKey(k) \/ TickerIsFree(k)
  \/ \E f \in fetches : Succeeds(f) \/ Fails(f)
  \/ Confirmed \/ AskTicker
  \/ \E forced \in BOOLEAN : HookLoads(forced)

Spec == Init /\ [][Next]_vars

(* ------------------------------ properties ----------------------------- *)

TypeOK ==
  /\ \A k \in Keys : entries[k] # None => entries[k].read \in 0..generation
  /\ \A f \in fetches : f.key \in Keys /\ f.id \in 1..fetched
  /\ \A k \in Keys : pending[k] # None => pending[k] \in fetches
  /\ key \in Keys /\ view.key \in Keys /\ available \in Keys \cup {None}

(* The rows on the screen answer the filters on the screen, whatever order *)
(* the answers come in.                                                    *)
RowsAnswerTheFilters ==
  view.key = key /\ view.data # None => view.data.key = key

(* Once a refresh after a confirmed trade is over, what is shown was asked *)
(* for after it: the refresh does not join a request that was under way.   *)
TradeIsVisible ==
  view.data # None /\ ~view.refreshing /\ ~view.failed =>
    view.data.read = generation

(* Nothing read before the last confirmed trade stays in the cache, though *)
(* its request may be answered after it.                                   *)
CacheForgetsOldReads ==
  \A k \in Keys : entries[k] # None => entries[k].read = generation
=============================================================================
