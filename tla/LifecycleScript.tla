-------------------------- MODULE LifecycleScript --------------------------
(* The devnet lifecycle of the fee escrow: a script that signs one         *)
(* transaction per label, in order, and may be killed anywhere and run     *)
(* again.  Its state file holds what is confirmed and what is pending.     *)
EXTENDS Naturals, FiniteSets, Sequences, SequencesExt

CONSTANTS Labels,                        \* the labels, in their order
          Claims,                        \* those that claim fees
          None, Window, MaxHeight, MaxCrashes, MaxErrors       \* bounds

VARIABLES file,     \* lifecycle.json
          run,      \* the running process
          sent,     \* transactions the RPC accepted
          height, crashes, errors

vars == <<file, run, sent, height, crashes, errors>>

Names == ToSet(Labels)
Idle == [pc |-> "off", label |-> None, seen |-> None]

Init ==
  /\ file = [signatures |-> [l \in Names |-> None],
             pending |-> [l \in Names |-> None],
             expected |-> [l \in Names |-> FALSE], expired |-> {}]
  /\ run = Idle /\ sent = {} /\ height = 0 /\ crashes = 0 /\ errors = 0

Start ==
  /\ run.pc = "off" /\ run' = [Idle EXCEPT !.pc = "reconcile"]
  /\ UNCHANGED <<file, sent, height, crashes, errors>>

Crash ==
  /\ run.pc # "off" /\ crashes < MaxCrashes /\ crashes' = crashes + 1
  /\ run' = Idle
  /\ UNCHANGED <<file, sent, height, errors>>

(* "Reconcile all earlier signatures before constructing any new           *)
(* transaction."                                                           *)
Unresolved == {l \in Names : file.pending[l] # None}

Reconcile ==
  /\ run.pc = "reconcile"
  /\ run' = IF Unresolved = {} THEN [run EXCEPT !.pc = "next"]
            ELSE [run EXCEPT !.pc = "settle", !.label = CHOOSE l \in Unresolved : TRUE]
  /\ UNCHANGED <<file, sent, height, crashes, errors>>

Todo == {i \in DOMAIN Labels : file.signatures[Labels[i]] = None}
First(s) == CHOOSE i \in s : \A j \in s : i <= j

(* The next label without a signature is built from the current chain; a   *)
(* claim saves what it expects to be paid, and every transaction is saved  *)
(* before it is sent.                                                      *)
Expect ==
  /\ run.pc = "next" /\ Todo # {}
  /\ Labels[First(Todo)] \in Claims /\ ~file.expected[Labels[First(Todo)]]
  /\ file' = [file EXCEPT !.expected[Labels[First(Todo)]] = TRUE]
  /\ UNCHANGED <<run, sent, height, crashes, errors>>

Saved(l, at) == [file.pending EXCEPT ![l] = at]

Send ==
  LET l == Labels[First(Todo)] IN
  /\ run.pc = "next" /\ Todo # {} /\ (l \in Claims => file.expected[l])
  /\ file' = [file EXCEPT !.pending = Saved(l, height)]
  /\ run' = [run EXCEPT !.pc = "settle", !.label = l]
  /\ UNCHANGED <<sent, height, crashes, errors>>

Finish ==
  /\ run.pc = "next" /\ Todo = {}
  /\ run' = [run EXCEPT !.pc = IF \A l \in Claims : file.expected[l] THEN "pass"
                               ELSE "stopped"]
  /\ UNCHANGED <<file, sent, height, crashes, errors>>

Tx(l) == [label |-> l, at |-> file.pending[l]]
State(l) == IF \E t \in sent : t.label = l /\ t.at = file.pending[l]
            THEN (CHOOSE t \in sent : t.label = l /\ t.at = file.pending[l]).state
            ELSE "unknown"

(* Stopping is followed by a rerun, which goes on where reconciling the    *)
(* saved signatures ends.                                                  *)
(* settle: the status is read; only when none is known is the height read  *)
(* and, past the last valid block, the status once more.                   *)
ReadStatus ==
  /\ run.pc = "settle" /\ run.label # None
  /\ run' = [run EXCEPT !.seen = State(run.label), !.pc = "decide"]
  /\ UNCHANGED <<file, sent, height, crashes, errors>>

Confirmed == {"landed"}

Confirm ==
  /\ run.pc = "decide" /\ run.seen \in Confirmed
  /\ file' = [file EXCEPT !.signatures[run.label] = file.pending[run.label],
                          !.pending[run.label] = None]
  /\ run' = [Idle EXCEPT !.pc = "reconcile"]
  /\ UNCHANGED <<sent, height, crashes, errors>>

Failed ==
  /\ run.pc = "decide" /\ run.seen = "failed"
  /\ file' = [file EXCEPT !.pending[run.label] = None] /\ run' = Idle
  /\ UNCHANGED <<sent, height, crashes, errors>>

SecondRead(l) == State(l)

Expire ==
  /\ run.pc = "decide" /\ run.seen \in {"unknown", "sent"}
  /\ height > file.pending[run.label] + Window
  /\ IF SecondRead(run.label) \in {"unknown", "sent"}
     THEN /\ file' = [file EXCEPT !.pending[run.label] = None,
                        !.expired = @ \cup {[label |-> run.label,
                                             at |-> file.pending[run.label]]}]
          /\ run' = Idle
     ELSE run' = [run EXCEPT !.pc = "settle"] /\ UNCHANGED file
  /\ UNCHANGED <<sent, height, crashes, errors>>

(* Within its validity the same bytes are broadcast, again if need be.     *)
Broadcast ==
  /\ run.pc = "decide" /\ run.seen \in {"unknown", "sent"}
  /\ height <= file.pending[run.label] + Window
  /\ LET t == [label |-> run.label, at |-> file.pending[run.label], state |-> "sent"]
     IN sent' = IF State(run.label) = "unknown" THEN sent \cup {t} ELSE sent
  /\ run' = [run EXCEPT !.pc = "settle"]
  /\ UNCHANGED <<file, height, crashes, errors>>

(* The confirmation may stay unresolved: the script stops and is rerun.    *)
GiveUp ==
  /\ run.pc = "decide" /\ run.seen \in {"unknown", "sent"} /\ run' = Idle
  /\ UNCHANGED <<file, sent, height, crashes, errors>>

Land(t) ==
  /\ t \in sent /\ t.state = "sent" /\ height <= t.at + Window
  /\ \/ sent' = (sent \ {t}) \cup {[t EXCEPT !.state = "landed"]} /\ UNCHANGED errors
     \/ /\ errors < MaxErrors /\ errors' = errors + 1
        /\ sent' = (sent \ {t}) \cup {[t EXCEPT !.state = "failed"]}
  /\ UNCHANGED <<file, run, height, crashes>>

Tick ==
  /\ height < MaxHeight /\ height' = height + 1
  /\ UNCHANGED <<file, run, sent, crashes, errors>>

Next ==
  \/ Start \/ Crash \/ Reconcile \/ Expect \/ Send \/ Finish
  \/ ReadStatus \/ Confirm \/ Failed \/ Expire \/ Broadcast \/ GiveUp \/ Tick
  \/ \E t \in sent : Land(t)

Spec == Init /\ [][Next]_vars

(* ------------------------------ properties ----------------------------- *)

TypeOK ==
  /\ run.pc \in {"off", "reconcile", "next", "settle", "decide", "pass", "stopped"}
  /\ \A l \in Names : file.pending[l] \in 0..MaxHeight \cup {None}

(* "Rerun to reconcile, never repeat blindly": however often the script is *)
(* killed and rerun, the transaction of a label lands at most once.        *)
LandsOnce ==
  \A t, u \in sent :
    t.label = u.label /\ t.state = "landed" /\ u.state = "landed" => t = u

(* PASS is printed only when every label landed with the saved signature.  *)
PassMeansLanded ==
  run.pc = "pass" => \A l \in Names :
    \E t \in sent : t.label = l /\ t.state = "landed" /\ t.at = file.signatures[l]
=============================================================================
