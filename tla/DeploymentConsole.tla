------------------------- MODULE DeploymentConsole -------------------------
(* Deploying the escrow program from a wallet: a local console prepares    *)
(* loader transactions from the finalized chain, a browser wallet signs    *)
(* them, and every signed batch is written to a journal before the first   *)
(* of it is broadcast.  Consoles may crash at any step, replies may be     *)
(* lost, transactions may fail, expire or land long after they were sent.  *)
EXTENDS Naturals, FiniteSets, Functions

CONSTANTS Consoles, Chunks, None,
          BatchSize, Window,             \* MAX_WRITE_BATCH, blocks of validity
          FeeCeiling, BufferRent, ProgramRent, Budget,
          MaxHeight, MaxCrashes, MaxFailures          \* bounds

VARIABLES lock, disk,       \* console.lock and journal.json
          con,              \* the console processes
          page,             \* the approval shown in the browser
          ledger,           \* every transaction the RPC accepted
          account,          \* the finalized buffer and program accounts
          height, crashes, failures

vars == <<lock, disk, con, page, ledger, account, height, crashes, failures>>

Off == [pc |-> "off", op |-> None, journal |-> {}, seen |-> {},
        prepared |-> None, queue |-> {}]

Init ==
  /\ lock = None /\ disk = {} /\ con = [c \in Consoles |-> Off]
  /\ page = None /\ ledger = {} /\ account = [buffer |-> None, program |-> None]
  /\ height = 0 /\ crashes = 0 /\ failures = 0

(* ------------------------------- planning ------------------------------ *)

Written == IF account.buffer = None THEN {} ELSE account.buffer
Missing == Chunks \ Written
Complete == account.program # None

(* inspectDeployment: what the finalized chain still needs.                *)
NextSteps(size) ==
  IF Complete THEN {}
  ELSE IF account.buffer = None THEN {{"create-buffer"}}
  ELSE IF Missing = {} THEN {{"deploy"}}
  ELSE {s \in SUBSET Missing : Cardinality(s) = IF Cardinality(Missing) < size
                                     THEN Cardinality(Missing) ELSE size}

Funding(step) == CASE step = "create-buffer" -> BufferRent
                   [] step = "deploy" -> ProgramRent
                   [] OTHER -> 0
Reserve(step) == Funding(step) + FeeCeiling
Cost(steps) == SumFunction([s \in steps |-> Reserve(s)])
ReserveOf(entries) == SumFunction([e \in entries |-> Reserve(e.step)])

FutureAllowance ==
  IF Complete THEN 0
  ELSE LET creates == IF account.buffer = None THEN 1 ELSE 0 IN
       (Cardinality(Missing) + 1 + creates) * FeeCeiling
         + ProgramRent + creates * BufferRent

(* spent: a reservation is kept whatever became of the transaction.        *)
Spent(journal) == ReserveOf(journal)

(* ------------------------------- processes ----------------------------- *)

AnyLock == TRUE
LockFree == lock = None

Start(c) ==
  /\ con[c].pc = "off" /\ LockFree
  /\ lock' = c
  /\ con' = [con EXCEPT ![c] = [Off EXCEPT !.pc = "idle", !.journal = disk]]
  /\ UNCHANGED <<disk, page, ledger, account, height, crashes, failures>>

Crash(c) ==
  /\ con[c].pc # "off" /\ crashes < MaxCrashes /\ crashes' = crashes + 1
  /\ con' = [con EXCEPT ![c] = Off] /\ page' = None
  /\ UNCHANGED <<lock, disk, ledger, account, height, failures>>

(* The operator removes the lock of a console that is gone.                *)
RemoveStaleLock ==
  /\ lock # None /\ con[lock].pc = "off" /\ lock' = None
  /\ UNCHANGED <<disk, con, page, ledger, account, height, crashes, failures>>

Close(c) ==
  /\ con[c].pc = "idle" /\ lock = c
  /\ lock' = None /\ con' = [con EXCEPT ![c] = Off] /\ page' = None
  /\ UNCHANGED <<disk, ledger, account, height, crashes, failures>>

(* ------------------------------- requests ------------------------------ *)

Pending(journal) == {e \in journal : e.state = "pending"}
NothingPending(journal) == Pending(journal) = {}

(* One request at a time (busy); every one first refreshes the journal.    *)
Request(c, op) ==
  /\ con[c].pc = "idle"
  /\ op = "submit" => page # None
  /\ (op = "submit") => page.signed
  /\ con' = [con EXCEPT ![c].pc = "refresh", ![c].op = op]
  /\ UNCHANGED <<lock, disk, page, ledger, account, height, crashes, failures>>

Fail(c) == con' = [con EXCEPT ![c].pc = "idle", ![c].op = None, ![c].seen = {},
                              ![c].queue = {}]

(* getSignatureStatuses                                                    *)
ReadStatuses(c) ==
  /\ con[c].pc = "refresh"
  /\ con' = [con EXCEPT ![c].pc = "settle",
       ![c].seen = {t \in ledger : \E e \in Pending(con[c].journal) :
                      e.step = t.step /\ e.at = t.at /\ t.state # "sent"}]
  /\ UNCHANGED <<lock, disk, page, ledger, account, height, crashes, failures>>

RpcFails(c) ==
  /\ con[c].pc \in {"refresh", "settle", "broadcast"} /\ Fail(c)
  /\ UNCHANGED <<lock, disk, page, ledger, account, height, crashes, failures>>

(* A finalized transaction is settled from its receipt; one the RPC has    *)
(* never heard of is expired once its last valid block is finalized.       *)
Settled(c, e) ==
  LET status == {t \in con[c].seen : t.step = e.step /\ t.at = e.at} IN
  IF e.state # "pending" THEN e
  ELSE IF \E t \in status : t.state \in {"finalized", "failed"}
  THEN [e EXCEPT !.state = (CHOOSE t \in status : TRUE).state]
  ELSE IF status = {} /\ height > e.at + Window THEN [e EXCEPT !.state = "expired"]
  ELSE e

RefreshPending(c) ==
  /\ con[c].pc = "settle"
  /\ LET journal == {Settled(c, e) : e \in con[c].journal} IN
     /\ con' = [con EXCEPT ![c].journal = journal, ![c].seen = {},
                           ![c].pc = con[c].op]
     /\ disk' = IF journal = con[c].journal THEN disk ELSE journal
  /\ UNCHANGED <<lock, page, ledger, account, height, crashes, failures>>

Status(c) ==
  /\ con[c].pc = "status" /\ Fail(c)
  /\ UNCHANGED <<lock, disk, page, ledger, account, height, crashes, failures>>

(* prepare: nothing may be pending or unaccounted, and what is reserved    *)
(* must fit together with all that is still to be done.                    *)
MayPrepare(journal) ==
  NothingPending(journal) /\ \A e \in journal : e.state # "expired"

Prepare(c) ==
  LET me == con[c]
      recover == me.pc = "recover"
      plans == IF recover
               THEN IF account.buffer = None THEN {} ELSE {{"recover-buffer"}}
               ELSE NextSteps(BatchSize)
      fits(steps) ==
        /\ recover \/ Spent(me.journal) + FutureAllowance <= Budget
        /\ Spent(me.journal) + Cost(steps) <= Budget
  IN
  /\ me.pc \in {"prepare", "recover"}
  /\ \/ /\ MayPrepare(me.journal) /\ plans # {}
        /\ \E steps \in plans :
             /\ fits(steps)
             /\ con' = [con EXCEPT ![c].pc = "idle", ![c].op = None,
                  ![c].prepared = [steps |-> steps, at |-> height,
                    future |-> IF recover THEN Cost(steps)
                               ELSE FutureAllowance]]
             /\ page' = [steps |-> steps, at |-> height, signed |-> FALSE]
     \/ /\ MayPrepare(me.journal) /\ plans = {}
        /\ con' = [con EXCEPT ![c].pc = "idle", ![c].op = None, ![c].prepared = None]
        /\ page' = None
     \/ /\ ~(MayPrepare(me.journal) /\ (plans = {} \/ \E s \in plans : fits(s)))
        /\ Fail(c) /\ UNCHANGED page
  /\ UNCHANGED <<lock, disk, ledger, account, height, crashes, failures>>

(* The wallet signs the whole batch; a page may also drop it.              *)
SignTransactions ==
  /\ page # None /\ page' = [page EXCEPT !.signed = TRUE]
  /\ UNCHANGED <<lock, disk, con, ledger, account, height, crashes, failures>>

Cancel ==
  /\ page # None /\ page' = None
  /\ UNCHANGED <<lock, disk, con, ledger, account, height, crashes, failures>>

(* submit: the approval is the prepared one and still valid; then the      *)
(* whole batch reaches the disk before its first transaction is sent.      *)
Accepts(c) ==
  LET me == con[c] IN
  /\ me.prepared # None
  /\ page # None
  /\ page.steps = me.prepared.steps
  /\ page.at = me.prepared.at
  /\ NothingPending(me.journal)
  /\ height <= me.prepared.at + Window
  /\ Spent(me.journal) + Cost(me.prepared.steps) <= Budget
  /\ Spent(me.journal) + me.prepared.future <= Budget
  /\ \A e \in me.journal : ~(e.step \in me.prepared.steps /\ e.at = me.prepared.at)

SaveAfterwards(journal) == disk
Persist(journal) == journal

Submit(c) ==
  LET me == con[c]
      entries == {[step |-> s, at |-> me.prepared.at, state |-> "pending"] :
                    s \in me.prepared.steps}
  IN
  /\ me.pc = "submit"
  /\ IF Accepts(c)
     THEN /\ disk' = Persist(me.journal \cup entries)
          /\ con' = [con EXCEPT ![c].pc = "broadcast", ![c].prepared = None,
               ![c].journal = me.journal \cup entries, ![c].queue = entries]
     ELSE Fail(c) /\ UNCHANGED disk
  /\ UNCHANGED <<lock, page, ledger, account, height, crashes, failures>>

Rebroadcast(c) ==
  /\ con[c].pc = "rebroadcast"
  /\ con' = [con EXCEPT ![c].pc = "broadcast", ![c].queue = Pending(con[c].journal)]
  /\ UNCHANGED <<lock, disk, page, ledger, account, height, crashes, failures>>

(* Preflight simulation refuses a transaction that is no longer valid.     *)
Broadcast(c) ==
  /\ con[c].pc = "broadcast"
  /\ \/ \E e \in con[c].queue :
          LET t == [step |-> e.step, at |-> e.at, state |-> "sent"] IN
          /\ height <= e.at + Window
          /\ con' = [con EXCEPT ![c].queue = @ \ {e}]
          /\ ledger' = IF \E u \in ledger : u.step = e.step /\ u.at = e.at
                       THEN ledger ELSE ledger \cup {t}
          /\ UNCHANGED page
     \/ /\ con[c].queue = {} /\ Fail(c) /\ UNCHANGED ledger
        /\ page' \in {page, None}                  \* the reply may be lost
  /\ UNCHANGED <<lock, disk, account, height, crashes, failures>>

(* ------------------------------- the chain ----------------------------- *)

Valid(step) ==
  CASE step = "create-buffer"  -> account.buffer = None
    [] step = "deploy"         -> account.buffer # None /\ account.program = None
    [] OTHER                   -> account.buffer # None

Applied(step) ==
  CASE step = "create-buffer"  -> [account EXCEPT !.buffer = {}]
    [] step = "recover-buffer" -> [account EXCEPT !.buffer = None]
    [] step = "deploy"         -> [buffer |-> None, program |-> account.buffer]
    [] OTHER                   -> [account EXCEPT !.buffer = @ \cup {step}]

Process(t) ==
  /\ t \in ledger /\ t.state = "sent" /\ height <= t.at + Window
  /\ ledger' = (ledger \ {t}) \cup {[t EXCEPT !.state = "processed"]}
  /\ UNCHANGED <<lock, disk, con, page, account, height, crashes, failures>>

Finalize(t) ==
  /\ t \in ledger /\ t.state = "processed"
  /\ \/ /\ Valid(t.step) /\ account' = Applied(t.step)
        /\ ledger' = (ledger \ {t}) \cup {[t EXCEPT !.state = "finalized"]}
        /\ UNCHANGED failures
     \/ /\ failures < MaxFailures \/ ~Valid(t.step)
        /\ ledger' = (ledger \ {t}) \cup {[t EXCEPT !.state = "failed"]}
        /\ failures' = IF Valid(t.step) THEN failures + 1 ELSE failures
        /\ UNCHANGED account
  /\ UNCHANGED <<lock, disk, con, page, height, crashes>>

Tick ==
  /\ height < MaxHeight /\ height' = height + 1
  /\ UNCHANGED <<lock, disk, con, page, ledger, account, crashes, failures>>

Next ==
  \/ \E c \in Consoles :
       \/ Start(c) \/ Crash(c) \/ Close(c)
       \/ \E op \in {"status", "prepare", "recover", "submit", "rebroadcast"} :
            Request(c, op)
       \/ ReadStatuses(c) \/ RpcFails(c) \/ RefreshPending(c) \/ Status(c)
       \/ Prepare(c) \/ Submit(c) \/ Rebroadcast(c) \/ Broadcast(c)
  \/ RemoveStaleLock \/ SignTransactions \/ Cancel \/ Tick
  \/ \E t \in ledger : Process(t) \/ Finalize(t)

Spec == Init /\ [][Next]_vars

(* ------------------------------ properties ----------------------------- *)

TypeOK ==
  /\ lock \in Consoles \cup {None} /\ height \in 0..MaxHeight
  /\ \A e \in disk : e.state \in {"pending", "finalized", "failed", "expired"}
  /\ \A t \in ledger : t.state \in {"sent", "processed", "finalized", "failed"}

(* "Fsync the ENTIRE batch before its first broadcast": whatever crashes,  *)
(* every transaction the network has seen is in the journal on disk.       *)
SentIsJournaled ==
  \A t \in ledger : \E e \in disk : e.step = t.step /\ e.at = t.at

(* What the wallet can have paid never exceeds the approved total, over    *)
(* failures, expiries, retries and restarts.                               *)
WithinBudget ==
  SumFunction([t \in ledger |-> IF t.state = "failed" THEN FeeCeiling
                                ELSE Reserve(t.step)]) <= Budget

(* While a transaction of one approval can still land, none of another     *)
(* approval has been sent.                                                 *)
OneApprovalInFlight ==
  \A t, u \in ledger :
    /\ t.state \in {"sent", "processed"} /\ u.state \in {"sent", "processed"}
    /\ height <= t.at + Window /\ height <= u.at + Window
    => t.at = u.at

(* The program that is deployed holds every chunk of the artifact.         *)
DeployedWhole == Complete => account.program = Chunks
=============================================================================
