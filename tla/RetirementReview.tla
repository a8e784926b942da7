-------------------------- MODULE RetirementReview --------------------------
(* Reviewing an unused deployment for closure: the inspection reads the    *)
(* finalized chain in several calls while the escrow is used and paused    *)
(* by others.  Its candidate must never have held a creator's rights.      *)
EXTENDS Naturals, FiniteSets

CONSTANTS Pools, MaxSlot           \* bound

VARIABLES escrow,       \* program accounts: control, allocations, artifact
          review,       \* inspectUnusedDeployment in progress
          used,         \* an allocation has existed
          slot

vars == <<escrow, review, used, slot>>

Genuine == [artifact |-> "reviewed", deployed |-> 0]

(* resumed: the escrow left its pause after the last scan (for the         *)
(* property).                                                              *)
NoReview == [pc |-> "start", resumed |-> FALSE]

Init ==
  /\ escrow = [allocations |-> {}, paused |-> FALSE, code |-> Genuine]
  /\ review = NoReview /\ used = FALSE /\ slot = 0

(* ----------------------------- the deployment -------------------------- *)

InitializeAllocation(p) ==
  /\ ~escrow.paused /\ p \notin escrow.allocations
  /\ escrow.code.artifact = "reviewed"
  /\ escrow' = [escrow EXCEPT !.allocations = @ \cup {p}]
  /\ used' = TRUE /\ UNCHANGED <<review, slot>>

SetPaused(b) ==
  /\ escrow.paused # b /\ escrow' = [escrow EXCEPT !.paused = b]
  /\ review' = [review EXCEPT !.resumed = @ \/ (review.pc = "rescanned" /\ ~b)]
  /\ UNCHANGED <<used, slot>>

(* The upgrade authority may replace the program, and what replaces it may *)
(* close accounts; redeploying the reviewed bytes keeps a later slot.  It  *)
(* must not do so while a review runs.                                     *)
Upgrade(artifact, kept) ==
  /\ review.pc = "start" /\ slot < MaxSlot
  /\ slot' = slot + 1
  /\ escrow' = [escrow EXCEPT !.code = [artifact |-> artifact, deployed |-> slot'],
                              !.allocations = kept]
  /\ UNCHANGED <<review, used>>

(* ------------------------------- the review ---------------------------- *)

Reject == review' = [review EXCEPT !.pc = "rejected"]

(* inspectRetirement: the program is the expected one and the first scan   *)
(* shows no allocation.                                                    *)
InspectRetirement ==
  /\ review.pc = "start"
  /\ \/ escrow.allocations = {} /\ review' = [review EXCEPT !.pc = "scanned"]
     \/ Reject                                  \* a blocker or an RPC failure
  /\ UNCHANGED <<escrow, used, slot>>

OriginalSlot(code) == code.deployed = 0

CheckArtifact ==
  /\ review.pc = "scanned"
  /\ IF escrow.code.artifact = "reviewed" /\ OriginalSlot(escrow.code)
     THEN review' = [review EXCEPT !.pc = "genuine"] ELSE Reject
  /\ UNCHANGED <<escrow, used, slot>>

SecondScan == escrow.allocations

ScanAgain ==
  /\ review.pc = "genuine"
  /\ IF SecondScan = {} /\ escrow.paused
     THEN review' = [review EXCEPT !.pc = "rescanned"] ELSE Reject
  /\ UNCHANGED <<escrow, used, slot>>

(* The token accounts of the program, its config and its control are read  *)
(* one after the other; what is there, or a failing read, rejects it.  The *)
(* escrow may resume and be used meanwhile.                                *)
TokenScans ==
  /\ review.pc = "rescanned"
  /\ review' = [review EXCEPT !.pc = "candidate"] \/ Reject
  /\ UNCHANGED <<escrow, used, slot>>

(* The report is read, and a later review starts from the beginning.       *)
ReviewAgain ==
  /\ review.pc \in {"candidate", "rejected"} /\ review' = NoReview
  /\ UNCHANGED <<escrow, used, slot>>

Next ==
  \/ \E p \in Pools : InitializeAllocation(p)
  \/ \E b \in BOOLEAN : SetPaused(b)
  \/ \E artifact \in {"reviewed", "other"}, kept \in SUBSET escrow.allocations :
       Upgrade(artifact, kept)
  \/ InspectRetirement \/ CheckArtifact \/ ScanAgain \/ TokenScans \/ ReviewAgain

Spec == Init /\ [][Next]_vars

TypeOK ==
  /\ escrow.allocations \subseteq Pools /\ escrow.paused \in BOOLEAN
  /\ escrow.code.deployed \in 0..MaxSlot /\ slot \in 0..MaxSlot
  /\ review.pc \in {"start", "scanned", "genuine", "rescanned", "candidate", "rejected"}

(* "A business-abort review for a genuinely unused deployment": unless the *)
(* escrow resumed after the last scan, no allocation has ever existed when *)
(* it becomes a candidate, not even one closed by code that was replaced   *)
(* by the reviewed one again.                                              *)
CandidateIsUnused ==
  review.pc # "candidate" /\ review'.pc = "candidate" => ~used \/ review.resumed

=============================================================================
