---------------------------- MODULE MCFeeClaims -----------------------------
(* FeeClaims for TLC: two challenges under one verifier key, or a single   *)
(* one whose requests and retries a rotation of the key comes between.     *)
EXTENDS FeeClaims, FiniteSets, TLC

CONSTANTS c1, c2, x1, x2, a1, a2, p1, p2, r1, r2

RotationBound ==
  control'.epoch > 1 => Cardinality({c \in Challenges : challenge'[c] # None}) <= 1

MCNext == Next /\ RotationBound
MCSpec == Init /\ [][MCNext]_vars

MCRequests == Permutations({r1, r2})
MCSymmetry == MCRequests \cup Permutations({c1, c2}) \cup Permutations({p1, p2})
=============================================================================
