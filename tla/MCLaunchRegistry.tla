-------------------------- MODULE MCLaunchRegistry --------------------------
(* Instances of LaunchRegistry for TLC. *)
EXTENDS LaunchRegistry, TLC

CONSTANTS l1, l2, t1, c1, ticker, r1, r2

(* Every launch asks for the same ticker. *)
MCTickerOf == [l \in Launches |-> ticker]

MCRequests == Permutations({r1, r2})
MCSymmetry == MCRequests \cup Permutations({l1, l2})
=============================================================================
