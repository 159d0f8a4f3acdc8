-------------------------- MODULE MCLeaveRequests --------------------------
(* Instances of LeaveRequests for TLC. *)
EXTENDS LeaveRequests, TLC

CONSTANTS ann, par, boss, r1, r2, r3, x1, s1, s2

\* No action or property tells handlers or request ids apart.
Interchangeable == Permutations(Sessions) \cup Permutations(Requests)
=============================================================================
