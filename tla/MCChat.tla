------------------------------- MODULE MCChat -------------------------------
(* Instances of Chat for TLC. *)
EXTENDS Chat, TLC

CONSTANTS u1, u2, s1, s2, t1, t2, t3, o1, o2

Symmetry == Permutations(Sessions) \cup Permutations(Tasks) \cup Permutations(Options)

\* The room holds no poll or list, and none is about to appear.
TextOnly ==
  /\ Of(Contents \ {"text"}) = {}
  /\ \A s \in Sessions :
       session[s] # None /\ session[s].say # None => session[s].say.kind = "text"

\* Handlers overlap, and somebody reads ahead, only in rooms without polls and
\* lists, and not both in one room: nothing is claimed of polls, lists and marks
\* once handlers overlapped, and polls and lists ask nobody what was read.
SmallOverlaps ==
  /\ overlapped => TextOnly /\ ahead = {}
  /\ ahead # {} => TextOnly
=============================================================================
