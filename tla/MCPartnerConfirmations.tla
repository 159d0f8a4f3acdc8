----------------------- MODULE MCPartnerConfirmations -----------------------
(* Instances of PartnerConfirmations for TLC. *)
EXTENDS PartnerConfirmations

CONSTANTS r1, r2, p1, p2, s1, s2

OneTeam == {{p1, p2}}
ShrinkingTeams == {{p1, p2}, {p1}}
=============================================================================
