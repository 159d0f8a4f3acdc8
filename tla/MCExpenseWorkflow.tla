------------------------- MODULE MCExpenseWorkflow -------------------------
(* Instances of ExpenseWorkflow for TLC. *)
EXTENDS ExpenseWorkflow, TLC

CONSTANTS shirin, mod, admin, e1, s1, s2

\* Handlers are interchangeable: no action or property names a session.
SessionSymmetry == Permutations(Sessions)
=============================================================================
