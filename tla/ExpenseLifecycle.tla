-------------------------- MODULE ExpenseLifecycle --------------------------
(***************************************************************************)
(* What the expenses service promises of a request, whoever handles it:    *)
(* which status may follow which, that a request decided for good stays    *)
(* so, that a deleted one does not come back, and that a payment made by   *)
(* hand follows an approval and, taken back, leads to it again.            *)
(***************************************************************************)
CONSTANT Expenses

VARIABLES
  status,   \* the status of each request, "none" or "deleted"
  payment   \* how a paid request was paid: "hand", "auto", or "none"

vars == <<status, payment>>

\* What may follow a status besides a payment and the end of one.
After ==
  [none              |-> {"draft", "approved"},
   draft             |-> {"pending_approval", "approved", "withdrawn"},
   pending_approval  |-> {"approved", "rejected", "revision_required", "withdrawn"},
   revision_required |-> {"pending_approval", "approved", "withdrawn"},
   approved          |-> {"pending_approval", "not_reimbursable", "withdrawn"},
   not_reimbursable  |-> {"closed", "withdrawn"},
   rejected          |-> {},
   withdrawn         |-> {},
   closed            |-> {},
   deleted           |-> {}]

Init ==
  /\ status = [e \in Expenses |-> "none"]
  /\ payment = [e \in Expenses |-> "none"]

Moves(e) ==
  /\ status[e] # "paid"
  /\ status'[e] \in After[status[e]]
  /\ payment'[e] = "none"

\* Paid by a person after an approval, or by the program from any open status.
IsPaid(e) ==
  /\ status'[e] = "paid"
  /\ \/ status[e] = "approved" /\ payment'[e] \in {"hand", "auto"}
     \/ /\ status[e] \in {"draft", "pending_approval", "revision_required"}
        /\ payment'[e] = "auto"

\* A payment is closed or taken back; only one that was made by the program, or
\* by the author, leads back to the queue.
EndsPayment(e) ==
  /\ status[e] = "paid"
  /\ \/ status'[e] \in {"closed", "approved"}
     \/ status'[e] = "pending_approval" /\ payment[e] = "auto"
  /\ payment'[e] = "none"

IsDeleted(e) ==
  /\ status[e] \notin {"none", "deleted"}
  /\ status'[e] = "deleted" /\ payment'[e] = "none"

Stays(e) == status'[e] = status[e] /\ payment'[e] = payment[e]

\* One commit may change several requests.
Next ==
  /\ \A e \in Expenses :
       Stays(e) \/ Moves(e) \/ IsPaid(e) \/ EndsPayment(e) \/ IsDeleted(e)
  /\ status' \in [Expenses -> DOMAIN After \cup {"paid"}]
  /\ payment' \in [Expenses -> {"none", "hand", "auto"}]

Spec == Init /\ [][Next]_vars
=============================================================================
