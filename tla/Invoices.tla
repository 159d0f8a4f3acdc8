------------------------------ MODULE Invoices ------------------------------
(***************************************************************************)
(* Invoices of the time tracking service: which time entries they bill,    *)
(* what has been paid on them, and the status shown for them.              *)
(*                                                                         *)
(* As in the other services a handler loads the invoice without a lock,    *)
(* plans its change and commits; the ORM writes the columns that differ.   *)
(* Payments and lines are rows of their own: received[i] is the sum of the *)
(* payment rows of i, lines[i] the entries its lines bill.                 *)
(*                                                                         *)
(* A total is any amount: rates, taxes, discounts and manual lines can     *)
(* bring it anywhere, so whoever recalculates it chooses it.  The due date  *)
(* is any date, too: it only decides whether an invoice shows as overdue,   *)
(* so a handler that asks may find it passed or not.                       *)
(***************************************************************************)
EXTENDS Integers, FiniteSets

CONSTANTS
  InvoiceIds,
  Billables,   \* time entries and expenses that can be billed
  Notes,       \* registry notes in use as statuses
  MaxTotal,    \* bound on the total of an invoice
  MaxReceived, \* bound on the money paid on an invoice
  Sessions,
  None

AllNotes == {"issued", "send_to_olga", "client_review", "awaiting_client"}

Settled == {"partial_paid", "paid"}
Statuses == {"draft", "sent", "viewed", "canceled"} \cup Settled \cup AllNotes

ASSUME InvoiceAssumption ==
  /\ Notes \subseteq AllNotes
  /\ MaxTotal \in Nat /\ MaxReceived \in Nat
  /\ None \notin InvoiceIds

VARIABLES
  inv,       \* the invoices table
  lines,     \* what the line items of an invoice bill
  received,  \* sum of its payments
  gone,      \* ids of deleted invoices
  session    \* what each running handler is about to commit

vars == <<inv, lines, received, gone, session>>

\* sent, viewed: sent_at and viewed_at are set; doc: a payment document is attached.
Invoice == [status: Statuses, total: 0..MaxTotal, paid: 0..MaxReceived,
            sent: BOOLEAN, viewed: BOOLEAN, doc: BOOLEAN]

\* pay: payment to insert; new: lines to write, if relines; fresh: nobody has
\* replaced the lines since the old ones were deleted; cancels: empty invoices
\* to cancel along; force: write the status even if it is unchanged.
Plan == [op: {"create", "write", "delete"}, id: InvoiceIds \cup {None},
         snap: Invoice, tgt: Invoice, force: BOOLEAN, pay: 0..MaxReceived,
         relines: BOOLEAN, new: SUBSET Billables, fresh: BOOLEAN,
         cancels: SUBSET InvoiceIds]

ASSUME NoneAssumption == None \notin Invoice /\ None \notin Plan

TypeOK ==
  /\ inv \in [InvoiceIds -> Invoice \cup {None}]
  /\ lines \in [InvoiceIds -> SUBSET Billables]
  /\ received \in [InvoiceIds -> 0..MaxReceived]
  /\ gone \subseteq InvoiceIds
  /\ session \in [Sessions -> Plan \cup {None}]

Init ==
  /\ inv = [i \in InvoiceIds |-> None]
  /\ lines = [i \in InvoiceIds |-> {}]
  /\ received = [i \in InvoiceIds |-> 0]
  /\ gone = {}
  /\ session = [s \in Sessions |-> None]

-----------------------------------------------------------------------------
(* What an invoice row says *)

\* Canceled and zero-total invoices do not hold their lines.
Occupies(i) == inv[i] # None /\ inv[i].status # "canceled" /\ inv[i].total > 0

\* Lines may only name entries that no other invoice bills.
Billable(L, i) == \A e \in L : ~\E j \in InvoiceIds \ {i} : Occupies(j) /\ e \in lines[j]

\* _sync_payment_status
Synced(l) ==
  IF l.status \in {"canceled", "draft"} THEN l
  ELSE IF l.total > 0 /\ l.total <= l.paid THEN [l EXCEPT !.status = "paid"]
  ELSE IF l.paid > 0 THEN [l EXCEPT !.status = "partial_paid"]
  ELSE l

Reconciled(i) == Synced([inv[i] EXCEPT !.paid = received[i]])

Effective(l, late) ==
  LET base == IF l.paid > 0 /\ l.paid < l.total THEN "partial_paid" ELSE l.status IN
  IF l.status \in {"canceled"} \cup AllNotes THEN l.status
  ELSE IF l.status = "paid" \/ (l.total > 0 /\ l.total <= l.paid) THEN "paid"
  ELSE IF base \in {"sent", "viewed", "partial_paid"} /\ late /\ l.paid < l.total
  THEN "overdue" ELSE base

\* Mutant: the marks come before the payments.
BeforeCancelMarks(l) ==
  IF l.viewed THEN "viewed"
  ELSE IF l.sent THEN "sent"
  ELSE IF l.paid > 0 THEN "partial_paid" ELSE "draft"

\* _status_before_cancel
BeforeCancel(l) ==
  IF l.total > 0 /\ l.total <= l.paid THEN "paid"
  ELSE IF l.paid > 0 THEN "partial_paid"
  ELSE IF l.viewed THEN "viewed"
  ELSE IF l.sent THEN "sent" ELSE "draft"

-----------------------------------------------------------------------------
(* Planning and committing *)

Blank(id, tgt) ==
  [op |-> "write", id |-> id, snap |-> tgt, tgt |-> tgt, force |-> FALSE, pay |-> 0,
   relines |-> FALSE, new |-> {}, fresh |-> TRUE, cancels |-> {}]

Put(s, p) ==
  /\ session' = [session EXCEPT ![s] = p]
  /\ UNCHANGED <<inv, lines, received, gone>>

Write(s, i, tgt) == Put(s, [Blank(i, tgt) EXCEPT !.snap = inv[i]])

WriteStatus(s, i, tgt) == Put(s, [Blank(i, tgt) EXCEPT !.snap = inv[i], !.force = TRUE])

Loadable(s, i) == session[s] = None /\ inv[i] # None

Changed(cur, snap, tgt) == IF tgt = snap THEN cur ELSE tgt

Merge(cur, p) ==
  [cur EXCEPT !.status = IF p.force THEN p.tgt.status ELSE Changed(@, p.snap.status, p.tgt.status),
              !.total = Changed(@, p.snap.total, p.tgt.total),
              !.paid = IF p.pay > 0 THEN p.tgt.paid ELSE Changed(@, p.snap.paid, p.tgt.paid),
              !.sent = Changed(@, p.snap.sent, p.tgt.sent),
              !.viewed = Changed(@, p.snap.viewed, p.tgt.viewed),
              !.doc = Changed(@, p.snap.doc, p.tgt.doc)]

CommitCreate(s) ==
  LET p == session[s] IN
  /\ p # None /\ p.op = "create"
  /\ \A j \in p.cancels : inv[j] # None
  /\ \E i \in InvoiceIds :
       /\ inv[i] = None /\ i \notin gone
       /\ inv' = [j \in InvoiceIds |->
            IF j = i THEN p.tgt
            ELSE IF j \in p.cancels THEN [inv[j] EXCEPT !.status = "canceled"] ELSE inv[j]]
       /\ lines' = [lines EXCEPT ![i] = p.new]
  /\ session' = [session EXCEPT ![s] = None]
  /\ UNCHANGED <<received, gone>>

\* Lines another handler wrote after this one deleted the old ones stay.
CommitWrite(s) ==
  LET p == session[s] IN
  /\ p # None /\ p.op = "write"
  /\ inv[p.id] # None
  /\ received[p.id] + p.pay <= MaxReceived
  /\ inv' = [inv EXCEPT ![p.id] = Merge(@, p)]
  /\ received' = [received EXCEPT ![p.id] = @ + p.pay]
  /\ lines' = [lines EXCEPT ![p.id] =
       IF p.relines THEN p.new \cup (IF p.fresh THEN {} ELSE @) ELSE @]
  /\ session' = [t \in Sessions |->
       IF t = s THEN None
       ELSE IF session[t] # None /\ session[t].id = p.id
            /\ p.relines /\ session[t].relines
       THEN [session[t] EXCEPT !.fresh = FALSE] ELSE session[t]]
  /\ UNCHANGED gone

\* The lines and the payments go with the invoice.
CommitDelete(s) ==
  LET p == session[s] IN
  /\ p # None /\ p.op = "delete"
  /\ inv[p.id] # None
  /\ inv' = [inv EXCEPT ![p.id] = None]
  /\ lines' = [lines EXCEPT ![p.id] = {}]
  /\ received' = [received EXCEPT ![p.id] = 0]
  /\ gone' = gone \cup {p.id}
  /\ session' = [session EXCEPT ![s] = None]

Abort(s) ==
  /\ session[s] # None
  /\ session' = [session EXCEPT ![s] = None]
  /\ UNCHANGED <<inv, lines, received, gone>>

-----------------------------------------------------------------------------
(* The handlers, each up to its commit *)

\* An invoice for a period the partners confirm also cancels the empty, unpaid
\* invoices of that period.
Create(s, L, total, cancels) ==
  LET l == [status |-> "draft", total |-> total, paid |-> 0, sent |-> FALSE,
            viewed |-> FALSE, doc |-> FALSE]
  IN
  /\ session[s] = None
  /\ \E i \in InvoiceIds : inv[i] = None /\ i \notin gone
  /\ \A j \in cancels : inv[j] # None /\ inv[j].status # "canceled"
                          /\ inv[j].total = 0 /\ inv[j].paid = 0
  /\ Billable(L, None)
  /\ Put(s, [Blank(None, l) EXCEPT !.op = "create", !.relines = TRUE, !.new = L,
                                   !.cancels = cancels])

\* Only a draft is edited.  The lines are replaced, or only the total changes
\* (tax, discount, fixed fee).
Patch(s, i, total) ==
  /\ Loadable(s, i)
  /\ inv[i].status = "draft"
  /\ Write(s, i, [inv[i] EXCEPT !.total = total, !.paid = received[i]])

\* Mutant: what other invoices bill is not looked at.
PatchLinesUnchecked(s, i, L, total) ==
  /\ Loadable(s, i)
  /\ inv[i].status = "draft"
  /\ LET tgt == [inv[i] EXCEPT !.total = total, !.paid = received[i]] IN
     Put(s, [Blank(i, tgt) EXCEPT !.snap = inv[i], !.relines = TRUE, !.new = L])

PatchLines(s, i, L, total) ==
  /\ Loadable(s, i)
  /\ inv[i].status = "draft"
  /\ Billable(L, i)
  /\ LET tgt == [inv[i] EXCEPT !.total = total, !.paid = received[i]] IN
     Put(s, [Blank(i, tgt) EXCEPT !.snap = inv[i], !.relines = TRUE, !.new = L])

SentOnce(l) == [l EXCEPT !.status = IF @ = "draft" THEN "sent" ELSE @, !.sent = TRUE]

Send(s, i) ==
  /\ Loadable(s, i)
  /\ inv[i].status # "canceled"
  /\ Write(s, i, SentOnce(inv[i]))

Unsent(l) == [l EXCEPT !.status = "draft", !.sent = FALSE, !.viewed = FALSE]

\* Mutant: what was paid is not looked at.
UnsendPaid(s, i) ==
  /\ Loadable(s, i)
  /\ inv[i].status \in {"sent", "viewed", "partial_paid"}
  /\ WriteStatus(s, i, Unsent(inv[i]))

Unsend(s, i) ==
  /\ Loadable(s, i)
  /\ inv[i].status \in {"sent", "viewed"}
  /\ inv[i].paid = 0
  /\ WriteStatus(s, i, Unsent(inv[i]))

Viewed(l) == [l EXCEPT !.status = IF @ = "sent" THEN "viewed" ELSE @, !.viewed = TRUE]

MarkViewed(s, i) ==
  /\ Loadable(s, i)
  /\ inv[i].status \notin {"canceled", "draft"}
  /\ Write(s, i, Viewed(inv[i]))

\* Mutant: the payment replaces what was recorded before.
PaymentReplaces(s, i, l, amount) ==
  LET tgt == Synced([l EXCEPT !.paid = amount]) IN
  /\ received[i] + amount <= MaxReceived
  /\ Put(s, [Blank(i, tgt) EXCEPT !.snap = inv[i], !.force = TRUE, !.pay = amount])

\* Mutant: the new payment is counted twice.
PaymentTwice(s, i, l, amount) ==
  LET tgt == Synced([l EXCEPT !.paid = received[i] + amount + amount]) IN
  /\ received[i] + amount <= MaxReceived
  /\ Put(s, [Blank(i, tgt) EXCEPT !.snap = inv[i], !.force = TRUE, !.pay = amount])

\* A payment of amount on the invoice i, whose row reads l.
Payment(s, i, l, amount) ==
  LET tgt == Synced([l EXCEPT !.paid = received[i] + amount]) IN
  /\ received[i] + amount <= MaxReceived
  /\ Put(s, [Blank(i, tgt) EXCEPT !.snap = inv[i], !.force = TRUE, !.pay = amount])

\* The amount is any, also more than what is left to pay.
RegisterPayment(s, i, amount) ==
  /\ Loadable(s, i)
  /\ inv[i].status \notin {"canceled", "draft"}
  /\ amount > 0
  /\ Payment(s, i, inv[i], amount)

\* The document that confirms the payment of a fully paid invoice.
Confirm(s, i) ==
  LET l == Reconciled(i) IN
  /\ Loadable(s, i)
  /\ inv[i].status \notin {"canceled", "draft"}
  /\ \E late \in BOOLEAN : Effective(l, late) = "paid"
  /\ Write(s, i, [l EXCEPT !.doc = TRUE])

\* Looking at an invoice stores what its payments say.
Get(s, i) ==
  /\ Loadable(s, i)
  /\ Write(s, i, Reconciled(i))

Cancel(s, i) ==
  /\ Loadable(s, i)
  /\ Write(s, i, [inv[i] EXCEPT !.status = "canceled"])

Restored(l) == [l EXCEPT !.status = BeforeCancel(l)]

\* The invoice takes its lines back; nobody checks whether they were billed
\* again meanwhile.
Restore(s, i) ==
  /\ Loadable(s, i)
  /\ inv[i].status = "canceled"
  /\ WriteStatus(s, i, Restored(inv[i]))

Delete(s, i) ==
  /\ Loadable(s, i)
  /\ inv[i].status \in {"draft", "canceled"}
  /\ Put(s, [Blank(i, inv[i]) EXCEPT !.op = "delete"])

\* What is left of the dispatch once the invoice is known to be alive and sent.
RegistryMoney(s, i, key, l) ==
  LET left == l.total - l.paid IN
  \/ /\ key = "paid" /\ left <= 0
     /\ Write(s, i, l)
  \/ /\ key = "paid" /\ left > 0
     /\ l.total > received[i]
     /\ Payment(s, i, l, l.total - received[i])
  \/ /\ key = "partial_paid" /\ left > 0 /\ l.paid > 0
     /\ WriteStatus(s, i, [l EXCEPT !.status = "partial_paid"])
  \/ /\ key = "overdue" /\ left > 0
     /\ WriteStatus(s, i, [l EXCEPT !.status = IF @ \in {"sent", "viewed", "partial_paid"}
                                         THEN @ ELSE "sent"])
  \/ /\ key = "sent" /\ l.paid = 0
     /\ WriteStatus(s, i, [l EXCEPT !.status = "sent", !.sent = TRUE, !.viewed = FALSE])
  \/ /\ key = "viewed"
     /\ Write(s, i, Viewed(l))

\* apply_registry_status: a status chosen in the registry of invoices.
Registry(s, i, key, late) ==
  LET row == inv[i]
      l == IF row.status = "canceled" /\ key # "canceled" THEN Restored(row) ELSE row
  IN
  /\ Loadable(s, i)
  /\ Effective(row, late) # key
  /\ \/ /\ Effective(l, late) = key
        /\ WriteStatus(s, i, l)
     \/ /\ Effective(l, late) # key
        /\ \/ /\ key \in Notes
              /\ WriteStatus(s, i, [l EXCEPT !.status = key])
           \/ /\ key = "draft" /\ l.status \in AllNotes
              /\ WriteStatus(s, i, [l EXCEPT !.status = "draft"])
           \/ /\ key = "draft" /\ l.status \in {"sent", "viewed"} /\ l.paid = 0
              /\ WriteStatus(s, i, Unsent(l))
           \/ /\ key = "canceled"
              /\ Write(s, i, [l EXCEPT !.status = "canceled"])
           \/ /\ key \notin {"draft", "canceled"} \cup Notes
              /\ RegistryMoney(s, i, key, IF l.status = "draft" THEN SentOnce(l) ELSE l)

-----------------------------------------------------------------------------

Keys == {"draft", "sent", "viewed", "partial_paid", "paid", "overdue", "canceled"} \cup Notes

Handler(s) ==
  \/ \E L \in SUBSET Billables, total \in 0..MaxTotal, cancels \in SUBSET InvoiceIds :
       Create(s, L, total, cancels)
  \/ \E i \in InvoiceIds :
       \/ \E total \in 0..MaxTotal :
            \/ Patch(s, i, total)
            \/ \E L \in SUBSET Billables : PatchLines(s, i, L, total)
       \/ Send(s, i) \/ Unsend(s, i) \/ MarkViewed(s, i)
       \/ \E amount \in 1..MaxReceived : RegisterPayment(s, i, amount)
       \/ Confirm(s, i) \/ Get(s, i)
       \/ Cancel(s, i) \/ Restore(s, i) \/ Delete(s, i)
       \/ \E key \in Keys, late \in BOOLEAN : Registry(s, i, key, late)

Next ==
  \E s \in Sessions :
    Handler(s) \/ CommitCreate(s) \/ CommitWrite(s) \/ CommitDelete(s) \/ Abort(s)

Spec == Init /\ [][Next]_vars

-----------------------------------------------------------------------------
(* Properties that hold however handlers overlap *)

\* Money on an invoice is never overstated: what the invoice says was paid is
\* covered by its payments, even when payments overlap each other and the
\* page that reconciles them.
PaidIsCovered ==
  \A i \in InvoiceIds : inv[i] # None => inv[i].paid <= received[i]

\* No invoice is called paid, in part or in full, and none has a payment
\* document, unless there is a payment.
MoneyBehindStatus ==
  \A i \in InvoiceIds :
    inv[i] # None /\ (inv[i].status \in Settled \/ inv[i].doc) => received[i] > 0

\* Whatever overlaps, an invoice claims no money that was not paid: neither in its
\* amount nor by its status or payment document.
MoneyIsBacked == PaidIsCovered /\ MoneyBehindStatus

\* What a plan promises until it is committed.
PlanOK(p) ==
  /\ p.op = "create" => p.tgt.paid = 0 /\ p.tgt.status = "draft" /\ ~p.tgt.doc
  /\ p.op # "create" =>
       /\ p.id \in InvoiceIds
       /\ inv[p.id] # None \/ p.id \in gone
       /\ inv[p.id] # None =>
            /\ p.tgt.paid <= received[p.id] + p.pay
            /\ p.tgt.status \in Settled \/ p.tgt.doc => received[p.id] + p.pay > 0

\* The inductive invariant behind the properties above.
IInv ==
  /\ TypeOK
  /\ PaidIsCovered
  /\ MoneyBehindStatus
  /\ \A i \in InvoiceIds : inv[i] = None => received[i] = 0
  /\ \A s \in Sessions : session[s] # None => PlanOK(session[s])

-----------------------------------------------------------------------------
(* Properties of handlers that do not overlap (one session) *)

\* Without overlaps an invoice knows exactly what was paid, and its status
\* agrees with the money: paid means the whole total, partly paid means less.
StatusMatchesMoney ==
  \A i \in InvoiceIds : inv[i] # None =>
    /\ inv[i].paid = received[i]
    /\ inv[i].status = "paid" => inv[i].total > 0 /\ received[i] >= inv[i].total
    /\ inv[i].status = "partial_paid" =>
         received[i] > 0 /\ (inv[i].total > 0 => received[i] < inv[i].total)

\* An entry is billed by one invoice at most.
BilledOnce ==
  \A i, j \in InvoiceIds :
    i # j /\ Occupies(i) /\ Occupies(j) => lines[i] \cap lines[j] = {}

\* Writing lines never bills an entry twice.  Only an invoice that had let go
\* of its lines (canceled, or with the total zero) can do so, when it takes the
\* same lines back.
BilledTwiceOnlyByReturn ==
  [][BilledOnce /\ ~BilledOnce' =>
       \E i \in InvoiceIds :
         inv[i] # None /\ ~Occupies(i) /\ Occupies(i)' /\ lines'[i] = lines[i]]_vars

\* An invoice with money on it does not become a draft, which could be edited
\* or deleted, except out of a registry note.
ReturnedUnpaid ==
  [][\A i \in InvoiceIds :
       inv[i] # None /\ inv'[i] # None /\ inv'[i].status = "draft"
         /\ inv[i].status \notin {"draft"} \cup AllNotes
       => received'[i] = 0]_vars

\* A fully paid invoice stays so until it is canceled or noted, and canceling
\* it by mistake loses nothing: restoring gives "paid" again.
PaidIsKept ==
  [][\A i \in InvoiceIds : inv[i] # None /\ inv'[i] # None =>
       /\ inv[i].status = "paid" =>
            inv'[i].status \in {"paid", "canceled"} \cup AllNotes
       /\ inv[i].status = "canceled" /\ inv'[i].status \notin {"canceled"} \cup AllNotes
            /\ inv[i].total > 0 /\ received[i] >= inv[i].total
            => inv'[i].status = "paid"]_vars

-----------------------------------------------------------------------------
(* What the source says and the code does not keep *)

\* BilledOnce, which the handlers that write lines insist on ("the time entry
\* is already in the invoice ..."), is not kept by Restore nor by a draft whose
\* total returns from zero.

\* "Return invoice to draft (no payments allowed)" (unsend_invoice): a draft
\* has no payments.
DraftUnpaid ==
  \A i \in InvoiceIds : inv[i] # None /\ inv[i].status = "draft" => received[i] = 0

\* "Persist a status chosen on the system invoice registry"
\* (apply_registry_status): only another choice ends a registry note.
NotePersists ==
  [][\A s \in Sessions, i \in InvoiceIds :
       inv[i] # None /\ inv'[i] # None /\ inv[i].status \in AllNotes
         /\ session[s] # None /\ session[s].op = "write"
         /\ session[s].tgt = Reconciled(i)
       => inv'[i].status = inv[i].status]_vars
=============================================================================
