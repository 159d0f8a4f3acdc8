-------------------------- MODULE ExpenseWorkflow --------------------------
(***************************************************************************)
(* The approval workflow of expense requests (the expenses service).       *)
(*                                                                         *)
(* A handler loads the request, checks it, may await other services, and   *)
(* commits.  It takes no row lock, so two handlers can overlap: an action  *)
(* of this module is what a handler decides on the row it loaded, and      *)
(* leaves the planned change in the handler's session.  Stamp adds the     *)
(* history row to the session, which is when its changed_at is taken, and  *)
(* CommitWrite writes all of it.  At commit the ORM writes the columns     *)
(* whose value the handler changed and nothing else, which is the          *)
(* three-way Merge below.                                                  *)
(***************************************************************************)
EXTENDS Integers, Sequences

CONSTANTS
  Expenses,        \* request ids; KL numbers are never reused
  Users,
  Moderators,      \* users whose role is in ROLES_MODERATE
  Admins,          \* users whose role is in ROLES_ADMIN_EDIT
  CompanyActors,   \* users who may act on company expenses
  Approvers,       \* users an edit may name as the request's approver
  AutoPaid,        \* users whose display name makes is_auto_paid_author true
  Sessions,        \* concurrent database sessions, one per running handler
  Types,           \* expense types in use
  SelfModeration,  \* the setting expense_allow_self_moderation
  EmailUser,       \* the actor id 0 recorded for a decision by e-mail link
  None,            \* NULL, and the absence of a row, an edit or an event
  MaxEvents,       \* bound on the length of a request's history
  MaxStamp         \* bound on the clock of a request's history

Statuses == {"draft", "pending_approval", "revision_required", "approved",
             "rejected", "paid", "closed", "not_reimbursable", "withdrawn"}

AllTypes == {"other", "client_expense", "partner_expense", "company_expense"}

Acts == {"created", "submitted", "approved", "rejected", "revision_required",
         "paid", "unpaid", "unapproved", "close", "mark_not_reimbursable",
         "withdrawn", "status_restored", "approved_via_email_link",
         "rejected_via_email_link"}

Row == [status: Statuses, type: AllTypes, reimbursable: BOOLEAN,
        author: Users, approver: Approvers \cup {None},
        approvedBy: Users \cup {None}, paidBy: Users \cup {None}]

\* A status-history row together with the audit action logged beside it;
\* "auto" is the comment that marks an automatic payment, "job" that the
\* sweep over open requests wrote it; "at" is changed_at, of which only the
\* order within a request counts, and 0 that the row is not stamped yet.
Event == [act: Acts, from: Statuses \cup {None}, to: Statuses,
          by: Users \cup {EmailUser}, auto: BOOLEAN, job: BOOLEAN, at: Nat]

Edit == [snap: Row, tgt: Row, ev: Event \cup {None}]

ASSUME UserAssumption ==
  /\ Moderators \subseteq Users
  /\ Admins \subseteq Moderators
  /\ CompanyActors \subseteq Users
  /\ Approvers \subseteq Users
  /\ AutoPaid \subseteq Users
  /\ EmailUser \notin Users

ASSUME TypesAssumption == Types \subseteq AllTypes /\ SelfModeration \in BOOLEAN

ASSUME NoneAssumption ==
  /\ None \notin Users
  /\ None \notin Statuses
  /\ None \notin Row
  /\ None \notin Edit
  /\ None \notin Event

ASSUME BoundAssumption == MaxEvents \in Nat /\ MaxStamp \in Nat

VARIABLES
  row,      \* the expense_requests table: a Row, or None
  hist,     \* status history of each request, in the order of the commits
  gone,     \* ids of deleted requests
  session   \* what each running handler is about to commit

vars == <<row, hist, gone, session>>

Idle == [op |-> "idle", edits |-> [e \in Expenses |-> None]]

TypeOK ==
  /\ row \in [Expenses -> Row \cup {None}]
  /\ hist \in [Expenses -> Seq(Event)]
  /\ gone \subseteq Expenses
  /\ session \in [Sessions -> [op: {"idle", "write", "delete"},
                               edits: [Expenses -> Edit \cup {None}]]]

Init ==
  /\ row = [e \in Expenses |-> None]
  /\ hist = [e \in Expenses |-> <<>>]
  /\ gone = {}
  /\ session = [s \in Sessions |-> Idle]

-----------------------------------------------------------------------------
(* Who may do what *)

MayActOn(u, type) == type = "company_expense" => u \in CompanyActors

\* Mutant: the check of one's own request is forgotten.
MayModerateOwn(u, r) == u \in Moderators /\ MayActOn(u, r.type)

MayModerate(u, r) ==
  /\ u \in Moderators
  /\ MayActOn(u, r.type)
  /\ SelfModeration \/ u # r.author

MayEdit(u, r) ==
  \/ u \in Admins
  \/ /\ u = r.author \/ u \in Moderators
     /\ r.status \in {"draft", "revision_required"}

MayDelete(u, r) ==
  \/ u \in Admins
  \/ u \in Moderators /\ r.status \notin {"paid", "closed"}
  \/ /\ u = r.author /\ u \notin Moderators
     /\ r.status \in {"draft", "revision_required", "pending_approval",
                      "withdrawn", "rejected"}

-----------------------------------------------------------------------------
(* What the history says about payments *)

PaidEvents(h) == {i \in DOMAIN h : h[i].to = "paid"}

\* The position of the payment stamped last, in a history that has one.
LatestPaid(h) ==
  CHOOSE i \in PaidEvents(h) : \A j \in PaidEvents(h) : h[j].at <= h[i].at

WasAutoPaid(r, h) ==
  \/ PaidEvents(h) # {} /\ h[LatestPaid(h)].auto
  \/ r.paidBy # None /\ r.paidBy = r.author

ReturnedFromPaid(h) ==
  \E i \in DOMAIN h : /\ h[i].from = "paid"
                      /\ h[i].to \in {"approved", "pending_approval"}

RestoreTarget(h) ==
  IF PaidEvents(h) # {} /\ h[LatestPaid(h)].from = "approved"
  THEN "approved" ELSE "pending_approval"

-----------------------------------------------------------------------------
(* Loading, staging and committing *)

Loadable(s, e) ==
  /\ session[s].op = "idle"
  /\ row[e] # None
  /\ Len(hist[e]) < MaxEvents

Ev(act, from, to, by) ==
  [act |-> act, from |-> from, to |-> to, by |-> by, auto |-> FALSE, job |-> FALSE,
   at |-> 0]

Stage(s, e, tgt, ev) ==
  /\ session' = [session EXCEPT ![s] =
       [op |-> "write",
        edits |-> [Idle.edits EXCEPT ![e] = [snap |-> row[e], tgt |-> tgt, ev |-> ev]]]]
  /\ UNCHANGED <<row, hist, gone>>

\* Mutant: the previous status is read after it was overwritten.
MoveLatePrev(s, e, tgt, act, by) == Stage(s, e, tgt, Ev(act, tgt.status, tgt.status, by))

\* A status change with its history row, the shape most handlers share.
Move(s, e, tgt, act, by) ==
  Stage(s, e, tgt, Ev(act, row[e].status, tgt.status, by))

AutoPay(r, u) ==
  [r EXCEPT !.status = "paid", !.paidBy = u,
            !.approvedBy = IF r.approvedBy = None THEN u ELSE r.approvedBy]

AutoEvent(from, u, job) ==
  [act |-> "paid", from |-> from, to |-> "paid", by |-> u, auto |-> TRUE, job |-> job,
   at |-> 0]

\* Mutant: the first writer of a column wins.
ChangedFirst(cur, snap, tgt) == IF cur = snap THEN tgt ELSE cur

Changed(cur, snap, tgt) == IF tgt = snap THEN cur ELSE tgt

Merge(cur, d) ==
  [status       |-> Changed(cur.status, d.snap.status, d.tgt.status),
   type         |-> Changed(cur.type, d.snap.type, d.tgt.type),
   reimbursable |-> Changed(cur.reimbursable, d.snap.reimbursable, d.tgt.reimbursable),
   author       |-> Changed(cur.author, d.snap.author, d.tgt.author),
   approver     |-> Changed(cur.approver, d.snap.approver, d.tgt.approver),
   approvedBy   |-> Changed(cur.approvedBy, d.snap.approvedBy, d.tgt.approvedBy),
   paidBy       |-> Changed(cur.paidBy, d.snap.paidBy, d.tgt.paidBy)]

Touched(s) == {e \in Expenses : session[s].edits[e] # None}

\* Session s plans or holds a history row for request e.
HasEvent(s, e) == e \in Touched(s) /\ session[s].edits[e].ev # None

\* The times on the history rows of a request, committed or in a session.
Stamps(e) ==
  {hist[e][i].at : i \in DOMAIN hist[e]}
    \cup {session[t].edits[e].ev.at : t \in {t \in Sessions : HasEvent(t, e)}}

\* add_status_history: the row joins the session and takes the clock's time,
\* after whatever the handler awaited since it loaded the request and before
\* whatever it awaits until it commits.
Stamp(s, e) ==
  /\ HasEvent(s, e) /\ session[s].edits[e].ev.at = 0
  /\ \E now \in 1..MaxStamp :
       /\ \A x \in Stamps(e) : x < now
       /\ now = 1 \/ now - 1 \in Stamps(e)
       /\ session' = [session EXCEPT ![s].edits[e].ev.at = now]
  /\ UNCHANGED <<row, hist, gone>>

\* The flush and commit at the end of a handler.  A row deleted meanwhile
\* makes the flush fail and the whole transaction roll back (see Abort).
CommitWrite(s) ==
  /\ session[s].op = "write"
  /\ \A e \in Touched(s) : row[e] # None
  /\ \A e \in Expenses : HasEvent(s, e) => session[s].edits[e].ev.at > 0
  /\ row' = [e \in Expenses |->
       IF e \in Touched(s) THEN Merge(row[e], session[s].edits[e]) ELSE row[e]]
  /\ hist' = [e \in Expenses |->
       IF HasEvent(s, e) THEN Append(hist[e], session[s].edits[e].ev) ELSE hist[e]]
  /\ session' = [session EXCEPT ![s] = Idle]
  /\ UNCHANGED gone

CommitDelete(s) ==
  /\ session[s].op = "delete"
  /\ \A e \in Touched(s) : row[e] # None
  /\ row' = [e \in Expenses |-> IF e \in Touched(s) THEN None ELSE row[e]]
  /\ hist' = [e \in Expenses |-> IF e \in Touched(s) THEN <<>> ELSE hist[e]]
  /\ gone' = gone \cup Touched(s)
  /\ session' = [session EXCEPT ![s] = Idle]

\* The handler fails, is cancelled or the process stops before the commit.
Abort(s) ==
  /\ session[s].op # "idle"
  /\ session' = [session EXCEPT ![s] = Idle]
  /\ UNCHANGED <<row, hist, gone>>
-----------------------------------------------------------------------------
(* The handlers, each up to its commit *)

\* A new request; a partner expense needs no approval and starts approved.
Create(u, e, type, reimb) ==
  LET partner == type = "partner_expense" IN
  /\ row[e] = None /\ e \notin gone
  /\ MayActOn(u, type)
  /\ row' = [row EXCEPT ![e] =
       [status |-> IF partner THEN "approved" ELSE "draft",
        type |-> type, reimbursable |-> reimb, author |-> u, approver |-> None,
        approvedBy |-> IF partner THEN u ELSE None, paidBy |-> None]]
  /\ hist' = [hist EXCEPT ![e] =
       IF partner THEN <<[Ev("created", None, "approved", u) EXCEPT !.at = 1]>> ELSE <<>>]
  /\ UNCHANGED <<gone, session>>

\* Edits the fields of a request: no status change, no history row.  None for
\* the approver leaves it as it is (repo.update_fields).
Update(s, u, e, type, reimb, approver) ==
  /\ Loadable(s, e)
  /\ MayEdit(u, row[e])
  /\ MayActOn(u, row[e].type) /\ MayActOn(u, type)
  /\ Stage(s, e,
           [row[e] EXCEPT !.type = type, !.reimbursable = reimb,
              !.approver = IF approver = None THEN row[e].approver ELSE approver],
           None)

Submit(s, u, e) ==
  LET r == row[e] IN
  /\ Loadable(s, e)
  /\ MayActOn(u, r.type)
  /\ u = r.author \/ u \in Moderators
  /\ r.status \in {"draft", "revision_required"}
  /\ LET auto == u \in AutoPaid /\ r.type # "client_expense" IN
     \/ /\ auto
        /\ Stage(s, e, AutoPay(r, u), AutoEvent(r.status, u, FALSE))
     \/ /\ ~auto /\ r.type = "partner_expense"
        /\ Move(s, e, [r EXCEPT !.status = "approved",
                         !.approvedBy = IF r.approvedBy = None THEN u ELSE r.approvedBy],
                "submitted", u)
     \/ /\ ~auto /\ r.type # "partner_expense"
        /\ Move(s, e, [r EXCEPT !.status = "pending_approval"], "submitted", u)

Approve(s, u, e) ==
  /\ Loadable(s, e)
  /\ MayModerate(u, row[e])
  /\ row[e].status = "pending_approval"
  /\ Move(s, e, [row[e] EXCEPT !.status = "approved", !.approvedBy = u], "approved", u)

Reject(s, u, e) ==
  /\ Loadable(s, e)
  /\ MayModerate(u, row[e])
  /\ row[e].status = "pending_approval"
  /\ Move(s, e, [row[e] EXCEPT !.status = "rejected"], "rejected", u)

Revise(s, u, e) ==
  /\ Loadable(s, e)
  /\ MayModerate(u, row[e])
  /\ row[e].status = "pending_approval"
  /\ Move(s, e, [row[e] EXCEPT !.status = "revision_required"], "revision_required", u)

\* Mutant: paying needs no approval.
PayPending(s, u, e) ==
  /\ Loadable(s, e)
  /\ MayModerate(u, row[e])
  /\ row[e].status \in {"approved", "pending_approval"}
  /\ Move(s, e, [row[e] EXCEPT !.status = "paid", !.paidBy = u], "paid", u)

Pay(s, u, e) ==
  /\ Loadable(s, e)
  /\ MayModerate(u, row[e])
  /\ row[e].status = "approved"
  /\ Move(s, e, [row[e] EXCEPT !.status = "paid", !.paidBy = u], "paid", u)

\* Cancelling a payment: an automatic one never had a real approval, so the
\* request goes back to the queue instead of to "approved".
Unpay(s, u, e) ==
  LET r == row[e]
      tgt == IF WasAutoPaid(r, hist[e])
             THEN [r EXCEPT !.status = "pending_approval", !.paidBy = None, !.approvedBy = None]
             ELSE [r EXCEPT !.status = "approved", !.paidBy = None]
  IN
  /\ Loadable(s, e)
  /\ MayModerate(u, r)
  /\ r.status = "paid"
  /\ Move(s, e, tgt, "unpaid", u)

\* Mutant: the approver stays on the request.
UnapproveKeep(s, u, e) ==
  /\ Loadable(s, e)
  /\ MayModerate(u, row[e])
  /\ row[e].status = "approved"
  /\ Move(s, e, [row[e] EXCEPT !.status = "pending_approval"], "unapproved", u)

Unapprove(s, u, e) ==
  /\ Loadable(s, e)
  /\ MayModerate(u, row[e])
  /\ row[e].status = "approved"
  /\ Move(s, e, [row[e] EXCEPT !.status = "pending_approval", !.approvedBy = None],
          "unapproved", u)

Close(s, u, e) ==
  LET r == row[e] IN
  /\ Loadable(s, e)
  /\ MayModerate(u, r)
  /\ \/ /\ r.status \in {"paid", "not_reimbursable"}
        /\ Move(s, e, [r EXCEPT !.status = "closed"], "close", u)
     \/ /\ r.status = "approved" /\ ~r.reimbursable
        /\ Move(s, e, [r EXCEPT !.status = "not_reimbursable"], "mark_not_reimbursable", u)

\* Mutant: a closed request can be withdrawn.
WithdrawClosed(s, u, e) ==
  /\ Loadable(s, e)
  /\ u = row[e].author
  /\ row[e].status \notin {"paid", "rejected", "withdrawn"}
  /\ Move(s, e, [row[e] EXCEPT !.status = "withdrawn"], "withdrawn", u)

Withdraw(s, u, e) ==
  /\ Loadable(s, e)
  /\ u = row[e].author
  /\ row[e].status \notin {"paid", "closed", "rejected", "withdrawn"}
  /\ Move(s, e, [row[e] EXCEPT !.status = "withdrawn"], "withdrawn", u)

Delete(s, u, e) ==
  /\ Loadable(s, e)
  /\ MayActOn(u, row[e].type)
  /\ MayDelete(u, row[e])
  /\ session' = [session EXCEPT ![s] =
       [op |-> "delete",
        edits |-> [Idle.edits EXCEPT ![e] = [snap |-> row[e], tgt |-> row[e], ev |-> None]]]]
  /\ UNCHANGED <<row, hist, gone>>

\* A signed link in the moderation mail, which a submission to the queue
\* sends.  It is not consumed by use and carries no user.
HasEmailLink(e) ==
  \E i \in DOMAIN hist[e] : hist[e][i].act = "submitted" /\ hist[e][i].to = "pending_approval"

EmailApprove(s, e) ==
  LET r == row[e] IN
  /\ Loadable(s, e)
  /\ HasEmailLink(e)
  /\ r.status = "pending_approval"
  /\ Move(s, e, [r EXCEPT !.status = "approved",
                   !.approvedBy = IF r.approver # None THEN r.approver ELSE r.approvedBy],
          "approved_via_email_link", EmailUser)

EmailReject(s, e) ==
  /\ Loadable(s, e)
  /\ HasEmailLink(e)
  /\ row[e].status = "pending_approval"
  /\ Move(s, e, [row[e] EXCEPT !.status = "rejected"], "rejected_via_email_link", EmailUser)

\* Mutant: the sweep does not look at earlier payments.
SweepEditAgain(e, known) ==
  IF row[e] # None /\ row[e].status \in {"pending_approval", "approved"}
       /\ row[e].type # "client_expense" /\ row[e].author \in known
  THEN [snap |-> row[e], tgt |-> AutoPay(row[e], row[e].author),
        ev |-> AutoEvent(row[e].status, row[e].author, TRUE)]
  ELSE None

\* What the sweep does with one request: it takes back the automatic payment
\* of a client expense, and pays an open request that was never paid and whose
\* author is known to be one of the auto-paid authors.
SweepEdit(e, known) ==
  LET r == row[e]
      h == hist[e]
      tgt == RestoreTarget(h)
  IN
  CASE r = None -> None
    [] r # None /\ r.status = "paid" /\ r.type = "client_expense" /\ WasAutoPaid(r, h) ->
         [snap |-> r,
          tgt |-> [r EXCEPT !.status = tgt, !.paidBy = None,
                     !.approvedBy = IF tgt = "approved" THEN r.approvedBy ELSE None],
          ev |-> [act |-> "status_restored", from |-> "paid", to |-> tgt,
                  by |-> r.author, auto |-> FALSE, job |-> TRUE, at |-> 0]]
    [] r # None /\ r.status \in {"pending_approval", "approved"} /\ r.type # "client_expense"
         /\ ~ReturnedFromPaid(h) /\ PaidEvents(h) = {} /\ r.author \in known ->
         [snap |-> r, tgt |-> AutoPay(r, r.author), ev |-> AutoEvent(r.status, r.author, TRUE)]
    [] OTHER -> None

\* _auto_pay_open_expenses, run at startup and by every listing.  "known" are
\* the auto-paid authors whose profile the auth service has returned so far.
Sweep(s) ==
  /\ session[s].op = "idle"
  /\ \E known \in SUBSET AutoPaid :
       LET edits == [e \in Expenses |-> SweepEdit(e, known)] IN
       /\ \E e \in Expenses : edits[e] # None
       /\ \A e \in Expenses : edits[e] # None => Len(hist[e]) < MaxEvents
       /\ session' = [session EXCEPT ![s] = [op |-> "write", edits |-> edits]]
  /\ UNCHANGED <<row, hist, gone>>

Handler(s, u, e) ==
  \/ \E type \in Types, reimb \in BOOLEAN, approver \in Approvers \cup {None} :
       Update(s, u, e, type, reimb, approver)
  \/ Submit(s, u, e)
  \/ Approve(s, u, e) \/ Reject(s, u, e) \/ Revise(s, u, e)
  \/ Pay(s, u, e) \/ Unpay(s, u, e) \/ Unapprove(s, u, e)
  \/ Close(s, u, e) \/ Withdraw(s, u, e) \/ Delete(s, u, e)

Next ==
  \/ \E u \in Users, e \in Expenses, type \in Types, reimb \in BOOLEAN :
       Create(u, e, type, reimb)
  \/ \E s \in Sessions :
       \/ \E u \in Users, e \in Expenses : Handler(s, u, e)
       \/ \E e \in Expenses : EmailApprove(s, e) \/ EmailReject(s, e)
       \/ Sweep(s)
       \/ \E e \in Expenses : Stamp(s, e)
       \/ CommitWrite(s) \/ CommitDelete(s) \/ Abort(s)

Spec == Init /\ [][Next]_vars

-----------------------------------------------------------------------------
(* Properties that hold however handlers overlap *)

\* A request never stands where no history row brought it: its status is the
\* one told by the row that was committed last.  (That row need not be the
\* newest of the timeline; see NewestRowTells.)
StatusIsTold ==
  \A e \in Expenses : row[e] # None =>
    IF hist[e] = <<>> THEN row[e].status = "draft"
    ELSE row[e].status = hist[e][Len(hist[e])].to

\* Nobody pays by hand a request that was never approved: above every manual
\* payment in a timeline stands an older row that reached "approved", though
\* other handlers' rows are stamped and committed in any order around it.
ApprovedBeforePaid ==
  \A e \in Expenses : \A i \in DOMAIN hist[e] :
    (hist[e][i].act = "paid" /\ ~hist[e][i].auto) =>
      \E j \in DOMAIN hist[e] : hist[e][j].at < hist[e][i].at /\ hist[e][j].to = "approved"

\* A decision that only a moderator may take.
IsModeration(ev) ==
  \/ ev.act \in {"approved", "rejected", "revision_required", "unpaid", "unapproved",
                 "close", "mark_not_reimbursable"}
  \/ ev.act = "paid" /\ ~ev.auto

\* With self-moderation off, no moderation decision in any history was taken
\* by the request's own author, even by one who became stale in between.
NoSelfModeration ==
  ~SelfModeration =>
    \A e \in Expenses : \A i \in DOMAIN hist[e] :
      IsModeration(hist[e][i]) => hist[e][i].by # row[e].author

\* What a staged edit of request e promises until it is committed: its event
\* tells the status change it makes, a manual payment has an approval behind
\* it, and the author and the moderator are who they were when it was staged.
EditOK(e, d) ==
  /\ d.ev = None => d.tgt.status = d.snap.status
  /\ d.ev # None => d.tgt.status = d.ev.to /\ d.tgt.status # d.snap.status
  /\ d.tgt.author = d.snap.author
  /\ row[e] # None =>
       /\ d.snap.author = row[e].author
       /\ (d.ev # None /\ d.ev.act = "paid" /\ ~d.ev.auto) =>
            \E j \in DOMAIN hist[e] :
              /\ hist[e][j].to = "approved"
              /\ d.ev.at = 0 \/ hist[e][j].at < d.ev.at
  /\ (~SelfModeration /\ d.ev # None /\ IsModeration(d.ev)) => d.ev.by # d.snap.author

EditsOK ==
  \A s \in Sessions, e \in Expenses : session[s].edits[e] # None =>
    EditOK(e, session[s].edits[e]) /\ (row[e] # None \/ e \in gone)

\* Deleted requests never come back, and only requests have a history.
GoneForGood == \A e \in Expenses : (e \in gone => row[e] = None)
                                /\ (row[e] = None => hist[e] = <<>>)

\* The inductive invariant behind the three properties above.
IInv ==
  /\ TypeOK
  /\ GoneForGood
  /\ EditsOK
  /\ StatusIsTold
  /\ ApprovedBeforePaid
  /\ NoSelfModeration

-----------------------------------------------------------------------------
(* Properties of handlers that do not overlap (one session) *)

\* The timeline is one story: its rows, which the pages sort by changed_at,
\* are in the order of their commits, and each starts where the one before it
\* ended.
HistoryIsAChain ==
  \A e \in Expenses : \A i \in DOMAIN hist[e] :
    /\ i > 1 => hist[e][i-1].at < hist[e][i].at
    /\ hist[e][i].from = IF i > 1 THEN hist[e][i-1].to
                         ELSE IF hist[e][1].act = "created" THEN None ELSE "draft"

\* Who approved and who paid is recorded while the status calls for it: a
\* request that waits for a decision, or is with its author, carries no approver
\* left over from an approval that was taken back; a paid one names its payer,
\* and one whose payment was taken back names none.
StampsMatchStatus ==
  \A e \in Expenses : row[e] # None =>
    /\ row[e].status \in {"draft", "revision_required", "pending_approval"}
         => row[e].approvedBy = None
    /\ row[e].status = "paid" => row[e].paidBy # None
    /\ row[e].paidBy # None => row[e].status \in {"paid", "closed"}

\* "A person already cancelled the automatic payment; do not put it back":
\* the sweep never pays a request that was returned from paid before.
SweepRespectsCancel ==
  \A e \in Expenses : \A i, j \in DOMAIN hist[e] :
    (i < j /\ hist[e][i].from = "paid" /\ hist[e][i].to \in {"approved", "pending_approval"})
      => ~(hist[e][j].act = "paid" /\ hist[e][j].job)

\* The life of a request as the abstract specification tells it: where the
\* table holds no row, whether there was one; how a payment stands.
LifeStatus ==
  [e \in Expenses |-> IF row[e] # None THEN row[e].status
                      ELSE IF e \in gone THEN "deleted" ELSE "none"]
LifePayment ==
  [e \in Expenses |-> IF row[e] = None \/ row[e].status # "paid" THEN "none"
                      ELSE IF WasAutoPaid(row[e], hist[e]) THEN "auto" ELSE "hand"]

Lifecycle == INSTANCE ExpenseLifecycle WITH status <- LifeStatus, payment <- LifePayment

\* The handlers, the mail links, the sweep and the deletion together implement
\* the life of a request: a rejected, withdrawn or closed one stays so until
\* it is deleted, a deleted one does not come back, a payment by hand follows
\* an approval, and no payment by hand leads back to the queue.
FollowsLifecycle == Lifecycle!Spec

-----------------------------------------------------------------------------
(* What one would expect, or the source says, and the code does not keep *)

\* The newest row of the timeline tells the status: kept when handlers take
\* turns (HistoryIsAChain and StatusIsTold), and lost when the sweep, having
\* stamped its row, awaits while another handler stamps and commits.
NewestRowTells ==
  \A e \in Expenses : \A i \in DOMAIN hist[e] :
    (\A j \in DOMAIN hist[e] : hist[e][j].at <= hist[e][i].at)
      => row[e].status = hist[e][i].to

\* The docstring of unapprove_expense: "approved -> pending_approval".  A
\* committed unapproval therefore takes the request out of "approved".
UnapproveLeavesApproved ==
  [][\A e \in Expenses :
       (row'[e] # None /\ hist'[e] # hist[e] /\ hist'[e][Len(hist'[e])].act = "unapproved")
         => row[e].status = "approved"]_vars

\* A comment in unpay_expense: "Automatic payment never had a real approval,
\* so cancelling it returns the request to the queue".  A payment sent back to
\* the queue is thus never one a person made after a person's approval.
QueuedPaymentWasAutomatic ==
  \A e \in Expenses : \A i \in DOMAIN hist[e] :
    (i > 1 /\ hist[e][i].act = "unpaid" /\ hist[e][i].to = "pending_approval")
      => hist[e][i-1].auto
=============================================================================
