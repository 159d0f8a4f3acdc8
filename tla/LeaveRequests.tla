---------------------------- MODULE LeaveRequests ----------------------------
(***************************************************************************)
(* Leave requests, their two approvals, and the absence calendar they fill *)
(* (the vacation service).                                                 *)
(*                                                                         *)
(* A handler loads the request without a lock, checks it, plans its change *)
(* and commits; the ORM writes the columns the handler changed.  An action *)
(* is the part up to the commit and Commit writes the plan, as in the      *)
(* expenses service.  Edits of the calendar by hand are one short          *)
(* transaction each and are single actions.                                *)
(***************************************************************************)
EXTENDS VacationBalance

CONSTANTS
  Users,
  Employees,   \* users who ask for leave
  Partners,    \* users with the partner role
  Managing,    \* users with the managing partner's e-mail
  Entries,     \* ids of manual absence entries
  Kinds,       \* kinds of absence in use
  HandKinds,   \* kinds written by hand into single dates; {} if nobody does
  Sessions

AllKinds == {"annual", "other"}

ASSUME LeaveAssumption ==
  /\ Employees \subseteq Users /\ Partners \subseteq Users /\ Managing \subseteq Users
  /\ Kinds \subseteq AllKinds /\ HandKinds \subseteq AllKinds
  /\ None \notin Users \cup Requests \cup Entries

VARIABLES
  leave,     \* the leave_requests table
  day,       \* the absence_days table: one mark at most per employee and date
  entry,     \* the manual_absence_entries table
  gone,      \* ids of deleted requests and entries
  session    \* what each running handler is about to commit

vars == <<leave, day, entry, gone, session>>

Statuses == {"pending", "pending_final", "approved", "declined", "cancelled"}

\* final: the final decision has been recorded; finalBy is None for a final
\* decision by e-mail link, which carries no user.
Leave == [emp: Employees, partner: Partners, kind: AllKinds, from: Dates, to: Dates,
          status: Statuses, decidedBy: Users \cup {None},
          final: BOOLEAN, finalBy: Users \cup {None}]

Mark == [kind: AllKinds, req: Requests \cup {None}, entry: Entries \cup {None}]

Entry == [emp: Employees, kind: AllKinds, from: Dates, to: Dates]

Cells == Employees \X Dates

Plan == [op: {"create", "write", "delete"}, req: Requests \cup {None},
         snap: Leave, tgt: Leave, fill: SUBSET Cells, clear: BOOLEAN, found: BOOLEAN]

ASSUME NoneAssumption == None \notin Leave /\ None \notin Mark /\ None \notin Entry

TypeOK ==
  /\ leave \in [Requests -> Leave \cup {None}]
  /\ day \in [Cells -> Mark \cup {None}]
  /\ entry \in [Entries -> Entry \cup {None}]
  /\ gone \subseteq Requests \cup Entries
  /\ session \in [Sessions -> Plan \cup {None}]

Init ==
  /\ leave = [r \in Requests |-> None]
  /\ day = [c \in Cells |-> None]
  /\ entry = [x \in Entries |-> None]
  /\ gone = {}
  /\ session = [s \in Sessions |-> None]

-----------------------------------------------------------------------------
(* Planning and committing *)

Period(l) == {<<l.emp, d>> : d \in l.from .. l.to}

Linked(r) == {c \in Cells : day[c] # None /\ day[c].req = r}

Loadable(s, r) == session[s] = None /\ leave[r] # None

\* Write the columns of tgt that differ from the row, mark the dates in fill,
\* and, if clear, delete the marks linked to the request.
Stage(s, op, r, tgt, fill, clear) ==
  /\ session' = [session EXCEPT ![s] =
       [op |-> op, req |-> r, snap |-> leave[r], tgt |-> tgt,
        fill |-> fill, clear |-> clear, found |-> Linked(r) # {}]]
  /\ UNCHANGED <<leave, day, entry, gone>>

Changed(cur, snap, tgt) == IF tgt = snap THEN cur ELSE tgt

\* A decision's own timestamp always differs, so "final" is always written.
Merge(cur, p) ==
  [cur EXCEPT !.status = Changed(@, p.snap.status, p.tgt.status),
              !.decidedBy = Changed(@, p.snap.decidedBy, p.tgt.decidedBy),
              !.final = Changed(@, p.snap.final, p.tgt.final),
              !.finalBy = Changed(@, p.snap.finalBy, p.tgt.finalBy)]

CommitCreate(s) ==
  /\ session[s] # None /\ session[s].op = "create"
  /\ \E r \in Requests :
       /\ leave[r] = None /\ r \notin gone
       /\ leave' = [leave EXCEPT ![r] = session[s].tgt]
  /\ session' = [session EXCEPT ![s] = None]
  /\ UNCHANGED <<day, entry, gone>>

\* The marks a plan deletes.  Its DELETE runs at some moment between the load
\* and the commit: an early one misses marks that were not there yet, and holds
\* the locks of those that were.
Cleared(p, early) ==
  IF ~p.clear \/ (early /\ ~p.found) THEN {} ELSE Linked(p.req)

\* A row deleted meanwhile, or a date marked meanwhile, fails the flush.
CommitWrite(s) ==
  LET p == session[s] IN
  /\ p # None /\ p.op = "write"
  /\ leave[p.req] # None
  /\ \A c \in p.fill : day[c] = None
  /\ leave' = [leave EXCEPT ![p.req] = Merge(@, p)]
  /\ \E early \in BOOLEAN :
       day' = [c \in Cells |->
         IF c \in Cleared(p, early) THEN None
         ELSE IF c \in p.fill THEN [kind |-> p.tgt.kind, req |-> p.req, entry |-> None]
         ELSE day[c]]
  /\ session' = [session EXCEPT ![s] = None]
  /\ UNCHANGED <<entry, gone>>

\* Mutant: the marks keep the id of the deleted request.
CommitDeleteKeep(s) ==
  LET p == session[s] IN
  /\ p # None /\ p.op = "delete"
  /\ leave[p.req] # None
  /\ leave' = [leave EXCEPT ![p.req] = None]
  /\ gone' = gone \cup {p.req}
  /\ session' = [session EXCEPT ![s] = None]
  /\ UNCHANGED <<day, entry>>

\* Deleting the request sets leave_request_id of the marks that are left to NULL.
CommitDelete(s) ==
  LET p == session[s] IN
  /\ p # None /\ p.op = "delete"
  /\ leave[p.req] # None
  /\ leave' = [leave EXCEPT ![p.req] = None]
  /\ \E early \in BOOLEAN :
       day' = [c \in Cells |->
         IF c \in Cleared(p, early) THEN None
         ELSE IF c \in Linked(p.req) THEN [day[c] EXCEPT !.req = None]
         ELSE day[c]]
  /\ gone' = gone \cup {p.req}
  /\ session' = [session EXCEPT ![s] = None]
  /\ UNCHANGED entry

Abort(s) ==
  /\ session[s] # None
  /\ session' = [session EXCEPT ![s] = None]
  /\ UNCHANGED <<leave, day, entry, gone>>

-----------------------------------------------------------------------------
(* The handlers, each up to its commit *)

Create(s, u, p, kind, from, to) ==
  LET l == [emp |-> u, partner |-> p, kind |-> kind, from |-> from, to |-> to,
            status |-> "pending", decidedBy |-> None, final |-> FALSE, finalBy |-> None]
  IN
  /\ session[s] = None
  /\ \E r \in Requests : leave[r] = None /\ r \notin gone
  /\ from <= to
  /\ kind = "annual" => RequestAllowed(leave, day, u, from, to)
  /\ session' = [session EXCEPT ![s] =
       [op |-> "create", req |-> None, snap |-> l, tgt |-> l,
        fill |-> {}, clear |-> FALSE, found |-> FALSE]]
  /\ UNCHANGED <<leave, day, entry, gone>>

\* Mutant: dates that are already marked are left to a later step.
FillNoOther(l) == IF \E c \in Period(l) : day[c] # None THEN {} ELSE Period(l)

\* Only the dates that have no mark yet are marked.
Fill(l) == {c \in Period(l) : day[c] = None}

\* Mutant: the curator's consent is final for everybody.
PartnerDecideFinal(s, r, approve) ==
  LET l == [leave[r] EXCEPT !.decidedBy = leave[r].partner] IN
  /\ Loadable(s, r)
  /\ leave[r].status = "pending"
  /\ IF approve
     THEN Stage(s, "write", r, [l EXCEPT !.status = "approved"], Fill(l), FALSE)
     ELSE Stage(s, "write", r, [l EXCEPT !.status = "declined"], {}, FALSE)

\* The curating partner decides, signed in or by e-mail link.  The managing
\* partner's consent as a curator is final at once.
PartnerDecide(s, r, approve) ==
  LET l == [leave[r] EXCEPT !.decidedBy = leave[r].partner] IN
  /\ Loadable(s, r)
  /\ leave[r].status = "pending"
  /\ \/ /\ ~approve
        /\ Stage(s, "write", r, [l EXCEPT !.status = "declined"], {}, FALSE)
     \/ /\ approve /\ l.partner \in Managing
        /\ Stage(s, "write", r,
                 [l EXCEPT !.status = "approved", !.final = TRUE, !.finalBy = l.partner],
                 Fill(l), FALSE)
     \/ /\ approve /\ l.partner \notin Managing
        /\ Stage(s, "write", r, [l EXCEPT !.status = "pending_final"], {}, FALSE)

\* The managing partner decides; by = None when by e-mail link.
FinalDecide(s, r, by, approve) ==
  LET l == leave[r] IN
  /\ Loadable(s, r)
  /\ l.status = "pending_final"
  /\ Stage(s, "write", r,
           [l EXCEPT !.status = IF approve THEN "approved" ELSE "declined",
                     !.final = TRUE, !.finalBy = by],
           IF approve THEN Fill(l) ELSE {}, FALSE)

Withdraw(s, r) ==
  /\ Loadable(s, r)
  /\ leave[r].status \in InProgress
  /\ Stage(s, "write", r,
           [leave[r] EXCEPT !.status = "cancelled", !.decidedBy = leave[r].emp], {}, FALSE)

\* Mutant: the dates stay in the calendar.
CancelKeep(s, r) ==
  /\ Loadable(s, r)
  /\ leave[r].status = "approved"
  /\ Stage(s, "write", r,
           [leave[r] EXCEPT !.status = "cancelled", !.decidedBy = leave[r].emp], {}, FALSE)

Cancel(s, r) ==
  /\ Loadable(s, r)
  /\ leave[r].status = "approved"
  /\ Stage(s, "write", r,
           [leave[r] EXCEPT !.status = "cancelled", !.decidedBy = leave[r].emp], {}, TRUE)

Delete(s, u, r) ==
  /\ Loadable(s, r)
  /\ \/ u \in Partners \cup Managing
     \/ u = leave[r].emp /\ leave[r].status \in {"cancelled", "declined"}
  /\ Stage(s, "delete", r, leave[r], {}, TRUE)

-----------------------------------------------------------------------------
(* The calendar by hand *)

\* A manual entry takes over a date: its kind and its entry; the link of the
\* mark to a leave request stays.
Overwrite(m, kind, x) ==
  IF m = None THEN [kind |-> kind, req |-> None, entry |-> x]
  ELSE [m EXCEPT !.kind = kind, !.entry = x]

CreateEntry(x, u, kind, from, to) ==
  LET e == [emp |-> u, kind |-> kind, from |-> from, to |-> to] IN
  /\ entry[x] = None /\ x \notin gone
  /\ from <= to /\ YearOf(from) = YearOf(to)
  /\ entry' = [entry EXCEPT ![x] = e]
  /\ day' = [c \in Cells |-> IF c \in Period(e) THEN Overwrite(day[c], kind, x) ELSE day[c]]
  /\ UNCHANGED <<leave, gone, session>>

DeleteEntry(x) ==
  /\ entry[x] # None
  /\ entry' = [entry EXCEPT ![x] = None]
  /\ day' = [c \in Cells |-> IF day[c] # None /\ day[c].entry = x THEN None ELSE day[c]]
  /\ gone' = gone \cup {x}
  /\ UNCHANGED <<leave, session>>

AddDay(c, kind) ==
  /\ day[c] = None
  /\ day' = [day EXCEPT ![c] = [kind |-> kind, req |-> None, entry |-> None]]
  /\ UNCHANGED <<leave, entry, gone, session>>

\* Changes the kind of a mark, its date within the year, or both.
PatchDay(c, d, kind) ==
  /\ day[c] # None
  /\ YearOf(d) = YearOf(c[2])
  /\ d # c[2] => day[<<c[1], d>>] = None
  /\ day' = [k \in Cells |->
       IF k = <<c[1], d>> THEN [day[c] EXCEPT !.kind = kind]
       ELSE IF k = c THEN None ELSE day[k]]
  /\ UNCHANGED <<leave, entry, gone, session>>

DeleteDay(c) ==
  /\ day[c] # None
  /\ day' = [day EXCEPT ![c] = None]
  /\ UNCHANGED <<leave, entry, gone, session>>

\* Deleting an employee from the schedule of a year takes the marks and the
\* manual entries of that year along.
DeleteScheduleEmployee(u, y) ==
  LET lost == {x \in Entries : entry[x] # None /\ entry[x].emp = u /\ YearOf(entry[x].from) = y}
  IN
  /\ day' = [c \in Cells |-> IF c[1] = u /\ YearOf(c[2]) = y THEN None ELSE day[c]]
  /\ entry' = [x \in Entries |-> IF x \in lost THEN None ELSE entry[x]]
  /\ gone' = gone \cup lost
  /\ UNCHANGED <<leave, session>>

-----------------------------------------------------------------------------

Handler(s) ==
  \/ \E u \in Employees, p \in Partners, kind \in Kinds, from, to \in Dates :
       Create(s, u, p, kind, from, to)
  \/ \E r \in Requests :
       \/ \E approve \in BOOLEAN :
            \/ PartnerDecide(s, r, approve)
            \/ \E by \in Managing \cup {None} : FinalDecide(s, r, by, approve)
       \/ Withdraw(s, r)
       \/ Cancel(s, r)
       \/ \E u \in Users : Delete(s, u, r)

ByHand ==
  \/ \E x \in Entries :
       \/ \E u \in Employees, kind \in Kinds, from, to \in Dates :
            CreateEntry(x, u, kind, from, to)
       \/ DeleteEntry(x)
  \/ \E c \in Cells, kind \in HandKinds :
       \/ AddDay(c, kind)
       \/ DeleteDay(c)
       \/ \E d \in Dates : PatchDay(c, d, kind) \/ PatchDay(c, d, day[c].kind)
  \/ /\ HandKinds # {}
     /\ \E u \in Employees, d \in Dates : DeleteScheduleEmployee(u, YearOf(d))

Next ==
  \/ \E s \in Sessions :
       Handler(s) \/ CommitCreate(s) \/ CommitWrite(s) \/ CommitDelete(s) \/ Abort(s)
  \/ ByHand

Spec == Init /\ [][Next]_vars

-----------------------------------------------------------------------------
(* Properties that hold however handlers overlap *)

\* No leave without the managing partner: an approved request has a final
\* decision, by the managing partner or through a link mailed to them.
FinalApprovalOnly ==
  \A r \in Requests : leave[r] # None /\ leave[r].status = "approved" =>
    leave[r].final /\ leave[r].finalBy \in Managing \cup {None}

\* Only the final decision opens dates: no mark in the calendar is linked to a
\* request that never had one, nor to a deleted request.
FinalOpensDates ==
  \A c \in Cells : day[c] # None /\ day[c].req # None =>
    leave[day[c].req] # None /\ leave[day[c].req].final

\* The calendar names no manual entry that is gone, nor one of somebody else
\* or of another year, so deleting an entry or a year takes all its marks.
EntryMarksAlive ==
  \A c \in Cells : day[c] # None /\ day[c].entry # None =>
    LET e == entry[day[c].entry] IN
    e # None /\ e.emp = c[1] /\ YearOf(e.from) = YearOf(c[2])

\* Whatever overlaps, a mark in the calendar that names its origin names one that
\* is there: a request with its final decision, or the employee's entry of that year.
MarksAreOwned == FinalOpensDates /\ EntryMarksAlive

\* What a plan promises until it is committed: it approves and marks dates only
\* with a final decision, and its request either lives, with the final decision
\* the plan saw, or is gone for good.
PlanOK(p) ==
  /\ p.tgt.finalBy \in Managing \cup {None}
  /\ p.snap.final => p.tgt.final
  /\ p.tgt.status = "approved" /\ p.snap.status # "approved" => p.tgt.final
  /\ p.fill # {} => p.tgt.final
  /\ p.op = "create" => p.tgt.status = "pending"
  /\ p.op # "create" =>
       /\ p.req \in Requests
       /\ leave[p.req] # None \/ p.req \in gone
       /\ leave[p.req] # None /\ p.snap.final => leave[p.req].final

\* Final decisions carry nobody's name but the managing partner's.
FinalByManaging ==
  \A r \in Requests : leave[r] # None => leave[r].finalBy \in Managing \cup {None}

\* The inductive invariant behind the properties above.
IInv ==
  /\ TypeOK
  /\ \A s \in Sessions : session[s] # None => PlanOK(session[s])
  /\ FinalByManaging
  /\ FinalApprovalOnly
  /\ FinalOpensDates
  /\ EntryMarksAlive

-----------------------------------------------------------------------------
(* Properties of handlers that do not overlap (one session) *)

\* The calendar shows a request only while it is approved.
MarksOnlyWhileApproved ==
  \A c \in Cells : day[c] # None /\ day[c].req # None =>
    leave[day[c].req] # None /\ leave[day[c].req].status = "approved"

\* An approved request was consented to by its curator, and then by the
\* managing partner unless they are the same person.
TwoStages ==
  \A r \in Requests : leave[r] # None /\ leave[r].status = "approved" =>
    /\ leave[r].decidedBy = leave[r].partner
    /\ leave[r].partner \in Managing => leave[r].finalBy = leave[r].partner

\* A declined or cancelled request is never revived, and an approved one can
\* only be cancelled.
DecidedStays ==
  [][\A r \in Requests : leave[r] # None /\ leave'[r] # None =>
       /\ leave[r].status \in {"declined", "cancelled"} => leave'[r].status = leave[r].status
       /\ leave[r].status = "approved" => leave'[r].status \in {"approved", "cancelled"}]_vars

\* The step that approves a request leaves no date of it unmarked.
ApprovalFillsPeriod ==
  [][\A r \in Requests :
       (leave[r] # None /\ leave'[r] # None
          /\ leave[r].status # "approved" /\ leave'[r].status = "approved")
         => \A c \in Period(leave[r]) : day'[c] # None]_vars

\* In no year does an employee hold more annual leave, approved or asked for,
\* than the entitlement, whatever is withdrawn, cancelled or asked for again.
WithinEntitlement ==
  \A u \in Employees : \A d \in Dates :
    SumDays(leave, Annual(leave, u, InProgress \cup {"approved"}), YearOf(d)) <= Entitled

\* A new short request, asked for before the mandatory block of the year it starts in
\* is taken, leaves the short requests of that year within the flexible days.
ShortWithinFlexible ==
  [][\A r \in Requests : (leave[r] = None /\ leave'[r] # None) =>
       LET l == leave'[r]
           y == YearOf(l.from)
       IN  (l.kind = "annual" /\ Short(leave', r) /\ ~ContinuousTaken(leave, day, l.emp, y))
             => SumDays(leave', {q \in Annual(leave', l.emp, InProgress \cup {"approved"}) :
                                 Short(leave', q)}, y) <= FlexibleMax]_vars

-----------------------------------------------------------------------------
(* What the source says and the code does not keep *)

\* "The days of an approved request are already in the schedule; they must be
\* removed, or the absence stays in the calendar after the cancellation"
\* (cancel_leave_request).
CancelledLeavesNoMarks ==
  \A c \in Cells : day[c] # None /\ day[c].req # None =>
    leave[day[c].req].status # "cancelled"

\* "Full deletion: the record, the PDF and the days in the schedule"
\* (delete_request): no mark outlives its request.
DeletionTakesMarks ==
  [][\A c \in Cells : day[c] # None /\ day[c].req # None =>
       day'[c] = None \/ day'[c].req = day[c].req]_vars

\* "After approve, create absence_days records for every day of the period"
\* (_materialize_absence_days): all dates of an approved request are marked.
ApprovedIsShown ==
  \A r \in Requests : leave[r] # None /\ leave[r].status = "approved" =>
    \A c \in Period(leave[r]) : day[c] # None

\* "If the date already has a mark, it is overwritten with the category of the
\* manual entry and bound to it" (_materialize_manual_days): the dates of a
\* manual entry stay in the calendar as long as the entry.
EntryIsShown ==
  \A x \in Entries : entry[x] # None => \A c \in Period(entry[x]) : day[c] # None

\* "Up to flexible_annual_days may be taken in short parts before the mandatory
\* continuous block is used" (vacation_balance): asking for a short leave never
\* takes a year it touches over the flexible days.
FlexibleInEveryYear ==
  [][\A r \in Requests : (leave[r] = None /\ leave'[r] # None) =>
       LET l == leave'[r] IN
       (l.kind = "annual" /\ Short(leave', r)) =>
         \A y \in YearsOf(l.from, l.to) :
           ~ContinuousTaken(leave, day, l.emp, y) =>
             SumDays(leave', {q \in Annual(leave', l.emp, InProgress \cup {"approved"}) :
                              Short(leave', q)}, y) <= FlexibleMax]_vars
=============================================================================
