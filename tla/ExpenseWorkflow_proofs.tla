----------------------- MODULE ExpenseWorkflow_proofs -----------------------
(* Proofs about ExpenseWorkflow, for any number of requests and users: of    *)
(* handlers that overlap, and of handlers that take turns.                  *)
EXTENDS ExpenseWorkflow, TLAPS

\* The initial state satisfies the invariant.
LEMMA InitIInv == Init => IInv
<1> SUFFICES ASSUME Init PROVE IInv
  OBVIOUS
<1> USE DEF Init
<1>1. TypeOK
  BY DEF TypeOK, Idle
<1>2. GoneForGood /\ StatusIsTold /\ ApprovedBeforePaid /\ NoSelfModeration
  BY DEF GoneForGood, StatusIsTold, ApprovedBeforePaid, NoSelfModeration
<1>3. EditsOK
  BY DEF EditsOK, Idle
<1> QED
  BY <1>1, <1>2, <1>3 DEF IInv

\* Staging an edit that keeps its promises preserves the invariant.
LEMMA StageIInv ==
  ASSUME IInv, NEW s \in Sessions, NEW e \in Expenses, row[e] # None,
         NEW tgt \in Row, NEW ev \in Event \cup {None},
         EditOK(e, [snap |-> row[e], tgt |-> tgt, ev |-> ev]),
         Stage(s, e, tgt, ev)
  PROVE  IInv'
<1> DEFINE d == [snap |-> row[e], tgt |-> tgt, ev |-> ev]
<1>1. d \in Edit
  BY DEF IInv, TypeOK, Edit
<1>2. TypeOK'
  BY <1>1 DEF IInv, TypeOK, Stage, Idle
<1>3. UNCHANGED <<row, hist, gone>>
  BY DEF Stage
<1>4. /\ GoneForGood' /\ StatusIsTold' /\ ApprovedBeforePaid' /\ NoSelfModeration'
  BY <1>3 DEF IInv, GoneForGood, StatusIsTold, ApprovedBeforePaid, NoSelfModeration
<1>5. EditsOK'
  <2> SUFFICES ASSUME NEW t \in Sessions, NEW x \in Expenses, (session[t].edits[x] # None)'
               PROVE  (EditOK(x, session[t].edits[x]) /\ (row[x] # None \/ x \in gone))'
    BY DEF EditsOK
  <2>1. CASE t = s
    <3>1. x = e /\ session'[t].edits[x] = d
      BY <2>1 DEF IInv, TypeOK, Stage, Idle
    <3> QED
      BY <3>1, <1>3 DEF EditOK
  <2>2. CASE t # s
    <3>1. session'[t] = session[t]
      BY <2>2 DEF IInv, TypeOK, Stage
    <3> QED
      BY <3>1, <1>3 DEF IInv, EditsOK, EditOK
  <2> QED
    BY <2>1, <2>2
<1> QED
  BY <1>2, <1>4, <1>5 DEF IInv

\* An approved request has an event in its history that approved it.
LEMMA ApprovedHasEvent ==
  ASSUME IInv, NEW e \in Expenses, row[e] # None, row[e].status = "approved"
  PROVE  \E j \in DOMAIN hist[e] : hist[e][j].to = "approved"
<1>1. hist[e] \in Seq(Event) /\ hist[e] # <<>>
  BY DEF IInv, TypeOK, StatusIsTold
<1>2. Len(hist[e]) \in DOMAIN hist[e]
  BY <1>1
<1> QED
  BY <1>1, <1>2 DEF IInv, StatusIsTold

\* A status change with its history row preserves the invariant, provided it
\* is a real change, leaves the author alone, pays only what is approved and
\* respects the ban on moderating one's own request.
LEMMA MoveIInv ==
  ASSUME IInv, NEW s \in Sessions, NEW e \in Expenses, row[e] # None,
         NEW tgt \in Row, NEW act \in Acts, NEW by \in Users \cup {EmailUser},
         Move(s, e, tgt, act, by),
         tgt.status # row[e].status,
         tgt.author = row[e].author,
         act = "paid" => row[e].status = "approved",
         IsModeration(Ev(act, row[e].status, tgt.status, by)) =>
           SelfModeration \/ by # row[e].author
  PROVE  IInv'
<1> DEFINE ev == Ev(act, row[e].status, tgt.status, by)
<1>1. row[e] \in Row
  BY DEF IInv, TypeOK
<1>2. row[e].status \in Statuses /\ tgt.status \in Statuses
  BY <1>1 DEF Row
<1>3. ev \in Event
  BY <1>2 DEF Ev, Event
<1>4. ev # None
  BY <1>3, NoneAssumption
<1>5. EditOK(e, [snap |-> row[e], tgt |-> tgt, ev |-> ev])
  BY <1>4, ApprovedHasEvent DEF EditOK, Ev
<1>6. Stage(s, e, tgt, ev)
  BY DEF Move
<1> QED
  BY <1>3, <1>5, <1>6, StageIInv

\* The columns of a merge are columns of its three sources; no edit changes
\* the author, and a changed status is the status of the target.
LEMMA MergeRow ==
  ASSUME NEW cur \in Row, NEW d \in Edit
  PROVE  /\ Merge(cur, d) \in Row
         /\ d.tgt.author = d.snap.author => Merge(cur, d).author = cur.author
         /\ d.tgt.status = d.snap.status => Merge(cur, d).status = cur.status
         /\ d.tgt.status # d.snap.status => Merge(cur, d).status = d.tgt.status
  BY DEF Merge, Changed, Edit, Row

\* The automatic payment of a request by one of its authors or moderators.
LEMMA AutoPayOK ==
  ASSUME NEW e \in Expenses, NEW r \in Row, NEW u \in Users, NEW job \in BOOLEAN,
         r = row[e], r.status # "paid"
  PROVE  /\ AutoPay(r, u) \in Row
         /\ AutoEvent(r.status, u, job) \in Event
         /\ EditOK(e, [snap |-> r, tgt |-> AutoPay(r, u), ev |-> AutoEvent(r.status, u, job)])
<1>1. AutoPay(r, u) \in Row /\ AutoPay(r, u).status = "paid" /\ AutoPay(r, u).author = r.author
  BY DEF AutoPay, Row, Statuses
<1>2. AutoEvent(r.status, u, job) \in Event
  BY DEF AutoEvent, Event, Row, Statuses, Acts
<1>3. AutoEvent(r.status, u, job) # None
  BY <1>2, NoneAssumption
<1>4. ~IsModeration(AutoEvent(r.status, u, job))
  BY DEF IsModeration, AutoEvent
<1> QED
  BY <1>1, <1>2, <1>3, <1>4 DEF EditOK, AutoEvent

\* The handlers of one request, each up to its commit, preserve the invariant.
LEMMA HandlerIInv ==
  ASSUME IInv, NEW s \in Sessions, NEW u \in Users, NEW e \in Expenses,
         Handler(s, u, e)
  PROVE  IInv'
<1> DEFINE r == row[e]
<1> USE UserAssumption, NoneAssumption
<1>1. CASE \E type \in Types, reimb \in BOOLEAN, approver \in Approvers \cup {None} :
             Update(s, u, e, type, reimb, approver)
  <2> PICK type \in Types, reimb \in BOOLEAN, approver \in Approvers \cup {None} :
             Update(s, u, e, type, reimb, approver)
    BY <1>1
  <2> DEFINE tgt == [row[e] EXCEPT !.type = type, !.reimbursable = reimb,
              !.approver = IF approver = None THEN row[e].approver ELSE approver]
  <2>1. r \in Row /\ r # None
    BY DEF Update, Loadable, IInv, TypeOK
  <2>2. tgt \in Row /\ tgt.status = r.status /\ tgt.author = r.author
    BY <2>1, TypesAssumption DEF Row
  <2>3. EditOK(e, [snap |-> r, tgt |-> tgt, ev |-> None])
    BY <2>2 DEF EditOK
  <2>4. Stage(s, e, tgt, None)
    BY DEF Update
  <2> HIDE DEF tgt
  <2> QED
    BY <2>1, <2>2, <2>3, <2>4, StageIInv
<1>2. CASE Submit(s, u, e)
  <2>1. r \in Row /\ r # None /\ r.status \in {"draft", "revision_required"}
    BY <1>2 DEF Submit, Loadable, IInv, TypeOK
  <2>2. CASE Stage(s, e, AutoPay(r, u), AutoEvent(r.status, u, FALSE))
    BY <2>1, <2>2, AutoPayOK, StageIInv
  <2>3. ASSUME NEW tgt, tgt \in Row, tgt.author = r.author, tgt.status # r.status,
               Move(s, e, tgt, "submitted", u)
        PROVE  IInv'
    <3>1. ~IsModeration(Ev("submitted", r.status, tgt.status, u)) /\ "submitted" \in Acts
      BY DEF IsModeration, Ev, Acts
    <3> QED
      BY <2>1, <2>3, <3>1, MoveIInv
  <2> DEFINE partner == [r EXCEPT !.status = "approved",
                           !.approvedBy = IF r.approvedBy = None THEN u ELSE r.approvedBy]
             queued == [r EXCEPT !.status = "pending_approval"]
  <2>4. /\ partner \in Row /\ partner.author = r.author /\ partner.status # r.status
        /\ queued \in Row /\ queued.author = r.author /\ queued.status # r.status
    BY <2>1 DEF Row, Statuses
  <2>5. \/ Stage(s, e, AutoPay(r, u), AutoEvent(r.status, u, FALSE))
        \/ Move(s, e, partner, "submitted", u)
        \/ Move(s, e, queued, "submitted", u)
    BY <1>2 DEF Submit
  <2> HIDE DEF partner, queued
  <2> QED
    BY <2>2, <2>3, <2>4, <2>5
<1>3. CASE Approve(s, u, e)
  <2> DEFINE tgt == [row[e] EXCEPT !.status = "approved", !.approvedBy = u]
  <2>1. r \in Row /\ r # None
    BY <1>3 DEF Approve, Loadable, IInv, TypeOK
  <2>2. tgt \in Row /\ tgt.author = r.author /\ tgt.status # r.status
    BY <1>3, <2>1 DEF Approve, Row, Statuses
  <2>3. Move(s, e, tgt, "approved", u)
    BY <1>3 DEF Approve
  <2>4. IsModeration(Ev("approved", r.status, tgt.status, u)) => SelfModeration \/ u # r.author
    BY <1>3 DEF Approve, MayModerate
  <2>5. "approved" \in Acts /\ ("approved" = "paid" => r.status = "approved")
    BY <1>3 DEF Acts, Approve
  <2> HIDE DEF tgt
  <2> QED
    BY <2>1, <2>2, <2>3, <2>4, <2>5, MoveIInv
<1>4. CASE Reject(s, u, e)
  <2> DEFINE tgt == [row[e] EXCEPT !.status = "rejected"]
  <2>1. r \in Row /\ r # None
    BY <1>4 DEF Reject, Loadable, IInv, TypeOK
  <2>2. tgt \in Row /\ tgt.author = r.author /\ tgt.status # r.status
    BY <1>4, <2>1 DEF Reject, Row, Statuses
  <2>3. Move(s, e, tgt, "rejected", u)
    BY <1>4 DEF Reject
  <2>4. IsModeration(Ev("rejected", r.status, tgt.status, u)) => SelfModeration \/ u # r.author
    BY <1>4 DEF Reject, MayModerate
  <2>5. "rejected" \in Acts /\ ("rejected" = "paid" => r.status = "approved")
    BY <1>4 DEF Acts, Reject
  <2> HIDE DEF tgt
  <2> QED
    BY <2>1, <2>2, <2>3, <2>4, <2>5, MoveIInv
<1>5. CASE Revise(s, u, e)
  <2> DEFINE tgt == [row[e] EXCEPT !.status = "revision_required"]
  <2>1. r \in Row /\ r # None
    BY <1>5 DEF Revise, Loadable, IInv, TypeOK
  <2>2. tgt \in Row /\ tgt.author = r.author /\ tgt.status # r.status
    BY <1>5, <2>1 DEF Revise, Row, Statuses
  <2>3. Move(s, e, tgt, "revision_required", u)
    BY <1>5 DEF Revise
  <2>4. IsModeration(Ev("revision_required", r.status, tgt.status, u)) => SelfModeration \/ u # r.author
    BY <1>5 DEF Revise, MayModerate
  <2>5. "revision_required" \in Acts /\ ("revision_required" = "paid" => r.status = "approved")
    BY <1>5 DEF Acts, Revise
  <2> HIDE DEF tgt
  <2> QED
    BY <2>1, <2>2, <2>3, <2>4, <2>5, MoveIInv
<1>6. CASE Pay(s, u, e)
  <2> DEFINE tgt == [row[e] EXCEPT !.status = "paid", !.paidBy = u]
  <2>1. r \in Row /\ r # None
    BY <1>6 DEF Pay, Loadable, IInv, TypeOK
  <2>2. tgt \in Row /\ tgt.author = r.author /\ tgt.status # r.status
    BY <1>6, <2>1 DEF Pay, Row, Statuses
  <2>3. Move(s, e, tgt, "paid", u)
    BY <1>6 DEF Pay
  <2>4. IsModeration(Ev("paid", r.status, tgt.status, u)) => SelfModeration \/ u # r.author
    BY <1>6 DEF Pay, MayModerate
  <2>5. "paid" \in Acts /\ ("paid" = "paid" => r.status = "approved")
    BY <1>6 DEF Acts, Pay
  <2> HIDE DEF tgt
  <2> QED
    BY <2>1, <2>2, <2>3, <2>4, <2>5, MoveIInv
<1>7. CASE Unpay(s, u, e)
  <2> DEFINE tgt == IF WasAutoPaid(r, hist[e])
             THEN [r EXCEPT !.status = "pending_approval", !.paidBy = None, !.approvedBy = None]
             ELSE [r EXCEPT !.status = "approved", !.paidBy = None]
  <2>1. r \in Row /\ r # None
    BY <1>7 DEF Unpay, Loadable, IInv, TypeOK
  <2>2. tgt \in Row /\ tgt.author = r.author /\ tgt.status # r.status
    BY <1>7, <2>1 DEF Unpay, Row, Statuses
  <2>3. Move(s, e, tgt, "unpaid", u)
    BY <1>7 DEF Unpay
  <2>4. IsModeration(Ev("unpaid", r.status, tgt.status, u)) => SelfModeration \/ u # r.author
    BY <1>7 DEF Unpay, MayModerate
  <2>5. "unpaid" \in Acts /\ ("unpaid" = "paid" => r.status = "approved")
    BY <1>7 DEF Acts, Unpay
  <2> HIDE DEF tgt
  <2> QED
    BY <2>1, <2>2, <2>3, <2>4, <2>5, MoveIInv
<1>8. CASE Unapprove(s, u, e)
  <2> DEFINE tgt == [row[e] EXCEPT !.status = "pending_approval", !.approvedBy = None]
  <2>1. r \in Row /\ r # None
    BY <1>8 DEF Unapprove, Loadable, IInv, TypeOK
  <2>2. tgt \in Row /\ tgt.author = r.author /\ tgt.status # r.status
    BY <1>8, <2>1 DEF Unapprove, Row, Statuses
  <2>3. Move(s, e, tgt, "unapproved", u)
    BY <1>8 DEF Unapprove
  <2>4. IsModeration(Ev("unapproved", r.status, tgt.status, u)) => SelfModeration \/ u # r.author
    BY <1>8 DEF Unapprove, MayModerate
  <2>5. "unapproved" \in Acts /\ ("unapproved" = "paid" => r.status = "approved")
    BY <1>8 DEF Acts, Unapprove
  <2> HIDE DEF tgt
  <2> QED
    BY <2>1, <2>2, <2>3, <2>4, <2>5, MoveIInv
<1>9. CASE Close(s, u, e)
  <2>1. r \in Row /\ r # None
    BY <1>9 DEF Close, Loadable, IInv, TypeOK
  <2>2. SelfModeration \/ u # r.author
    BY <1>9 DEF Close, MayModerate
  <2> DEFINE closed == [r EXCEPT !.status = "closed"]
             marked == [r EXCEPT !.status = "not_reimbursable"]
  <2>3. \/ r.status \in {"paid", "not_reimbursable"} /\ Move(s, e, closed, "close", u)
        \/ r.status = "approved" /\ Move(s, e, marked, "mark_not_reimbursable", u)
    BY <1>9 DEF Close
  <2>4. /\ closed \in Row /\ closed.author = r.author /\ closed.status = "closed"
        /\ marked \in Row /\ marked.author = r.author /\ marked.status = "not_reimbursable"
    BY <2>1 DEF Row, Statuses
  <2>5. {"close", "mark_not_reimbursable"} \subseteq Acts
    BY DEF Acts
  <2> HIDE DEF closed, marked
  <2> QED
    BY <2>1, <2>2, <2>3, <2>4, <2>5, MoveIInv
<1>10. CASE Withdraw(s, u, e)
  <2> DEFINE tgt == [row[e] EXCEPT !.status = "withdrawn"]
  <2>1. r \in Row /\ r # None
    BY <1>10 DEF Withdraw, Loadable, IInv, TypeOK
  <2>2. tgt \in Row /\ tgt.author = r.author /\ tgt.status # r.status
    BY <1>10, <2>1 DEF Withdraw, Row, Statuses
  <2>3. Move(s, e, tgt, "withdrawn", u)
    BY <1>10 DEF Withdraw
  <2>4. IsModeration(Ev("withdrawn", r.status, tgt.status, u)) => SelfModeration \/ u # r.author
    BY <1>10 DEF Withdraw, IsModeration, Ev
  <2>5. "withdrawn" \in Acts /\ ("withdrawn" = "paid" => r.status = "approved")
    BY <1>10 DEF Acts, Withdraw
  <2> HIDE DEF tgt
  <2> QED
    BY <2>1, <2>2, <2>3, <2>4, <2>5, MoveIInv
<1>11. CASE Delete(s, u, e)
  <2> DEFINE d == [snap |-> r, tgt |-> r, ev |-> None]
  <2>1. r \in Row /\ r # None
    BY <1>11 DEF Delete, Loadable, IInv, TypeOK
  <2>2. d \in Edit /\ EditOK(e, d)
    BY <2>1 DEF Edit, EditOK
  <2>3. session' = [session EXCEPT ![s] =
                      [op |-> "delete", edits |-> [Idle.edits EXCEPT ![e] = d]]]
    BY <1>11 DEF Delete
  <2>4. UNCHANGED <<row, hist, gone>>
    BY <1>11 DEF Delete
  <2> HIDE DEF d
  <2>5. TypeOK'
    BY <2>2, <2>3, <2>4 DEF IInv, TypeOK, Idle
  <2>6. GoneForGood' /\ StatusIsTold' /\ ApprovedBeforePaid' /\ NoSelfModeration'
    BY <2>4 DEF IInv, GoneForGood, StatusIsTold, ApprovedBeforePaid, NoSelfModeration
  <2>7. EditsOK'
    BY <2>1, <2>2, <2>3, <2>4 DEF IInv, TypeOK, EditsOK, EditOK, Idle
  <2> QED
    BY <2>5, <2>6, <2>7 DEF IInv
<1> QED
  BY <1>1, <1>2, <1>3, <1>4, <1>5, <1>6, <1>7, <1>8, <1>9, <1>10, <1>11 DEF Handler

\* The e-mail links preserve the invariant.
LEMMA EmailIInv ==
  ASSUME IInv, NEW s \in Sessions, NEW e \in Expenses,
         EmailApprove(s, e) \/ EmailReject(s, e)
  PROVE  IInv'
<1> DEFINE r == row[e]
           yes == [r EXCEPT !.status = "approved",
                     !.approvedBy = IF r.approver # None THEN r.approver ELSE r.approvedBy]
           no == [r EXCEPT !.status = "rejected"]
<1>1. r \in Row /\ r # None /\ r.status = "pending_approval"
  BY DEF EmailApprove, EmailReject, Loadable, IInv, TypeOK
<1>2. yes \in Row /\ yes.status = "approved" /\ yes.author = r.author
  BY <1>1, UserAssumption DEF Row, Statuses
<1>3. no \in Row /\ no.status = "rejected" /\ no.author = r.author
  BY <1>1 DEF Row, Statuses
<1>4. \/ Move(s, e, yes, "approved_via_email_link", EmailUser)
      \/ Move(s, e, no, "rejected_via_email_link", EmailUser)
  BY DEF EmailApprove, EmailReject
<1>5. {"approved_via_email_link", "rejected_via_email_link"} \subseteq Acts
  BY DEF Acts
<1>6. EmailUser # r.author
  BY <1>1, UserAssumption DEF Row
<1> HIDE DEF yes, no
<1> QED
  BY <1>1, <1>2, <1>3, <1>4, <1>5, <1>6, MoveIInv

\* What the sweep stages for a request keeps its promises.
LEMMA SweepEditOK ==
  ASSUME IInv, NEW e \in Expenses, NEW known \in SUBSET AutoPaid, SweepEdit(e, known) # None
  PROVE  SweepEdit(e, known) \in Edit /\ EditOK(e, SweepEdit(e, known)) /\ row[e] # None
<1> DEFINE r == row[e]
           tgt == RestoreTarget(hist[e])
           back == [r EXCEPT !.status = tgt, !.paidBy = None,
                      !.approvedBy = IF tgt = "approved" THEN r.approvedBy ELSE None]
           ev == [act |-> "status_restored", from |-> "paid", to |-> tgt,
                  by |-> r.author, auto |-> FALSE, job |-> TRUE, at |-> 0]
<1>1. r # None /\ r \in Row
  BY DEF SweepEdit, IInv, TypeOK
<1>2. CASE r.status = "paid" /\ SweepEdit(e, known) = [snap |-> r, tgt |-> back, ev |-> ev]
  <2>1. tgt \in {"approved", "pending_approval"}
    BY DEF RestoreTarget
  <2>2. back \in Row /\ back.status = tgt /\ back.author = r.author
    BY <1>1, <2>1 DEF Row, Statuses
  <2>3. r.author \in Users /\ "status_restored" \in Acts
        /\ "paid" \in Statuses /\ tgt \in Statuses
    BY <1>1, <2>1 DEF Row, Statuses, Acts
  <2> HIDE DEF tgt
  <2>5. ev \in Event
    BY <2>3 DEF Event
  <2>4. ~IsModeration(ev)
    BY DEF IsModeration
  <2> HIDE DEF back
  <2>6. [snap |-> r, tgt |-> back, ev |-> ev] \in Edit
    BY <1>1, <2>2, <2>5 DEF Edit
  <2>7. ev # None /\ back.status = ev.to /\ back.status # r.status /\ ev.act # "paid"
    BY <1>2, <2>1, <2>2, <2>5, NoneAssumption
  <2> HIDE DEF ev
  <2>8. EditOK(e, [snap |-> r, tgt |-> back, ev |-> ev])
    BY <2>2, <2>4, <2>7 DEF EditOK
  <2> QED
    BY <1>1, <1>2, <2>6, <2>8
<1>3. CASE /\ r.status \in {"pending_approval", "approved"}
           /\ SweepEdit(e, known) = [snap |-> r, tgt |-> AutoPay(r, r.author),
                                     ev |-> AutoEvent(r.status, r.author, TRUE)]
  <2>1. r.author \in Users
    BY <1>1 DEF Row
  <2>2. /\ AutoPay(r, r.author) \in Row
        /\ AutoEvent(r.status, r.author, TRUE) \in Event
        /\ EditOK(e, [snap |-> r, tgt |-> AutoPay(r, r.author),
                      ev |-> AutoEvent(r.status, r.author, TRUE)])
    BY <1>1, <1>3, <2>1, AutoPayOK
  <2>3. [snap |-> r, tgt |-> AutoPay(r, r.author),
         ev |-> AutoEvent(r.status, r.author, TRUE)] \in Edit
    BY <1>1, <2>2 DEF Edit
  <2> QED
    BY <1>1, <1>3, <2>2, <2>3
<1> QED
  BY <1>1, <1>2, <1>3 DEF SweepEdit

\* The sweep preserves the invariant.
LEMMA SweepIInv ==
  ASSUME IInv, NEW s \in Sessions, Sweep(s)
  PROVE  IInv'
<1> PICK known \in SUBSET AutoPaid :
      session' = [session EXCEPT ![s] =
        [op |-> "write", edits |-> [e \in Expenses |-> SweepEdit(e, known)]]]
  BY DEF Sweep
<1>1. UNCHANGED <<row, hist, gone>>
  BY DEF Sweep
<1>2. \A e \in Expenses : SweepEdit(e, known) \in Edit \cup {None}
  BY SweepEditOK
<1>3. TypeOK'
  BY <1>1, <1>2 DEF IInv, TypeOK
<1>4. GoneForGood' /\ StatusIsTold' /\ ApprovedBeforePaid' /\ NoSelfModeration'
  BY <1>1 DEF IInv, GoneForGood, StatusIsTold, ApprovedBeforePaid, NoSelfModeration
<1>5. EditsOK'
  <2> SUFFICES ASSUME NEW t \in Sessions, NEW x \in Expenses, (session[t].edits[x] # None)'
               PROVE  (EditOK(x, session[t].edits[x]) /\ (row[x] # None \/ x \in gone))'
    BY DEF EditsOK
  <2>1. CASE t = s
    <3>1. session'[t].edits[x] = SweepEdit(x, known)
      BY <2>1 DEF IInv, TypeOK
    <3>2. EditOK(x, SweepEdit(x, known)) /\ row[x] # None
      BY <3>1, SweepEditOK
    <3> HIDE DEF SweepEdit
    <3> QED
      BY <1>1, <3>1, <3>2 DEF EditOK
  <2>2. CASE t # s
    <3>1. session'[t] = session[t]
      BY <2>2 DEF IInv, TypeOK
    <3> QED
      BY <1>1, <3>1 DEF IInv, EditsOK, EditOK
  <2> QED
    BY <2>1, <2>2
<1> QED
  BY <1>3, <1>4, <1>5 DEF IInv

\* Creating a request preserves the invariant.
LEMMA CreateIInv ==
  ASSUME IInv, NEW u \in Users, NEW e \in Expenses, NEW type \in Types, NEW reimb \in BOOLEAN,
         Create(u, e, type, reimb)
  PROVE  IInv'
<1> DEFINE partner == type = "partner_expense"
           r == [status |-> IF partner THEN "approved" ELSE "draft",
                 type |-> type, reimbursable |-> reimb, author |-> u, approver |-> None,
                 approvedBy |-> IF partner THEN u ELSE None, paidBy |-> None]
           ev == [Ev("created", None, "approved", u) EXCEPT !.at = 1]
           h == IF partner THEN <<ev>> ELSE <<>>
<1>1. r \in Row /\ r.status = IF partner THEN "approved" ELSE "draft"
  BY TypesAssumption DEF Row, Statuses
<1>2. ev \in Event /\ ev.to = "approved" /\ ~IsModeration(ev) /\ ev.act # "paid"
  BY DEF Ev, Event, Acts, Statuses, IsModeration
<1>3. h \in Seq(Event)
  BY <1>2
<1>4. /\ row[e] = None /\ e \notin gone
      /\ row' = [row EXCEPT ![e] = r] /\ hist' = [hist EXCEPT ![e] = h]
      /\ UNCHANGED <<gone, session>>
  BY DEF Create
<1>5. h = <<>> \/ h = <<ev>>
  OBVIOUS
<1>6. r # None
  BY <1>1, NoneAssumption
<1>8a. \A i \in DOMAIN h : h[i] = ev
  OBVIOUS
<1>7. h = <<>> => r.status = "draft"
  BY <1>1
<1>8. h = <<ev>> => r.status = "approved"
  BY <1>1
<1> HIDE DEF r, ev, h
<1>9. /\ row' \in [Expenses -> Row \cup {None}] /\ hist' \in [Expenses -> Seq(Event)]
      /\ row'[e] = r /\ hist'[e] = h
      /\ \A x \in Expenses \ {e} : row'[x] = row[x] /\ hist'[x] = hist[x]
  BY <1>1, <1>3, <1>4 DEF IInv, TypeOK
<1>10. TypeOK'
  BY <1>4, <1>9 DEF IInv, TypeOK
<1>11. GoneForGood'
  BY <1>4, <1>6, <1>9 DEF IInv, GoneForGood
<1>12. StatusIsTold'
  BY <1>2, <1>5, <1>7, <1>8, <1>9 DEF IInv, StatusIsTold
<1>13. ApprovedBeforePaid'
  <2> SUFFICES ASSUME NEW x \in Expenses, NEW i \in DOMAIN hist'[x],
                      hist'[x][i].act = "paid" /\ ~hist'[x][i].auto
               PROVE  \E j \in DOMAIN hist'[x] :
                        hist'[x][j].at < hist'[x][i].at /\ hist'[x][j].to = "approved"
    BY DEF ApprovedBeforePaid
  <2>1. x # e
    BY <1>2, <1>9, <1>8a
  <2>2. hist'[x] = hist[x]
    BY <1>9, <2>1
  <2> QED
    BY <2>2 DEF IInv, ApprovedBeforePaid
<1>14. NoSelfModeration'
  <2> SUFFICES ASSUME ~SelfModeration, NEW x \in Expenses, NEW i \in DOMAIN hist'[x],
                      IsModeration(hist'[x][i])
               PROVE  hist'[x][i].by # row'[x].author
    BY DEF NoSelfModeration, IsModeration
  <2>1. x # e
    BY <1>2, <1>9, <1>8a
  <2> QED
    BY <1>9, <2>1 DEF IInv, NoSelfModeration
<1>15. EditsOK'
  BY <1>4, <1>9 DEF IInv, EditsOK, EditOK
<1> QED
  BY <1>10, <1>11, <1>12, <1>13, <1>14, <1>15 DEF IInv

\* The planned row d.ev of session s for e takes the time "now", past the history.
TakesTime(s, e, now, d) ==
  /\ d = session[s].edits[e] /\ d.ev \in Event /\ d.ev # None
  /\ \A i \in DOMAIN hist[e] : hist[e][i].at < now
  /\ UNCHANGED <<row, hist, gone>>
  /\ session' \in [Sessions -> [op: {"idle", "write", "delete"},
                                edits: [Expenses -> Edit \cup {None}]]]
  /\ session'[s].edits[e] = [d EXCEPT !.ev = [d.ev EXCEPT !.at = now]]
  /\ \A t \in Sessions, x \in Expenses : (t # s \/ x # e) =>
       session'[t].edits[x] = session[t].edits[x]

\* What stamping does.
LEMMA StampEffect ==
  ASSUME IInv, NEW s \in Sessions, NEW e \in Expenses, Stamp(s, e)
  PROVE  \E now \in Nat \ {0}, d \in Edit : TakesTime(s, e, now, d)
<1> DEFINE d == session[s].edits[e]
<1>1. d \in Edit /\ d.ev \in Event /\ d.ev # None
  BY DEF Stamp, HasEvent, Touched, IInv, TypeOK, Edit
<1>2. PICK now \in 1..MaxStamp :
        /\ \A x \in Stamps(e) : x < now
        /\ session' = [session EXCEPT ![s].edits[e].ev.at = now]
  BY DEF Stamp
<1>3. now \in Nat \ {0}
  BY <1>2, BoundAssumption
<1>4. \A i \in DOMAIN hist[e] : hist[e][i].at < now
  BY <1>2 DEF Stamps
<1> DEFINE k == [d EXCEPT !.ev = [d.ev EXCEPT !.at = now]]
<1>5. k \in Edit
  BY <1>1, <1>3 DEF Edit, Event
<1>6. session' = [session EXCEPT ![s] = [session[s] EXCEPT !.edits = [session[s].edits EXCEPT ![e] = k]]]
  BY <1>2
<1> HIDE DEF k
<1>7. /\ session' \in [Sessions -> [op: {"idle", "write", "delete"},
                                     edits: [Expenses -> Edit \cup {None}]]]
      /\ session'[s].edits[e] = k
      /\ \A t \in Sessions, x \in Expenses : (t # s \/ x # e) =>
           session'[t].edits[x] = session[t].edits[x]
  BY <1>5, <1>6 DEF IInv, TypeOK
<1> QED
  BY <1>1, <1>3, <1>4, <1>7 DEF Stamp, TakesTime, k

\* Stamping a planned row preserves the invariant: the approval behind a
\* payment by hand was committed, and thus stamped, before.
LEMMA StampIInv ==
  ASSUME IInv, NEW s \in Sessions, NEW e \in Expenses, Stamp(s, e)
  PROVE  IInv'
<1>1. PICK now \in Nat \ {0}, d \in Edit : TakesTime(s, e, now, d)
  BY StampEffect
<1>0. /\ d = session[s].edits[e] /\ d.ev \in Event /\ d.ev # None
      /\ \A i \in DOMAIN hist[e] : hist[e][i].at < now
      /\ row' = row /\ hist' = hist /\ gone' = gone
      /\ session' \in [Sessions -> [op: {"idle", "write", "delete"},
                                    edits: [Expenses -> Edit \cup {None}]]]
      /\ session'[s].edits[e] = [d EXCEPT !.ev = [d.ev EXCEPT !.at = now]]
      /\ \A y \in Sessions, z \in Expenses : (y # s \/ z # e) =>
           session'[y].edits[z] = session[y].edits[z]
  BY <1>1 DEF TakesTime
<1>2. TypeOK'
  BY <1>0 DEF IInv, TypeOK
<1>3. GoneForGood' /\ StatusIsTold' /\ ApprovedBeforePaid' /\ NoSelfModeration'
  BY <1>0 DEF IInv, GoneForGood, StatusIsTold, ApprovedBeforePaid, NoSelfModeration
<1>4. EditOK(e, d) /\ (row[e] # None \/ e \in gone)
  BY <1>0, NoneAssumption DEF IInv, EditsOK
<1> DEFINE g == [d.ev EXCEPT !.at = now]
           k == [d EXCEPT !.ev = g]
<1>5. /\ g \in Event /\ g # None /\ g.at = now
      /\ g.act = d.ev.act /\ g.to = d.ev.to /\ g.by = d.ev.by /\ g.auto = d.ev.auto
      /\ k.snap = d.snap /\ k.tgt = d.tgt /\ k.ev = g
  BY <1>0, NoneAssumption DEF Edit, Event
<1> HIDE DEF g
<1>6. EditOK(e, k)
  <2>1. d.tgt.author = d.snap.author /\ d.tgt.status = g.to /\ d.tgt.status # d.snap.status
    BY <1>0, <1>4, <1>5 DEF EditOK
  <2>2. row[e] # None =>
          /\ d.snap.author = row[e].author
          /\ (g.act = "paid" /\ ~g.auto) =>
               \E j \in DOMAIN hist[e] : hist[e][j].to = "approved" /\ hist[e][j].at < now
    <3>1. row[e] # None => d.snap.author = row[e].author
      BY <1>4 DEF EditOK
    <3>2. ASSUME row[e] # None, g.act = "paid", ~g.auto
          PROVE  \E j \in DOMAIN hist[e] : hist[e][j].to = "approved"
      BY <1>0, <1>4, <1>5, <3>2 DEF EditOK
    <3> QED
      BY <1>0, <3>1, <3>2
  <2>3. (~SelfModeration /\ IsModeration(g)) => g.by # d.snap.author
    BY <1>0, <1>4, <1>5 DEF EditOK, IsModeration
  <2> HIDE DEF k
  <2> QED
    BY <1>5, <2>1, <2>2, <2>3 DEF EditOK
<1>7. EditsOK'
  <2> SUFFICES ASSUME NEW t \in Sessions, NEW x \in Expenses, (session[t].edits[x] # None)'
               PROVE  (EditOK(x, session[t].edits[x]) /\ (row[x] # None \/ x \in gone))'
    BY DEF EditsOK
  <2>1. CASE t = s /\ x = e
    <3>1. session'[t].edits[x] = k
      BY <1>0, <2>1 DEF g
    <3> HIDE DEF k
    <3> QED
      BY <1>0, <1>4, <1>6, <2>1, <3>1 DEF EditOK
  <2>2. CASE t # s \/ x # e
    <3>1. session'[t].edits[x] = session[t].edits[x]
      BY <1>0, <2>2
    <3>2. row' = row /\ hist' = hist /\ gone' = gone
      BY <1>0
    <3> QED
      BY <3>1, <3>2 DEF IInv, EditsOK, EditOK
  <2> QED
    BY <2>1, <2>2
<1> QED
  BY <1>2, <1>3, <1>7 DEF IInv

\* Committing an edit preserves the invariant: the merged row has the status
\* its event tells, and what the history already held stays in it.
LEMMA CommitIInv ==
  ASSUME IInv, NEW s \in Sessions, CommitWrite(s)
  PROVE  IInv'
<1> DEFINE d(e) == session[s].edits[e]
           touched == Touched(s)
<1>1. /\ touched \subseteq Expenses
      /\ \A e \in touched : d(e) \in Edit /\ row[e] \in Row /\ EditOK(e, d(e)) /\ row[e] # None
      /\ \A e \in Expenses : d(e) = None <=> e \notin touched
  BY DEF Touched, CommitWrite, IInv, TypeOK, EditsOK
<1>1a. \A e \in touched : d(e).ev # None => d(e).ev.at > 0
  BY DEF Touched, CommitWrite, HasEvent
<1>2. /\ \A e \in touched : row'[e] = Merge(row[e], d(e))
      /\ \A e \in Expenses \ touched : row'[e] = row[e]
      /\ \A e \in touched : d(e).ev # None => hist'[e] = Append(hist[e], d(e).ev)
      /\ \A e \in Expenses : (e \notin touched \/ d(e).ev = None) => hist'[e] = hist[e]
      /\ gone' = gone
      /\ session' = [session EXCEPT ![s] = Idle]
      /\ DOMAIN row' = Expenses /\ DOMAIN hist' = Expenses
  BY <1>1 DEF CommitWrite, HasEvent
<1> HIDE DEF touched
<1>3. \A e \in touched :
        /\ row'[e] \in Row
        /\ row'[e].author = row[e].author
        /\ d(e).ev = None => row'[e].status = row[e].status
        /\ d(e).ev # None => row'[e].status = d(e).ev.to
  BY <1>1, <1>2, MergeRow DEF EditOK
<1>4. \A e \in touched : d(e).ev # None => d(e).ev \in Event
  BY <1>1 DEF Edit
<1>5. \A e \in Expenses : hist[e] \in Seq(Event)
  BY DEF IInv, TypeOK
<1>6. TypeOK'
  <2>1. \A e \in Expenses : row'[e] \in Row \cup {None}
    BY <1>2, <1>3 DEF IInv, TypeOK
  <2>2. \A e \in Expenses : hist'[e] \in Seq(Event)
    BY <1>2, <1>4, <1>5
  <2>3. row' = [e \in Expenses |-> row'[e]] /\ hist' = [e \in Expenses |-> hist'[e]]
    BY DEF CommitWrite
  <2>4. row' \in [Expenses -> Row \cup {None}] /\ hist' \in [Expenses -> Seq(Event)]
    BY <2>1, <2>2, <2>3
  <2> QED
    BY <1>2, <2>4 DEF IInv, TypeOK, Idle
<1>7. \A e \in Expenses : row'[e] = None <=> row[e] = None
  BY <1>1, <1>2, <1>3, NoneAssumption
<1>8. GoneForGood'
  BY <1>1, <1>2, <1>7 DEF IInv, GoneForGood
<1>8a. ASSUME NEW e \in Expenses
       PROVE  \/ hist'[e] = hist[e]
              \/ /\ e \in touched /\ d(e).ev # None /\ d(e).ev \in Event
                 /\ hist'[e] = Append(hist[e], d(e).ev)
  BY <1>2, <1>4
<1> HIDE DEF d
<1>9. \A e \in Expenses : \A i \in DOMAIN hist[e] : i \in DOMAIN hist'[e] /\ hist'[e][i] = hist[e][i]
  BY <1>5, <1>8a
<1>10. \A e \in Expenses : \A i \in DOMAIN hist'[e] :
         \/ i \in DOMAIN hist[e] /\ hist'[e][i] = hist[e][i]
         \/ /\ e \in touched /\ d(e).ev # None /\ i = Len(hist[e]) + 1
            /\ hist'[e][i] = d(e).ev
  BY <1>5, <1>8a
<1> USE DEF d
<1>11. \A e \in Expenses : row[e] # None => row'[e].author = row[e].author
  BY <1>2, <1>3
<1>12. EditsOK'
  <2> SUFFICES ASSUME NEW t \in Sessions, NEW x \in Expenses, (session[t].edits[x] # None)'
               PROVE  (EditOK(x, session[t].edits[x]) /\ (row[x] # None \/ x \in gone))'
    BY DEF EditsOK
  <2>1. t # s /\ session'[t] = session[t]
    BY <1>2 DEF IInv, TypeOK, Idle
  <2>2. EditOK(x, session[t].edits[x]) /\ (row[x] # None \/ x \in gone)
    BY <2>1 DEF IInv, EditsOK
  <2> QED
    BY <1>2, <1>7, <1>9, <1>11, <2>1, <2>2 DEF EditOK
<1>13. StatusIsTold'
  <2> SUFFICES ASSUME NEW e \in Expenses, row'[e] # None
               PROVE  IF hist'[e] = <<>> THEN row'[e].status = "draft"
                      ELSE row'[e].status = hist'[e][Len(hist'[e])].to
    BY DEF StatusIsTold
  <2>1. CASE e \in touched /\ d(e).ev # None
    BY <1>2, <1>3, <1>4, <1>5, <2>1
  <2>2. CASE ~(e \in touched /\ d(e).ev # None)
    <3>1. hist'[e] = hist[e] /\ row'[e].status = row[e].status /\ row[e] # None
      BY <1>1, <1>2, <1>3, <1>7, <2>2
    <3> QED
      BY <3>1 DEF IInv, StatusIsTold
  <2> QED
    BY <2>1, <2>2
<1>14. ApprovedBeforePaid'
  <2> SUFFICES ASSUME NEW e \in Expenses, NEW i \in DOMAIN hist'[e],
                      hist'[e][i].act = "paid" /\ ~hist'[e][i].auto
               PROVE  \E j \in DOMAIN hist'[e] :
                        hist'[e][j].at < hist'[e][i].at /\ hist'[e][j].to = "approved"
    BY DEF ApprovedBeforePaid
  <2>1. CASE i \in DOMAIN hist[e] /\ hist'[e][i] = hist[e][i]
    BY <1>9, <2>1 DEF IInv, ApprovedBeforePaid
  <2>2. CASE e \in touched /\ d(e).ev # None /\ i = Len(hist[e]) + 1 /\ hist'[e][i] = d(e).ev
    <3>1. d(e).ev.at \in Nat \ {0}
      BY <1>1a, <1>4, <2>2 DEF Event
    <3>2. PICK j \in DOMAIN hist[e] : hist[e][j].to = "approved" /\ hist[e][j].at < d(e).ev.at
      BY <1>1, <2>2, <3>1 DEF EditOK
    <3> QED
      BY <1>9, <2>2, <3>2
  <2> QED
    BY <1>10, <2>1, <2>2
<1>15. NoSelfModeration'
  <2> SUFFICES ASSUME ~SelfModeration, NEW e \in Expenses, NEW i \in DOMAIN hist'[e],
                      IsModeration(hist'[e][i])
               PROVE  hist'[e][i].by # row'[e].author
    BY DEF NoSelfModeration, IsModeration
  <2>1. row[e] # None
    BY <1>1, <1>10 DEF IInv, GoneForGood
  <2>2. CASE i \in DOMAIN hist[e] /\ hist'[e][i] = hist[e][i]
    BY <1>11, <2>1, <2>2 DEF IInv, NoSelfModeration
  <2>3. CASE e \in touched /\ d(e).ev # None /\ hist'[e][i] = d(e).ev
    BY <1>1, <1>11, <2>1, <2>3 DEF EditOK
  <2> QED
    BY <1>10, <2>2, <2>3
<1> QED
  BY <1>6, <1>8, <1>12, <1>13, <1>14, <1>15 DEF IInv

\* Deleting requests preserves the invariant: their ids stay retired.
LEMMA DeleteIInv ==
  ASSUME IInv, NEW s \in Sessions, CommitDelete(s)
  PROVE  IInv'
<1> DEFINE touched == Touched(s)
<1>1. touched \subseteq Expenses
  BY DEF Touched
<1>2. /\ \A e \in touched : row'[e] = None /\ hist'[e] = <<>>
      /\ \A e \in Expenses \ touched : row'[e] = row[e] /\ hist'[e] = hist[e]
      /\ row' = [e \in Expenses |-> row'[e]] /\ hist' = [e \in Expenses |-> hist'[e]]
      /\ gone' = gone \cup touched
      /\ session' = [session EXCEPT ![s] = Idle]
  BY <1>1 DEF CommitDelete
<1> HIDE DEF touched
<1>3. TypeOK'
  <2>1. \A e \in Expenses : row[e] \in Row \cup {None} /\ hist[e] \in Seq(Event)
    BY DEF IInv, TypeOK
  <2>2. \A e \in Expenses : row'[e] \in Row \cup {None}
    BY <1>2, <2>1
  <2>3. <<>> \in Seq(Event)
    OBVIOUS
  <2>4. \A e \in Expenses : hist'[e] \in Seq(Event)
    BY <1>2, <2>1, <2>3
  <2>5. row' \in [Expenses -> Row \cup {None}] /\ hist' \in [Expenses -> Seq(Event)]
    BY <1>2, <2>2, <2>4
  <2> QED
    BY <1>1, <1>2, <2>5 DEF IInv, TypeOK, Idle
<1>4. GoneForGood'
  BY <1>2 DEF IInv, GoneForGood
<1>5. StatusIsTold'
  BY <1>2 DEF IInv, StatusIsTold
<1>6. ApprovedBeforePaid'
  BY <1>2 DEF IInv, ApprovedBeforePaid
<1>7. NoSelfModeration'
  BY <1>2 DEF IInv, NoSelfModeration, IsModeration
<1>8. EditsOK'
  <2> SUFFICES ASSUME NEW t \in Sessions, NEW x \in Expenses, (session[t].edits[x] # None)'
               PROVE  (EditOK(x, session[t].edits[x]) /\ (row[x] # None \/ x \in gone))'
    BY DEF EditsOK
  <2>1. t # s /\ session'[t] = session[t]
    BY <1>2 DEF IInv, TypeOK, Idle
  <2>2. EditOK(x, session[t].edits[x]) /\ (row[x] # None \/ x \in gone)
    BY <2>1 DEF IInv, EditsOK
  <2> QED
    BY <1>2, <2>1, <2>2 DEF EditOK
<1> QED
  BY <1>3, <1>4, <1>5, <1>6, <1>7, <1>8 DEF IInv

\* A handler that gives up preserves the invariant.
LEMMA AbortIInv ==
  ASSUME IInv, NEW s \in Sessions, Abort(s)
  PROVE  IInv'
<1>1. UNCHANGED <<row, hist, gone>> /\ session' = [session EXCEPT ![s] = Idle]
  BY DEF Abort
<1>2. TypeOK'
  BY <1>1 DEF IInv, TypeOK, Idle
<1>3. GoneForGood' /\ StatusIsTold' /\ ApprovedBeforePaid' /\ NoSelfModeration'
  BY <1>1 DEF IInv, GoneForGood, StatusIsTold, ApprovedBeforePaid, NoSelfModeration
<1>4. EditsOK'
  BY <1>1 DEF IInv, TypeOK, EditsOK, EditOK, Idle
<1> QED
  BY <1>2, <1>3, <1>4 DEF IInv

\* Every step preserves the invariant.
LEMMA NextIInv == IInv /\ [Next]_vars => IInv'
<1> SUFFICES ASSUME IInv, [Next]_vars PROVE IInv'
  OBVIOUS
<1>1. CASE UNCHANGED vars
  BY <1>1 DEF vars, IInv, TypeOK, GoneForGood, EditsOK, EditOK, StatusIsTold,
              ApprovedBeforePaid, NoSelfModeration
<1>2. CASE Next
  BY <1>2, CreateIInv, HandlerIInv, EmailIInv, SweepIInv, StampIInv, CommitIInv, DeleteIInv, AbortIInv
     DEF Next
<1> QED
  BY <1>1, <1>2

\* The invariant holds in every reachable state.
THEOREM Inductive == Spec => []IInv
  BY InitIInv, NextIInv, PTL DEF Spec

\* Every variable keeps its type, for any number of overlapping handlers.
THEOREM TypeCorrect == Spec => []TypeOK
  BY Inductive, PTL DEF IInv

\* However handlers overlap, the status of a request is the one told by the
\* history row that was committed last (every handler that moves a request).
THEOREM StatusTold == Spec => []StatusIsTold
  BY Inductive, PTL DEF IInv

\* However handlers overlap, a payment by hand has an approval above it in the
\* timeline, which is sorted by changed_at (pay_expense, add_status_history).
THEOREM PaidWasApproved == Spec => []ApprovedBeforePaid
  BY Inductive, PTL DEF IInv

\* With self-moderation off, no author ever moderates the own request.
THEOREM NobodyModeratesSelf == Spec => []NoSelfModeration
  BY Inductive, PTL DEF IInv

-----------------------------------------------------------------------------
(* Handlers that take turns implement ExpenseLifecycle *)

\* Handlers that do not overlap: there is one session.
OneSession == \A s, t \in Sessions : s = t

\* A staged edit of request e makes a step of the lifecycle.
PlanOK(e, d) ==
  \/ /\ d.ev = None
     /\ d.tgt.status = d.snap.status
     /\ d.tgt.paidBy = d.snap.paidBy /\ d.tgt.author = d.snap.author
  \/ /\ d.ev # None /\ d.snap.status # "paid"
     /\ d.tgt.status \in Lifecycle!After[d.snap.status]
  \/ d.ev # None /\ d.snap.status = "approved" /\ d.tgt.status = "paid"
  \/ /\ d.ev # None /\ d.snap.status \in {"draft", "pending_approval", "revision_required"}
     /\ d.tgt.status = "paid" /\ d.ev.auto /\ d.ev.to = "paid"
  \/ d.ev # None /\ d.snap.status = "paid" /\ d.tgt.status \in {"closed", "approved"}
  \/ /\ d.ev # None /\ d.snap.status = "paid" /\ d.tgt.status = "pending_approval"
     /\ WasAutoPaid(row[e], hist[e])

\* A row that is stamped is newer than the rows of the history.
StampIsNew(e, d) ==
  d.ev # None /\ d.ev.at > 0 => \A i \in DOMAIN hist[e] : hist[e][i].at < d.ev.at

\* What is staged was decided on the row as it still is.
Fresh ==
  \A s \in Sessions, e \in Expenses : session[s].edits[e] # None =>
    /\ row[e] # None
    /\ session[s].edits[e].snap = row[e]
    /\ PlanOK(e, session[s].edits[e])
    /\ StampIsNew(e, session[s].edits[e])

\* The handler of s stages a step of the lifecycle of e and nothing else.
Plans(s, e) ==
  /\ row[e] # None
  /\ \E tgt \in Row, ev \in Event \cup {None} :
       /\ Stage(s, e, tgt, ev) /\ PlanOK(e, [snap |-> row[e], tgt |-> tgt, ev |-> ev])
       /\ ev # None => ev.at = 0

LEMMA MovePlans ==
  ASSUME IInv, NEW s \in Sessions, NEW e \in Expenses, row[e] # None,
         NEW tgt \in Row, NEW act \in Acts, NEW by \in Users \cup {EmailUser},
         Move(s, e, tgt, act, by),
         \/ row[e].status # "paid" /\ tgt.status \in Lifecycle!After[row[e].status]
         \/ row[e].status = "approved" /\ tgt.status = "paid"
         \/ row[e].status = "paid" /\ tgt.status \in {"closed", "approved"}
         \/ /\ row[e].status = "paid" /\ tgt.status = "pending_approval"
            /\ WasAutoPaid(row[e], hist[e])
  PROVE  Plans(s, e)
<1> DEFINE ev == Ev(act, row[e].status, tgt.status, by)
<1>1. row[e] \in Row
  BY DEF IInv, TypeOK
<1>2. ev \in Event /\ ev # None /\ ev.at = 0
  <2>1. row[e].status \in Statuses /\ tgt.status \in Statuses
    BY <1>1 DEF Row
  <2>2. ev \in Event /\ ev.at = 0
    BY <2>1 DEF Ev, Event
  <2> QED
    BY <2>2, NoneAssumption
<1>3. Stage(s, e, tgt, ev)
  BY DEF Move
<1> HIDE DEF ev
<1>4. PlanOK(e, [snap |-> row[e], tgt |-> tgt, ev |-> ev])
  BY <1>2 DEF PlanOK
<1> QED
  BY <1>2, <1>3, <1>4 DEF Plans

\* An automatic payment of an open request.
LEMMA AutoPlanOK ==
  ASSUME NEW e \in Expenses, NEW r \in Row, NEW u \in Users, NEW job \in BOOLEAN,
         r.status \in {"draft", "pending_approval", "revision_required", "approved"}
  PROVE  /\ AutoPay(r, u) \in Row /\ AutoEvent(r.status, u, job) \in Event
         /\ AutoEvent(r.status, u, job).at = 0
         /\ PlanOK(e, [snap |-> r, tgt |-> AutoPay(r, u), ev |-> AutoEvent(r.status, u, job)])
<1>1. AutoPay(r, u) \in Row /\ AutoPay(r, u).status = "paid"
  BY DEF AutoPay, Row, Statuses
<1>2. /\ AutoEvent(r.status, u, job) \in Event
      /\ AutoEvent(r.status, u, job).auto /\ AutoEvent(r.status, u, job).to = "paid"
      /\ AutoEvent(r.status, u, job).at = 0
  BY DEF AutoEvent, Event, Row, Statuses, Acts
<1>3. AutoEvent(r.status, u, job) # None
  BY <1>2, NoneAssumption
<1> QED
  BY <1>1, <1>2, <1>3 DEF PlanOK

\* Every handler but the deletion stages a step of the lifecycle.
LEMMA HandlerPlans ==
  ASSUME IInv, NEW s \in Sessions, NEW u \in Users, NEW e \in Expenses,
         Handler(s, u, e), ~Delete(s, u, e)
  PROVE  Plans(s, e)
<1> DEFINE r == row[e]
<1> USE UserAssumption, NoneAssumption
<1>0. row[e] # None => row[e] \in Row /\ row[e].status \in Statuses
  BY DEF IInv, TypeOK, Row
<1>1. CASE \E type \in Types, reimb \in BOOLEAN, approver \in Approvers \cup {None} :
             Update(s, u, e, type, reimb, approver)
  <2> PICK type \in Types, reimb \in BOOLEAN, approver \in Approvers \cup {None} :
             Update(s, u, e, type, reimb, approver)
    BY <1>1
  <2> DEFINE tgt == [row[e] EXCEPT !.type = type, !.reimbursable = reimb,
              !.approver = IF approver = None THEN row[e].approver ELSE approver]
  <2>1. r \in Row /\ r # None
    BY <1>0 DEF Update, Loadable
  <2>2. /\ tgt \in Row /\ tgt.status = r.status
        /\ tgt.author = r.author /\ tgt.paidBy = r.paidBy
    BY <2>1, TypesAssumption DEF Row
  <2>3. Stage(s, e, tgt, None)
    BY DEF Update
  <2> HIDE DEF tgt
  <2>4. PlanOK(e, [snap |-> r, tgt |-> tgt, ev |-> None])
    BY <2>2 DEF PlanOK
  <2> QED
    BY <2>1, <2>2, <2>3, <2>4 DEF Plans
<1>2. CASE Submit(s, u, e)
  <2>1. r \in Row /\ r # None /\ r.status \in {"draft", "revision_required"}
    BY <1>0, <1>2 DEF Submit, Loadable
  <2> DEFINE partner == [r EXCEPT !.status = "approved",
                           !.approvedBy = IF r.approvedBy = None THEN u ELSE r.approvedBy]
             queued == [r EXCEPT !.status = "pending_approval"]
  <2>2. /\ partner \in Row /\ partner.status = "approved"
        /\ queued \in Row /\ queued.status = "pending_approval"
    BY <2>1 DEF Row, Statuses
  <2>3. \/ Stage(s, e, AutoPay(r, u), AutoEvent(r.status, u, FALSE))
        \/ Move(s, e, partner, "submitted", u)
        \/ Move(s, e, queued, "submitted", u)
    BY <1>2 DEF Submit
  <2> HIDE DEF partner, queued
  <2>4. {"approved", "pending_approval"} \subseteq Lifecycle!After[r.status] /\ "submitted" \in Acts
    BY <2>1 DEF Lifecycle!After, Acts
  <2>5. CASE Stage(s, e, AutoPay(r, u), AutoEvent(r.status, u, FALSE))
    BY <2>1, <2>5, AutoPlanOK DEF Plans
  <2>6. CASE Move(s, e, partner, "submitted", u)
    BY <2>1, <2>2, <2>4, <2>6, MovePlans
  <2>7. CASE Move(s, e, queued, "submitted", u)
    BY <2>1, <2>2, <2>4, <2>7, MovePlans
  <2> QED
    BY <2>3, <2>5, <2>6, <2>7
<1>3. CASE Approve(s, u, e)
  <2> DEFINE tgt == [row[e] EXCEPT !.status = "approved", !.approvedBy = u]
  <2>1. r \in Row /\ r # None /\ r.status = "pending_approval"
    BY <1>0, <1>3 DEF Approve, Loadable
  <2>2. tgt \in Row /\ tgt.status = "approved"
    BY <2>1 DEF Row, Statuses
  <2>3. Move(s, e, tgt, "approved", u)
    BY <1>3 DEF Approve
  <2> HIDE DEF tgt
  <2>4. tgt.status \in Lifecycle!After[r.status] /\ "approved" \in Acts
    BY <2>1, <2>2 DEF Lifecycle!After, Acts
  <2> QED
    BY <2>1, <2>2, <2>3, <2>4, MovePlans
<1>4. CASE Reject(s, u, e)
  <2> DEFINE tgt == [row[e] EXCEPT !.status = "rejected"]
  <2>1. r \in Row /\ r # None /\ r.status = "pending_approval"
    BY <1>0, <1>4 DEF Reject, Loadable
  <2>2. tgt \in Row /\ tgt.status = "rejected"
    BY <2>1 DEF Row, Statuses
  <2>3. Move(s, e, tgt, "rejected", u)
    BY <1>4 DEF Reject
  <2> HIDE DEF tgt
  <2>4. tgt.status \in Lifecycle!After[r.status] /\ "rejected" \in Acts
    BY <2>1, <2>2 DEF Lifecycle!After, Acts
  <2> QED
    BY <2>1, <2>2, <2>3, <2>4, MovePlans
<1>5. CASE Revise(s, u, e)
  <2> DEFINE tgt == [row[e] EXCEPT !.status = "revision_required"]
  <2>1. r \in Row /\ r # None /\ r.status = "pending_approval"
    BY <1>0, <1>5 DEF Revise, Loadable
  <2>2. tgt \in Row /\ tgt.status = "revision_required"
    BY <2>1 DEF Row, Statuses
  <2>3. Move(s, e, tgt, "revision_required", u)
    BY <1>5 DEF Revise
  <2> HIDE DEF tgt
  <2>4. tgt.status \in Lifecycle!After[r.status] /\ "revision_required" \in Acts
    BY <2>1, <2>2 DEF Lifecycle!After, Acts
  <2> QED
    BY <2>1, <2>2, <2>3, <2>4, MovePlans
<1>6. CASE Pay(s, u, e)
  <2> DEFINE tgt == [row[e] EXCEPT !.status = "paid", !.paidBy = u]
  <2>1. r \in Row /\ r # None /\ r.status = "approved"
    BY <1>0, <1>6 DEF Pay, Loadable
  <2>2. tgt \in Row /\ tgt.status = "paid" /\ "paid" \in Acts
    BY <2>1 DEF Row, Statuses, Acts
  <2>3. Move(s, e, tgt, "paid", u)
    BY <1>6 DEF Pay
  <2> HIDE DEF tgt
  <2> QED
    BY <2>1, <2>2, <2>3, MovePlans
<1>7. CASE Unpay(s, u, e)
  <2> DEFINE back == [r EXCEPT !.status = "pending_approval", !.paidBy = None, !.approvedBy = None]
             kept == [r EXCEPT !.status = "approved", !.paidBy = None]
  <2>1. r \in Row /\ r # None /\ r.status = "paid"
    BY <1>0, <1>7 DEF Unpay, Loadable
  <2>2. /\ back \in Row /\ back.status = "pending_approval"
        /\ kept \in Row /\ kept.status = "approved" /\ "unpaid" \in Acts
    BY <2>1 DEF Row, Statuses, Acts
  <2>3. \/ WasAutoPaid(r, hist[e]) /\ Move(s, e, back, "unpaid", u)
        \/ ~WasAutoPaid(r, hist[e]) /\ Move(s, e, kept, "unpaid", u)
    BY <1>7 DEF Unpay
  <2> HIDE DEF back, kept
  <2> QED
    BY <2>1, <2>2, <2>3, MovePlans
<1>8. CASE Unapprove(s, u, e)
  <2> DEFINE tgt == [row[e] EXCEPT !.status = "pending_approval", !.approvedBy = None]
  <2>1. r \in Row /\ r # None /\ r.status = "approved"
    BY <1>0, <1>8 DEF Unapprove, Loadable
  <2>2. tgt \in Row /\ tgt.status = "pending_approval"
    BY <2>1 DEF Row, Statuses
  <2>3. Move(s, e, tgt, "unapproved", u)
    BY <1>8 DEF Unapprove
  <2> HIDE DEF tgt
  <2>4. tgt.status \in Lifecycle!After[r.status] /\ "unapproved" \in Acts
    BY <2>1, <2>2 DEF Lifecycle!After, Acts
  <2> QED
    BY <2>1, <2>2, <2>3, <2>4, MovePlans
<1>9. CASE Close(s, u, e)
  <2>1. r \in Row /\ r # None
    BY <1>0, <1>9 DEF Close, Loadable
  <2> DEFINE closed == [r EXCEPT !.status = "closed"]
             marked == [r EXCEPT !.status = "not_reimbursable"]
  <2>2. \/ r.status \in {"paid", "not_reimbursable"} /\ Move(s, e, closed, "close", u)
        \/ r.status = "approved" /\ Move(s, e, marked, "mark_not_reimbursable", u)
    BY <1>9 DEF Close
  <2>3. /\ closed \in Row /\ closed.status = "closed"
        /\ marked \in Row /\ marked.status = "not_reimbursable"
        /\ {"close", "mark_not_reimbursable"} \subseteq Acts
    BY <2>1 DEF Row, Statuses, Acts
  <2> HIDE DEF closed, marked
  <2>4. /\ "closed" \in Lifecycle!After["not_reimbursable"]
        /\ "not_reimbursable" \in Lifecycle!After["approved"]
    BY DEF Lifecycle!After
  <2> QED
    BY <2>1, <2>2, <2>3, <2>4, MovePlans
<1>10. CASE Withdraw(s, u, e)
  <2> DEFINE tgt == [row[e] EXCEPT !.status = "withdrawn"]
  <2>1. r \in Row /\ r # None /\ r.status \in {"draft", "pending_approval", "revision_required",
                                               "approved", "not_reimbursable"}
    BY <1>0, <1>10 DEF Withdraw, Loadable, Statuses
  <2>2. tgt \in Row /\ tgt.status = "withdrawn"
    BY <2>1 DEF Row, Statuses
  <2>3. Move(s, e, tgt, "withdrawn", u)
    BY <1>10 DEF Withdraw
  <2> HIDE DEF tgt
  <2>4. r.status # "paid" /\ tgt.status \in Lifecycle!After[r.status] /\ "withdrawn" \in Acts
    BY <2>1, <2>2 DEF Lifecycle!After, Acts
  <2> QED
    BY <2>1, <2>2, <2>3, <2>4, MovePlans
<1> QED
  BY <1>1, <1>2, <1>3, <1>4, <1>5, <1>6, <1>7, <1>8, <1>9, <1>10 DEF Handler

\* So do the links of the moderation mail.
LEMMA EmailPlans ==
  ASSUME IInv, NEW s \in Sessions, NEW e \in Expenses,
         EmailApprove(s, e) \/ EmailReject(s, e)
  PROVE  Plans(s, e)
<1> DEFINE r == row[e]
           yes == [r EXCEPT !.status = "approved",
                     !.approvedBy = IF r.approver # None THEN r.approver ELSE r.approvedBy]
           no == [r EXCEPT !.status = "rejected"]
<1>1. r \in Row /\ r # None /\ r.status = "pending_approval"
  BY DEF EmailApprove, EmailReject, Loadable, IInv, TypeOK
<1>2. /\ yes \in Row /\ yes.status = "approved"
      /\ no \in Row /\ no.status = "rejected"
  BY <1>1, UserAssumption DEF Row, Statuses
<1>3. \/ Move(s, e, yes, "approved_via_email_link", EmailUser)
      \/ Move(s, e, no, "rejected_via_email_link", EmailUser)
  BY DEF EmailApprove, EmailReject
<1> HIDE DEF yes, no
<1>4. /\ {"approved", "rejected"} \subseteq Lifecycle!After["pending_approval"]
      /\ {"approved_via_email_link", "rejected_via_email_link"} \subseteq Acts
  BY DEF Lifecycle!After, Acts
<1> QED
  BY <1>1, <1>2, <1>3, <1>4, MovePlans

\* So does the sweep, for each request it touches.
LEMMA SweepPlanOK ==
  ASSUME IInv, NEW e \in Expenses, NEW known \in SUBSET AutoPaid, SweepEdit(e, known) # None
  PROVE  /\ row[e] # None /\ SweepEdit(e, known).snap = row[e]
         /\ PlanOK(e, SweepEdit(e, known)) /\ SweepEdit(e, known).ev.at = 0
<1> DEFINE r == row[e]
           tgt == RestoreTarget(hist[e])
           back == [r EXCEPT !.status = tgt, !.paidBy = None,
                      !.approvedBy = IF tgt = "approved" THEN r.approvedBy ELSE None]
           ev == [act |-> "status_restored", from |-> "paid", to |-> tgt,
                  by |-> r.author, auto |-> FALSE, job |-> TRUE, at |-> 0]
<1>1. r # None /\ r \in Row
  BY DEF SweepEdit, IInv, TypeOK
<1>2. CASE r.status = "paid" /\ WasAutoPaid(r, hist[e])
           /\ SweepEdit(e, known) = [snap |-> r, tgt |-> back, ev |-> ev]
  <2>1. tgt \in {"approved", "pending_approval"}
    BY DEF RestoreTarget
  <2>2. back.status = tgt
    BY <1>1, <2>1 DEF Row, Statuses
  <2>3. r.author \in Users /\ "status_restored" \in Acts
        /\ "paid" \in Statuses /\ tgt \in Statuses
    BY <1>1, <2>1 DEF Row, Statuses, Acts
  <2> HIDE DEF tgt, back
  <2>4. ev \in Event /\ ev.at = 0
    BY <2>3 DEF Event
  <2>5. ev # None
    BY <2>4, NoneAssumption
  <2> HIDE DEF ev
  <2>6. PlanOK(e, [snap |-> r, tgt |-> back, ev |-> ev])
    BY <1>2, <2>1, <2>2, <2>5 DEF PlanOK
  <2> QED
    BY <1>1, <1>2, <2>4, <2>6
<1>3. CASE /\ r.status \in {"pending_approval", "approved"}
           /\ SweepEdit(e, known) = [snap |-> r, tgt |-> AutoPay(r, r.author),
                                     ev |-> AutoEvent(r.status, r.author, TRUE)]
  <2>1. r.author \in Users
    BY <1>1 DEF Row
  <2>2. /\ PlanOK(e, [snap |-> r, tgt |-> AutoPay(r, r.author),
                      ev |-> AutoEvent(r.status, r.author, TRUE)])
        /\ AutoEvent(r.status, r.author, TRUE).at = 0
    BY <1>1, <1>3, <2>1, AutoPlanOK
  <2>3. /\ SweepEdit(e, known).snap = r
        /\ SweepEdit(e, known).ev = AutoEvent(r.status, r.author, TRUE)
    BY <1>3
  <2>4. PlanOK(e, SweepEdit(e, known))
    BY <1>3, <2>2
  <2> QED
    BY <1>1, <2>2, <2>3, <2>4
<1> QED
  BY <1>1, <1>2, <1>3 DEF SweepEdit

\* What is staged stays decided on the row as it is, when handlers take turns.
LEMMA FreshStays ==
  ASSUME OneSession, IInv, Fresh, [Next]_vars
  PROVE  Fresh'
<1> SUFFICES ASSUME NEW t \in Sessions, NEW x \in Expenses, session'[t].edits[x] # None
             PROVE  /\ row'[x] # None
                    /\ session'[t].edits[x].snap = row'[x]
                    /\ PlanOK(x, session[t].edits[x])' /\ StampIsNew(x, session[t].edits[x])'
  BY DEF Fresh
<1>1. ASSUME NEW s \in Sessions, NEW e \in Expenses, Plans(s, e)
      PROVE  /\ row'[x] # None /\ session'[t].edits[x].snap = row'[x]
             /\ PlanOK(x, session[t].edits[x])' /\ StampIsNew(x, session[t].edits[x])'
  <2>1. PICK tgt \in Row, ev \in Event \cup {None} :
          /\ Stage(s, e, tgt, ev) /\ PlanOK(e, [snap |-> row[e], tgt |-> tgt, ev |-> ev])
          /\ ev # None => ev.at = 0
    BY <1>1 DEF Plans
  <2>2. t = s
    BY DEF OneSession
  <2>3. /\ UNCHANGED <<row, hist>>
        /\ x = e /\ session'[t].edits[x] = [snap |-> row[e], tgt |-> tgt, ev |-> ev]
    BY <2>1, <2>2 DEF Stage, Idle, IInv, TypeOK
  <2> QED
    BY <1>1, <2>1, <2>3 DEF Plans, PlanOK, StampIsNew
<1>2. ASSUME NEW s \in Sessions, NEW u \in Users, NEW e \in Expenses, Delete(s, u, e)
      PROVE  /\ row'[x] # None /\ session'[t].edits[x].snap = row'[x]
             /\ PlanOK(x, session[t].edits[x])' /\ StampIsNew(x, session[t].edits[x])'
  <2>1. t = s
    BY DEF OneSession
  <2>2. /\ UNCHANGED <<row, hist>> /\ row[e] # None
        /\ x = e /\ session'[t].edits[x] = [snap |-> row[e], tgt |-> row[e], ev |-> None]
    BY <1>2, <2>1 DEF Delete, Loadable, Idle, IInv, TypeOK
  <2> QED
    BY <2>2 DEF PlanOK, StampIsNew
<1>3. ASSUME NEW s \in Sessions, Sweep(s)
      PROVE  /\ row'[x] # None /\ session'[t].edits[x].snap = row'[x]
             /\ PlanOK(x, session[t].edits[x])' /\ StampIsNew(x, session[t].edits[x])'
  <2>1. PICK known \in SUBSET AutoPaid :
          session' = [session EXCEPT ![s] =
            [op |-> "write", edits |-> [e \in Expenses |-> SweepEdit(e, known)]]]
    BY <1>3 DEF Sweep
  <2>2. t = s /\ UNCHANGED <<row, hist>>
    BY <1>3 DEF OneSession, Sweep
  <2>3. session'[t].edits[x] = SweepEdit(x, known)
    BY <2>1, <2>2 DEF IInv, TypeOK
  <2>4. /\ row[x] # None /\ SweepEdit(x, known).snap = row[x]
        /\ PlanOK(x, SweepEdit(x, known)) /\ SweepEdit(x, known).ev.at = 0
    BY <2>3, SweepPlanOK
  <2> HIDE DEF SweepEdit
  <2> QED
    BY <2>2, <2>3, <2>4 DEF PlanOK, StampIsNew
<1>4. ASSUME NEW s \in Sessions, CommitWrite(s) \/ CommitDelete(s) \/ Abort(s)
      PROVE  FALSE
  <2>1. session' = [session EXCEPT ![s] = Idle]
    BY <1>4 DEF CommitWrite, CommitDelete, Abort
  <2> QED
    BY <2>1 DEF OneSession, Idle, IInv, TypeOK
<1>5. ASSUME NEW u \in Users, NEW e \in Expenses, NEW type \in Types, NEW reimb \in BOOLEAN,
             Create(u, e, type, reimb)
      PROVE  /\ row'[x] # None /\ session'[t].edits[x].snap = row'[x]
             /\ PlanOK(x, session[t].edits[x])' /\ StampIsNew(x, session[t].edits[x])'
  <2>1. session' = session /\ row[e] = None
    BY <1>5 DEF Create
  <2>2. x # e
    BY <2>1 DEF Fresh
  <2>3. row'[x] = row[x] /\ hist'[x] = hist[x]
    BY <1>5, <2>2 DEF Create, IInv, TypeOK
  <2> QED
    BY <2>1, <2>3 DEF Fresh, PlanOK, StampIsNew
<1>6. CASE UNCHANGED vars
  BY <1>6 DEF vars, Fresh, PlanOK, StampIsNew
<1>7. ASSUME NEW s \in Sessions, NEW e \in Expenses, Stamp(s, e)
      PROVE  /\ row'[x] # None /\ session'[t].edits[x].snap = row'[x]
             /\ PlanOK(x, session[t].edits[x])' /\ StampIsNew(x, session[t].edits[x])'
  <2>1. PICK now \in Nat \ {0}, d \in Edit : TakesTime(s, e, now, d)
    BY <1>7, StampEffect
  <2>0. /\ d = session[s].edits[e] /\ d.ev \in Event /\ d.ev # None
        /\ \A i \in DOMAIN hist[e] : hist[e][i].at < now
        /\ row' = row /\ hist' = hist /\ gone' = gone
        /\ session' \in [Sessions -> [op: {"idle", "write", "delete"},
                                      edits: [Expenses -> Edit \cup {None}]]]
        /\ session'[s].edits[e] = [d EXCEPT !.ev = [d.ev EXCEPT !.at = now]]
        /\ \A y \in Sessions, z \in Expenses : (y # s \/ z # e) =>
             session'[y].edits[z] = session[y].edits[z]
    BY <2>1 DEF TakesTime
  <2>2. t = s
    BY DEF OneSession
  <2>3. CASE x # e
    <3>1. session'[t].edits[x] = session[t].edits[x]
      BY <2>0, <2>2, <2>3
    <3>2. row' = row /\ hist' = hist
      BY <2>0
    <3>3. /\ row[x] # None /\ session[t].edits[x].snap = row[x]
          /\ PlanOK(x, session[t].edits[x]) /\ StampIsNew(x, session[t].edits[x])
      BY <3>1 DEF Fresh
    <3>4. PlanOK(x, session[t].edits[x])'
      BY <3>1, <3>2, <3>3 DEF PlanOK
    <3>5. StampIsNew(x, session[t].edits[x])'
      BY <3>1, <3>2, <3>3 DEF StampIsNew
    <3> QED
      BY <3>1, <3>2, <3>3, <3>4, <3>5
  <2>4. CASE x = e
    <3> DEFINE g == [d.ev EXCEPT !.at = now]
               k == [d EXCEPT !.ev = g]
    <3>1. row[e] # None /\ d.snap = row[e] /\ PlanOK(e, d)
      BY <2>0, NoneAssumption DEF Fresh
    <3>2. /\ g \in Event /\ g # None /\ g.at = now /\ g.auto = d.ev.auto /\ g.to = d.ev.to
          /\ k.snap = d.snap /\ k.tgt = d.tgt /\ k.ev = g
      BY <2>0, NoneAssumption DEF Edit, Event
    <3>3. session'[t].edits[x] = k
      BY <2>0, <2>2, <2>4
    <3> HIDE DEF g, k
    <3>4. PlanOK(e, k)
      BY <2>0, <3>1, <3>2 DEF PlanOK
    <3>5. StampIsNew(e, k)
      BY <2>0, <3>2 DEF StampIsNew
    <3> QED
      BY <2>0, <2>4, <3>1, <3>2, <3>3, <3>4, <3>5 DEF PlanOK, StampIsNew
  <2> QED
    BY <2>3, <2>4
<1> QED
  BY <1>1, <1>2, <1>3, <1>4, <1>5, <1>6, <1>7, HandlerPlans, EmailPlans DEF Next

\* A merge into the row the edit was decided on is its target.
LEMMA MergeFresh ==
  ASSUME NEW cur \in Row, NEW d \in Edit, d.snap = cur
  PROVE  Merge(cur, d) = d.tgt
<1>1. d.tgt \in Row
  BY DEF Edit
<1>2. Merge(cur, d) =
        [status |-> d.tgt.status, type |-> d.tgt.type, reimbursable |-> d.tgt.reimbursable,
         author |-> d.tgt.author, approver |-> d.tgt.approver,
         approvedBy |-> d.tgt.approvedBy, paidBy |-> d.tgt.paidBy]
  BY DEF Merge, Changed
<1> QED
  BY <1>1, <1>2 DEF Row

\* After an automatic payment, stamped past the history, the newest payment is
\* automatic.
LEMMA AutoIsAuto ==
  ASSUME NEW h \in Seq(Event), NEW ev \in Event, ev.to = "paid", ev.auto, NEW r,
         \A i \in DOMAIN h : h[i].at < ev.at
  PROVE  WasAutoPaid(r, Append(h, ev))
<1> DEFINE g == Append(h, ev)
           n == Len(h) + 1
<1>1. /\ n \in DOMAIN g /\ g[n] = ev
      /\ \A i \in DOMAIN g : i # n => i \in DOMAIN h /\ g[i] = h[i]
  OBVIOUS
<1>2. ev.at \in Nat /\ \A i \in DOMAIN h : h[i].at \in Nat
  <2>1. ev.at \in Nat
    BY DEF Event
  <2>2. ASSUME NEW i \in DOMAIN h
        PROVE  h[i].at \in Nat
    <3>1. h[i] \in Event
      OBVIOUS
    <3> QED
      BY <3>1 DEF Event
  <2> QED
    BY <2>1, <2>2
<1> HIDE DEF g, n
<1>3. n \in PaidEvents(g) /\ \A j \in PaidEvents(g) : j # n => g[j].at < g[n].at
  BY <1>1, <1>2 DEF PaidEvents
<1>4. \A j \in PaidEvents(g) : g[j].at <= g[n].at
  <2> SUFFICES ASSUME NEW j \in PaidEvents(g), j # n PROVE g[j].at <= g[n].at
    BY <1>1, <1>2
  <2>1. g[j].at < g[n].at /\ g[j].at \in Nat /\ g[n].at \in Nat
    BY <1>1, <1>2, <1>3 DEF PaidEvents
  <2> QED
    BY <2>1
<1>5. LatestPaid(g) \in PaidEvents(g) /\ \A j \in PaidEvents(g) : g[j].at <= g[LatestPaid(g)].at
  BY <1>3, <1>4 DEF LatestPaid
<1>6. LatestPaid(g) = n
  <2>1. g[LatestPaid(g)].at \in Nat /\ g[n].at \in Nat
    BY <1>1, <1>2, <1>5 DEF PaidEvents
  <2> QED
    BY <1>3, <1>5, <2>1
<1> QED
  BY <1>1, <1>3, <1>6 DEF WasAutoPaid, g

\* Each request takes a step of its life when a handler commits.
LEMMA CommitLives ==
  ASSUME OneSession, IInv, Fresh, NEW s \in Sessions, CommitWrite(s), NEW e \in Expenses
  PROVE  \/ Lifecycle!Stays(e) \/ Lifecycle!Moves(e) \/ Lifecycle!IsPaid(e)
         \/ Lifecycle!EndsPayment(e)
<1> DEFINE d == session[s].edits[e]
<1> USE DEF LifeStatus, LifePayment
<1>1. CASE e \notin Touched(s)
  <2>1. row'[e] = row[e] /\ hist'[e] = hist[e] /\ gone' = gone
    BY <1>1 DEF CommitWrite, Touched, HasEvent
  <2> QED
    BY <2>1 DEF Lifecycle!Stays
<1>2. CASE e \in Touched(s)
  <2>1. d # None /\ d \in Edit /\ row[e] # None /\ row[e] \in Row /\ d.snap = row[e]
        /\ PlanOK(e, d)
    BY <1>2 DEF Touched, Fresh, IInv, TypeOK
  <2>2. row'[e] = d.tgt /\ d.tgt \in Row
    BY <1>2, <2>1, MergeFresh DEF CommitWrite, Edit
  <2>3. /\ d.ev = None => hist'[e] = hist[e]
        /\ d.ev # None => hist'[e] = Append(hist[e], d.ev) /\ d.ev \in Event
    BY <1>2, <2>1 DEF CommitWrite, HasEvent, Edit
  <2>4. d.tgt # None /\ d.tgt.status \in Statuses
    BY <2>2, NoneAssumption DEF Row
  <2>5. LifeStatus[e] = row[e].status /\ LifeStatus'[e] = d.tgt.status
    BY <2>1, <2>2, <2>4
  <2>6. /\ LifePayment[e] = IF row[e].status # "paid" THEN "none"
                            ELSE IF WasAutoPaid(row[e], hist[e]) THEN "auto" ELSE "hand"
        /\ LifePayment'[e] = IF d.tgt.status # "paid" THEN "none"
                             ELSE IF WasAutoPaid(d.tgt, hist'[e]) THEN "auto" ELSE "hand"
    BY <2>1, <2>2, <2>4
  <2> HIDE DEF d, LifeStatus, LifePayment
  <2>7. CASE /\ d.ev = None /\ d.tgt.status = d.snap.status
             /\ d.tgt.paidBy = d.snap.paidBy /\ d.tgt.author = d.snap.author
    <3>1. WasAutoPaid(d.tgt, hist'[e]) = WasAutoPaid(row[e], hist[e])
      BY <2>1, <2>3, <2>7 DEF WasAutoPaid
    <3> QED
      BY <2>1, <2>5, <2>6, <2>7, <3>1 DEF Lifecycle!Stays
  <2>8. CASE d.snap.status # "paid" /\ d.tgt.status \in Lifecycle!After[d.snap.status]
    <3>1. d.tgt.status # "paid"
      BY <2>1, <2>8 DEF Lifecycle!After, Row, Statuses
    <3> QED
      BY <2>1, <2>5, <2>6, <2>8, <3>1 DEF Lifecycle!Moves
  <2>9. CASE d.snap.status = "approved" /\ d.tgt.status = "paid"
    BY <2>1, <2>5, <2>6, <2>9 DEF Lifecycle!IsPaid
  <2>10. CASE /\ d.ev # None /\ d.snap.status \in {"draft", "pending_approval", "revision_required"}
              /\ d.tgt.status = "paid" /\ d.ev.auto /\ d.ev.to = "paid"
    <3>1. WasAutoPaid(d.tgt, hist'[e])
      <4>1. hist[e] \in Seq(Event)
        BY DEF IInv, TypeOK
      <4>2. d.ev \in Event /\ hist'[e] = Append(hist[e], d.ev)
        BY <2>3, <2>10
      <4>3. \A i \in DOMAIN hist[e] : hist[e][i].at < d.ev.at
        BY <1>2, <2>1, <2>10 DEF d, Fresh, StampIsNew, CommitWrite, HasEvent
      <4>4. WasAutoPaid(d.tgt, Append(hist[e], d.ev))
        BY <2>10, <4>1, <4>2, <4>3, AutoIsAuto
      <4> QED
        BY <4>2, <4>4
    <3> QED
      BY <2>1, <2>5, <2>6, <2>10, <3>1 DEF Lifecycle!IsPaid
  <2>11. CASE d.snap.status = "paid" /\ d.tgt.status \in {"closed", "approved"}
    BY <2>1, <2>5, <2>6, <2>11 DEF Lifecycle!EndsPayment
  <2>12. CASE /\ d.snap.status = "paid" /\ d.tgt.status = "pending_approval"
              /\ WasAutoPaid(row[e], hist[e])
    BY <2>1, <2>5, <2>6, <2>12 DEF Lifecycle!EndsPayment
  <2> QED
    BY <2>1, <2>7, <2>8, <2>9, <2>10, <2>11, <2>12 DEF PlanOK
<1> QED
  BY <1>1, <1>2

\* The mapped variables have the types of the lifecycle after every step.
LEMMA LifeTypes ==
  ASSUME IInv'
  PROVE  /\ LifeStatus' \in [Expenses -> DOMAIN Lifecycle!After \cup {"paid"}]
         /\ LifePayment' \in [Expenses -> {"none", "hand", "auto"}]
<1>1. Statuses \cup {"none", "deleted"} \subseteq DOMAIN Lifecycle!After \cup {"paid"}
  BY DEF Statuses, Lifecycle!After
<1>2. \A e \in Expenses : row'[e] # None => row'[e].status \in Statuses
  BY DEF IInv, TypeOK, Row
<1> QED
  BY <1>1, <1>2 DEF LifeStatus, LifePayment

\* Every step of the handlers is a step of the lifecycle.
LEMMA StepLives ==
  ASSUME OneSession, IInv, IInv', Fresh, [Next]_vars
  PROVE  [Lifecycle!Next]_(Lifecycle!vars)
<1> DEFINE Lives(e) == \/ Lifecycle!Stays(e) \/ Lifecycle!Moves(e) \/ Lifecycle!IsPaid(e)
                       \/ Lifecycle!EndsPayment(e) \/ Lifecycle!IsDeleted(e)
<1>1. CASE UNCHANGED <<row, hist, gone>>
  <2>1. LifeStatus' = LifeStatus /\ LifePayment' = LifePayment
    BY <1>1 DEF LifeStatus, LifePayment, WasAutoPaid, PaidEvents, LatestPaid
  <2> QED
    BY <2>1 DEF Lifecycle!vars
<1>2. ASSUME NEW u \in Users, NEW e \in Expenses, NEW type \in Types, NEW reimb \in BOOLEAN,
             Create(u, e, type, reimb), NEW x \in Expenses
      PROVE  Lives(x)
  <2>1. CASE x # e
    <3>1. row'[x] = row[x] /\ hist'[x] = hist[x] /\ gone' = gone
      BY <1>2, <2>1 DEF Create, IInv, TypeOK
    <3> QED
      BY <3>1 DEF Lifecycle!Stays, LifeStatus, LifePayment
  <2>2. CASE x = e
    <3>1. row[x] = None /\ x \notin gone /\ row'[x].status \in {"approved", "draft"}
      BY <1>2, <2>2 DEF Create, IInv, TypeOK
    <3>2. row'[x] # None
      <4>1. row'[x] \in Row
        BY <1>2, <2>2, TypesAssumption DEF Create, IInv, TypeOK, Row, Statuses
      <4> QED
        BY <4>1, NoneAssumption
    <3>3. /\ LifeStatus[x] = "none" /\ LifeStatus'[x] \in {"approved", "draft"}
          /\ LifePayment'[x] = "none"
      BY <3>1, <3>2 DEF LifeStatus, LifePayment
    <3> QED
      BY <3>3 DEF Lifecycle!Moves, Lifecycle!After
  <2> QED
    BY <2>1, <2>2
<1>3. ASSUME NEW s \in Sessions, CommitDelete(s), NEW x \in Expenses
      PROVE  Lives(x)
  <2>1. CASE x \notin Touched(s)
    <3>1. row'[x] = row[x] /\ hist'[x] = hist[x] /\ (x \in gone' <=> x \in gone)
      BY <1>3, <2>1 DEF CommitDelete
    <3> QED
      BY <3>1 DEF Lifecycle!Stays, LifeStatus, LifePayment
  <2>2. CASE x \in Touched(s)
    <3>1. row[x] # None /\ row'[x] = None /\ x \in gone'
      BY <1>3, <2>2 DEF CommitDelete
    <3>2. row[x].status \in Statuses
      BY <3>1 DEF IInv, TypeOK, Row
    <3> QED
      BY <3>1, <3>2 DEF Lifecycle!IsDeleted, LifeStatus, LifePayment, Statuses
  <2> QED
    BY <2>1, <2>2
<1>4. ASSUME NEW s \in Sessions, CommitWrite(s), NEW x \in Expenses
      PROVE  Lives(x)
  BY <1>4, CommitLives
<1>5. \/ UNCHANGED <<row, hist, gone>>
      \/ \E u \in Users, e \in Expenses, type \in Types, reimb \in BOOLEAN :
           Create(u, e, type, reimb)
      \/ \E s \in Sessions : CommitWrite(s) \/ CommitDelete(s)
  <2>1. ASSUME NEW s \in Sessions, NEW u \in Users, NEW e \in Expenses, Handler(s, u, e)
        PROVE  UNCHANGED <<row, hist, gone>>
    BY <2>1 DEF Handler, Update, Submit, Approve, Reject, Revise, Pay, Unpay, Unapprove,
                Close, Withdraw, Delete, Move, Stage
  <2>2. ASSUME NEW s \in Sessions, NEW e \in Expenses, EmailApprove(s, e) \/ EmailReject(s, e)
        PROVE  UNCHANGED <<row, hist, gone>>
    BY <2>2 DEF EmailApprove, EmailReject, Move, Stage
  <2>3. ASSUME NEW s \in Sessions, Sweep(s) \/ Abort(s) \/ \E e \in Expenses : Stamp(s, e)
        PROVE  UNCHANGED <<row, hist, gone>>
    BY <2>3 DEF Sweep, Abort, Stamp
  <2> QED
    BY <2>1, <2>2, <2>3 DEF Next, vars
<1>6. CASE \A x \in Expenses : Lives(x)
  <2>1. /\ LifeStatus' \in [Expenses -> DOMAIN Lifecycle!After \cup {"paid"}]
        /\ LifePayment' \in [Expenses -> {"none", "hand", "auto"}]
    BY LifeTypes
  <2>2. \A x \in Expenses : \/ Lifecycle!Stays(x) \/ Lifecycle!Moves(x) \/ Lifecycle!IsPaid(x)
                             \/ Lifecycle!EndsPayment(x) \/ Lifecycle!IsDeleted(x)
    BY <1>6
  <2> QED
    BY <2>1, <2>2 DEF Lifecycle!Next
<1> QED
  BY <1>1, <1>2, <1>3, <1>4, <1>5, <1>6

(* With handlers that take turns the workflow implements the lifecycle: final
   statuses are final, deleted requests stay deleted, a payment by hand follows
   an approval and does not lead back to the queue (unpay_expense,
   _auto_pay_open_expenses and every status handler). *)
THEOREM WorkflowFollowsLifecycle ==
  ASSUME OneSession
  PROVE  Spec => FollowsLifecycle
<1>1. Init => Fresh
  BY DEF Init, Fresh, Idle
<1>2. Init => Lifecycle!Init
  BY DEF Init, Lifecycle!Init, LifeStatus, LifePayment
<1>3. IInv /\ Fresh /\ [Next]_vars => Fresh'
  BY FreshStays
<1>4. IInv /\ IInv' /\ Fresh /\ [Next]_vars => [Lifecycle!Next]_(Lifecycle!vars)
  BY StepLives
<1> QED
  BY <1>1, <1>2, <1>3, <1>4, Inductive, PTL DEF Spec, FollowsLifecycle, Lifecycle!Spec

-----------------------------------------------------------------------------
(* What the history and the columns say when handlers take turns *)

\* The approver and the payer of a row fit its status.
Stamped(r) ==
  /\ r.status \in {"draft", "revision_required", "pending_approval"} => r.approvedBy = None
  /\ r.status = "paid" => r.paidBy # None
  /\ r.paidBy # None => r.status \in {"paid", "closed"}

\* A staged edit of request e continues its history where it stands, leaves a
\* stamped row, and is no payment by the sweep of what a person took back.
Tells(e, d) ==
  /\ Stamped(d.tgt)
  /\ d.ev # None =>
       /\ d.ev.from = d.snap.status /\ d.ev.act # "created"
       /\ d.ev.act = "paid" /\ d.ev.job => ~ReturnedFromPaid(hist[e])

\* The inductive invariant of handlers that take turns, beside Fresh.
TurnInv ==
  /\ HistoryIsAChain
  /\ StampsMatchStatus
  /\ SweepRespectsCancel
  /\ \A s \in Sessions, e \in Expenses :
       session[s].edits[e] # None => Tells(e, session[s].edits[e])

\* The handler of s stages an edit of e that tells what it does.
StagesTelling(s, e) ==
  \E tgt \in Row, ev \in Event \cup {None} :
    Stage(s, e, tgt, ev) /\ Tells(e, [snap |-> row[e], tgt |-> tgt, ev |-> ev])

\* A status change tells where it starts.
LEMMA MoveTells ==
  ASSUME IInv, NEW s \in Sessions, NEW e \in Expenses, row[e] \in Row,
         NEW tgt \in Row, NEW act \in Acts \ {"created"}, NEW by \in Users \cup {EmailUser},
         Move(s, e, tgt, act, by), Stamped(tgt)
  PROVE  StagesTelling(s, e)
<1> DEFINE ev == Ev(act, row[e].status, tgt.status, by)
<1>1. row[e].status \in Statuses /\ tgt.status \in Statuses
  BY DEF Row
<1>2. ev \in Event /\ ev.from = row[e].status /\ ev.act # "created" /\ ~ev.job
  BY <1>1 DEF Ev, Event
<1>3. Stage(s, e, tgt, ev)
  BY DEF Move
<1> HIDE DEF ev
<1>4. Tells(e, [snap |-> row[e], tgt |-> tgt, ev |-> ev])
  BY <1>2 DEF Tells
<1> QED
  BY <1>2, <1>3, <1>4 DEF StagesTelling

\* An automatic payment names its payer and starts where the request stands.
LEMMA AutoPayTells ==
  ASSUME NEW e \in Expenses, NEW r \in Row, NEW u \in Users, NEW job \in BOOLEAN,
         job => ~ReturnedFromPaid(hist[e])
  PROVE  /\ AutoPay(r, u) \in Row /\ AutoEvent(r.status, u, job) \in Event
         /\ Tells(e, [snap |-> r, tgt |-> AutoPay(r, u), ev |-> AutoEvent(r.status, u, job)])
<1> DEFINE k == AutoPay(r, u)
           ev == AutoEvent(r.status, u, job)
<1>1. k \in Row /\ k.status = "paid" /\ k.paidBy = u
  BY DEF AutoPay, Row, Statuses
<1>2. /\ ev \in Event /\ ev.from = r.status /\ ev.act # "created" /\ ev.job = job
  BY DEF AutoEvent, Event, Row, Statuses, Acts
<1> HIDE DEF k, ev
<1>3. Stamped(k)
  BY <1>1, NoneAssumption DEF Stamped
<1>4. Tells(e, [snap |-> r, tgt |-> k, ev |-> ev])
  BY <1>2, <1>3 DEF Tells
<1> QED
  BY <1>1, <1>2, <1>4 DEF k, ev

\* Every handler but the deletion stages an edit that tells what it does.
LEMMA HandlerTells ==
  ASSUME IInv, StampsMatchStatus, NEW s \in Sessions, NEW u \in Users, NEW e \in Expenses,
         Handler(s, u, e), ~Delete(s, u, e)
  PROVE  StagesTelling(s, e)
<1> DEFINE r == row[e]
<1> USE UserAssumption, NoneAssumption
<1>0. row[e] # None => r \in Row /\ r.status \in Statuses /\ Stamped(r)
  BY DEF IInv, TypeOK, Row, StampsMatchStatus, Stamped
<1>1. CASE \E type \in Types, reimb \in BOOLEAN, approver \in Approvers \cup {None} :
             Update(s, u, e, type, reimb, approver)
  <2> PICK type \in Types, reimb \in BOOLEAN, approver \in Approvers \cup {None} :
             Update(s, u, e, type, reimb, approver)
    BY <1>1
  <2> DEFINE tgt == [row[e] EXCEPT !.type = type, !.reimbursable = reimb,
              !.approver = IF approver = None THEN row[e].approver ELSE approver]
  <2>1. r \in Row /\ Stamped(r)
    BY <1>0 DEF Update, Loadable
  <2>2. /\ tgt \in Row /\ tgt.status = r.status
        /\ tgt.approvedBy = r.approvedBy /\ tgt.paidBy = r.paidBy
    BY <2>1, TypesAssumption DEF Row
  <2>3. Stage(s, e, tgt, None)
    BY DEF Update
  <2> HIDE DEF tgt
  <2>4. Tells(e, [snap |-> r, tgt |-> tgt, ev |-> None])
    BY <2>1, <2>2 DEF Tells, Stamped
  <2> QED
    BY <2>2, <2>3, <2>4 DEF StagesTelling
<1>2. CASE Submit(s, u, e)
  <2>1. r \in Row /\ r.status \in {"draft", "revision_required"} /\ Stamped(r)
    BY <1>0, <1>2 DEF Submit, Loadable
  <2> DEFINE partner == [r EXCEPT !.status = "approved",
                           !.approvedBy = IF r.approvedBy = None THEN u ELSE r.approvedBy]
             queued == [r EXCEPT !.status = "pending_approval"]
  <2>2. /\ partner \in Row /\ partner.status = "approved" /\ partner.paidBy = r.paidBy
        /\ queued \in Row /\ queued.status = "pending_approval"
        /\ queued.approvedBy = r.approvedBy /\ queued.paidBy = r.paidBy
    BY <2>1 DEF Row, Statuses
  <2>3. \/ Stage(s, e, AutoPay(r, u), AutoEvent(r.status, u, FALSE))
        \/ Move(s, e, partner, "submitted", u)
        \/ Move(s, e, queued, "submitted", u)
    BY <1>2 DEF Submit
  <2> HIDE DEF partner, queued
  <2>4. Stamped(partner) /\ Stamped(queued) /\ "submitted" \in Acts \ {"created"}
    BY <2>1, <2>2 DEF Stamped, Acts
  <2>5. CASE Stage(s, e, AutoPay(r, u), AutoEvent(r.status, u, FALSE))
    BY <2>1, <2>5, AutoPayTells DEF StagesTelling
  <2>6. CASE Move(s, e, partner, "submitted", u)
    BY <2>1, <2>2, <2>4, <2>6, MoveTells
  <2>7. CASE Move(s, e, queued, "submitted", u)
    BY <2>1, <2>2, <2>4, <2>7, MoveTells
  <2> QED
    BY <2>3, <2>5, <2>6, <2>7
<1>3. CASE Approve(s, u, e)
  <2> DEFINE tgt == [row[e] EXCEPT !.status = "approved", !.approvedBy = u]
  <2>1. r \in Row /\ r.status = "pending_approval" /\ Stamped(r)
    BY <1>0, <1>3 DEF Approve, Loadable
  <2>2. tgt \in Row /\ tgt.status = "approved" /\ tgt.paidBy = r.paidBy
    BY <2>1 DEF Row, Statuses
  <2>3. Move(s, e, tgt, "approved", u) /\ "approved" \in Acts \ {"created"}
    BY <1>3 DEF Approve, Acts
  <2> HIDE DEF tgt
  <2>4. Stamped(tgt)
    BY <2>1, <2>2 DEF Stamped
  <2> QED
    BY <2>1, <2>2, <2>3, <2>4, MoveTells
<1>4. CASE Reject(s, u, e) \/ Revise(s, u, e)
  <2> DEFINE no == [row[e] EXCEPT !.status = "rejected"]
             again == [row[e] EXCEPT !.status = "revision_required"]
  <2>1. r \in Row /\ r.status = "pending_approval" /\ Stamped(r)
    BY <1>0, <1>4 DEF Reject, Revise, Loadable
  <2>2. /\ no \in Row /\ no.status = "rejected" /\ no.paidBy = r.paidBy
        /\ again \in Row /\ again.status = "revision_required"
        /\ again.paidBy = r.paidBy /\ again.approvedBy = r.approvedBy
    BY <2>1 DEF Row, Statuses
  <2>3. /\ Move(s, e, no, "rejected", u) \/ Move(s, e, again, "revision_required", u)
        /\ {"rejected", "revision_required"} \subseteq Acts \ {"created"}
    BY <1>4 DEF Reject, Revise, Acts
  <2> HIDE DEF no, again
  <2>4. Stamped(no) /\ Stamped(again)
    BY <2>1, <2>2 DEF Stamped
  <2> QED
    BY <2>1, <2>2, <2>3, <2>4, MoveTells
<1>5. CASE Pay(s, u, e)
  <2> DEFINE tgt == [row[e] EXCEPT !.status = "paid", !.paidBy = u]
  <2>1. r \in Row
    BY <1>0, <1>5 DEF Pay, Loadable
  <2>2. tgt \in Row /\ tgt.status = "paid" /\ tgt.paidBy # None
    BY <2>1 DEF Row, Statuses
  <2>3. Move(s, e, tgt, "paid", u) /\ "paid" \in Acts \ {"created"}
    BY <1>5 DEF Pay, Acts
  <2> HIDE DEF tgt
  <2>4. Stamped(tgt)
    BY <2>2 DEF Stamped
  <2> QED
    BY <2>1, <2>2, <2>3, <2>4, MoveTells
<1>6. CASE Unpay(s, u, e)
  <2> DEFINE back == [r EXCEPT !.status = "pending_approval", !.paidBy = None, !.approvedBy = None]
             kept == [r EXCEPT !.status = "approved", !.paidBy = None]
  <2>1. r \in Row
    BY <1>0, <1>6 DEF Unpay, Loadable
  <2>2. /\ back \in Row /\ back.status = "pending_approval"
        /\ back.paidBy = None /\ back.approvedBy = None
        /\ kept \in Row /\ kept.status = "approved" /\ kept.paidBy = None
    BY <2>1 DEF Row, Statuses
  <2>3. /\ Move(s, e, back, "unpaid", u) \/ Move(s, e, kept, "unpaid", u)
        /\ "unpaid" \in Acts \ {"created"}
    BY <1>6 DEF Unpay, Acts
  <2> HIDE DEF back, kept
  <2>4. Stamped(back) /\ Stamped(kept)
    BY <2>2 DEF Stamped
  <2> QED
    BY <2>1, <2>2, <2>3, <2>4, MoveTells
<1>7. CASE Unapprove(s, u, e)
  <2> DEFINE tgt == [row[e] EXCEPT !.status = "pending_approval", !.approvedBy = None]
  <2>1. r \in Row /\ r.status = "approved" /\ Stamped(r)
    BY <1>0, <1>7 DEF Unapprove, Loadable
  <2>2. /\ tgt \in Row /\ tgt.status = "pending_approval"
        /\ tgt.approvedBy = None /\ tgt.paidBy = r.paidBy
    BY <2>1 DEF Row, Statuses
  <2>3. Move(s, e, tgt, "unapproved", u) /\ "unapproved" \in Acts \ {"created"}
    BY <1>7 DEF Unapprove, Acts
  <2> HIDE DEF tgt
  <2>4. Stamped(tgt)
    BY <2>1, <2>2 DEF Stamped
  <2> QED
    BY <2>1, <2>2, <2>3, <2>4, MoveTells
<1>8. CASE Close(s, u, e)
  <2> DEFINE closed == [r EXCEPT !.status = "closed"]
             marked == [r EXCEPT !.status = "not_reimbursable"]
  <2>1. r \in Row /\ Stamped(r)
    BY <1>0, <1>8 DEF Close, Loadable
  <2>2. /\ closed \in Row /\ closed.status = "closed"
        /\ marked \in Row /\ marked.status = "not_reimbursable" /\ marked.paidBy = r.paidBy
    BY <2>1 DEF Row, Statuses
  <2>3. /\ \/ Move(s, e, closed, "close", u)
           \/ r.status = "approved" /\ Move(s, e, marked, "mark_not_reimbursable", u)
        /\ {"close", "mark_not_reimbursable"} \subseteq Acts \ {"created"}
    BY <1>8 DEF Close, Acts
  <2> HIDE DEF closed, marked
  <2>4. Stamped(closed) /\ (r.status = "approved" => Stamped(marked))
    BY <2>1, <2>2 DEF Stamped
  <2> QED
    BY <2>1, <2>2, <2>3, <2>4, MoveTells
<1>9. CASE Withdraw(s, u, e)
  <2> DEFINE tgt == [row[e] EXCEPT !.status = "withdrawn"]
  <2>1. r \in Row /\ r.status \notin {"paid", "closed"} /\ Stamped(r)
    BY <1>0, <1>9 DEF Withdraw, Loadable
  <2>2. tgt \in Row /\ tgt.status = "withdrawn" /\ tgt.paidBy = r.paidBy
    BY <2>1 DEF Row, Statuses
  <2>3. Move(s, e, tgt, "withdrawn", u) /\ "withdrawn" \in Acts \ {"created"}
    BY <1>9 DEF Withdraw, Acts
  <2> HIDE DEF tgt
  <2>4. Stamped(tgt)
    BY <2>1, <2>2 DEF Stamped
  <2> QED
    BY <2>1, <2>2, <2>3, <2>4, MoveTells
<1> QED
  BY <1>1, <1>2, <1>3, <1>4, <1>5, <1>6, <1>7, <1>8, <1>9 DEF Handler

\* So do the links of the moderation mail.
LEMMA EmailTells ==
  ASSUME IInv, StampsMatchStatus, NEW s \in Sessions, NEW e \in Expenses,
         EmailApprove(s, e) \/ EmailReject(s, e)
  PROVE  StagesTelling(s, e)
<1> DEFINE r == row[e]
           yes == [r EXCEPT !.status = "approved",
                     !.approvedBy = IF r.approver # None THEN r.approver ELSE r.approvedBy]
           no == [r EXCEPT !.status = "rejected"]
<1>1. r \in Row /\ r.status = "pending_approval" /\ Stamped(r)
  BY DEF EmailApprove, EmailReject, Loadable, IInv, TypeOK, StampsMatchStatus, Stamped
<1>2. /\ yes \in Row /\ yes.status = "approved" /\ yes.paidBy = r.paidBy
      /\ no \in Row /\ no.status = "rejected" /\ no.paidBy = r.paidBy
  BY <1>1, UserAssumption DEF Row, Statuses
<1>3. /\ \/ Move(s, e, yes, "approved_via_email_link", EmailUser)
         \/ Move(s, e, no, "rejected_via_email_link", EmailUser)
      /\ {"approved_via_email_link", "rejected_via_email_link"} \subseteq Acts \ {"created"}
  BY DEF EmailApprove, EmailReject, Acts
<1> HIDE DEF yes, no
<1>4. Stamped(yes) /\ Stamped(no)
  BY <1>1, <1>2 DEF Stamped
<1> QED
  BY <1>1, <1>2, <1>3, <1>4, MoveTells

\* So does the sweep, for each request it touches.
LEMMA SweepTells ==
  ASSUME IInv, NEW e \in Expenses, NEW known \in SUBSET AutoPaid, SweepEdit(e, known) # None
  PROVE  Tells(e, SweepEdit(e, known))
<1> DEFINE r == row[e]
           tgt == RestoreTarget(hist[e])
           back == [r EXCEPT !.status = tgt, !.paidBy = None,
                      !.approvedBy = IF tgt = "approved" THEN r.approvedBy ELSE None]
           ev == [act |-> "status_restored", from |-> "paid", to |-> tgt,
                  by |-> r.author, auto |-> FALSE, job |-> TRUE, at |-> 0]
<1>1. r # None /\ r \in Row
  BY DEF SweepEdit, IInv, TypeOK
<1>2. CASE r.status = "paid" /\ SweepEdit(e, known) = [snap |-> r, tgt |-> back, ev |-> ev]
  <2>1. tgt \in {"approved", "pending_approval"}
    BY DEF RestoreTarget
  <2>2. /\ back.status = tgt /\ back.paidBy = None
        /\ tgt # "approved" => back.approvedBy = None
    BY <1>1, <2>1 DEF Row, Statuses
  <2> HIDE DEF tgt, back
  <2>3. Stamped(back)
    BY <2>1, <2>2 DEF Stamped
  <2>4. Tells(e, [snap |-> r, tgt |-> back, ev |-> ev])
    BY <1>2, <2>3 DEF Tells
  <2> HIDE DEF ev
  <2> QED
    BY <1>2, <2>4
<1>3. CASE /\ ~ReturnedFromPaid(hist[e])
           /\ SweepEdit(e, known) = [snap |-> r, tgt |-> AutoPay(r, r.author),
                                     ev |-> AutoEvent(r.status, r.author, TRUE)]
  <2>1. r.author \in Users
    BY <1>1 DEF Row
  <2>2. Tells(e, [snap |-> r, tgt |-> AutoPay(r, r.author),
                  ev |-> AutoEvent(r.status, r.author, TRUE)])
    BY <1>1, <1>3, <2>1, AutoPayTells
  <2> QED
    BY <1>3, <2>2
<1> QED
  BY <1>1, <1>2, <1>3 DEF SweepEdit

\* One history: each row is newer than the one before it and starts where that
\* one ended, and the sweep pays
\* nothing a person took back.
Chained(h) ==
  \A i \in DOMAIN h :
    /\ i > 1 => h[i-1].at < h[i].at
    /\ h[i].from = IF i > 1 THEN h[i-1].to ELSE IF h[1].act = "created" THEN None ELSE "draft"

Respected(h) ==
  \A i, j \in DOMAIN h :
    (i < j /\ h[i].from = "paid" /\ h[i].to \in {"approved", "pending_approval"})
      => ~(h[j].act = "paid" /\ h[j].job)

\* One more event that starts where the history stands.
LEMMA AppendTells ==
  ASSUME NEW h \in Seq(Event), NEW ev \in Event, Chained(h), Respected(h),
         ev.from = IF h = <<>> THEN "draft" ELSE h[Len(h)].to,
         ev.act # "created",
         ev.act = "paid" /\ ev.job => ~ReturnedFromPaid(h),
         \A i \in DOMAIN h : h[i].at < ev.at
  PROVE  Chained(Append(h, ev)) /\ Respected(Append(h, ev))
<1> DEFINE g == Append(h, ev)
           n == Len(h) + 1
<1>1. /\ Len(h) \in Nat /\ DOMAIN h = 1..Len(h) /\ DOMAIN g = 1..n /\ g[n] = ev
      /\ \A i \in 1..Len(h) : g[i] = h[i]
      /\ h = <<>> <=> Len(h) = 0
  OBVIOUS
<1> HIDE DEF g
<1>2. ASSUME NEW i \in 1..n
      PROVE  /\ i > 1 => g[i-1].at < g[i].at
             /\ g[i].from = IF i > 1 THEN g[i-1].to
                            ELSE IF g[1].act = "created" THEN None ELSE "draft"
  <2>1. CASE i <= Len(h)
    <3>1. i \in DOMAIN h /\ g[i] = h[i] /\ g[1] = h[1] /\ (i > 1 => g[i-1] = h[i-1])
      BY <1>1, <1>2, <2>1
    <3> QED
      BY <3>1 DEF Chained
  <2>2. CASE i = n
    BY <1>1, <2>2
  <2> QED
    BY <1>1, <1>2, <2>1, <2>2
<1>3. ASSUME NEW i \in 1..n, NEW j \in 1..n, i < j, g[i].from = "paid",
             g[i].to \in {"approved", "pending_approval"}
      PROVE  ~(g[j].act = "paid" /\ g[j].job)
  <2>1. i \in DOMAIN h /\ g[i] = h[i]
    BY <1>1, <1>3
  <2>2. CASE j <= Len(h)
    <3>1. j \in DOMAIN h /\ g[j] = h[j]
      BY <1>1, <1>3, <2>2
    <3> QED
      BY <1>3, <2>1, <3>1 DEF Respected
  <2>3. CASE j = n
    <3>1. ReturnedFromPaid(h)
      BY <1>3, <2>1 DEF ReturnedFromPaid
    <3> QED
      BY <1>1, <2>3, <3>1
  <2> QED
    BY <1>1, <1>3, <2>2, <2>3
<1>4. Chained(g) /\ Respected(g)
  BY <1>1, <1>2, <1>3 DEF Chained, Respected
<1> QED
  BY <1>4 DEF g

\* Committing an edit that was decided on the row as it is.
LEMMA CommitTells ==
  ASSUME IInv, Fresh, TurnInv, NEW s \in Sessions, CommitWrite(s), NEW e \in Expenses
  PROVE  /\ Chained(hist'[e]) /\ Respected(hist'[e])
         /\ row'[e] # None => Stamped(row'[e])
<1> DEFINE d == session[s].edits[e]
           h == hist[e]
<1>0. h \in Seq(Event) /\ Chained(h) /\ Respected(h)
  BY DEF IInv, TypeOK, TurnInv, HistoryIsAChain, SweepRespectsCancel, Chained, Respected
<1>1. CASE e \notin Touched(s)
  <2>1. row'[e] = row[e] /\ hist'[e] = h
    BY <1>1 DEF CommitWrite, HasEvent
  <2> QED
    BY <1>0, <2>1 DEF TurnInv, StampsMatchStatus, Stamped
<1>2. CASE e \in Touched(s)
  <2>1. d # None /\ d \in Edit /\ row[e] # None /\ row[e] \in Row /\ d.snap = row[e] /\ Tells(e, d)
    BY <1>2 DEF Touched, Fresh, TurnInv, IInv, TypeOK
  <2>2. row'[e] = d.tgt
    BY <1>2, <2>1, MergeFresh DEF CommitWrite
  <2>3. /\ d.ev = None => hist'[e] = h
        /\ d.ev # None => hist'[e] = Append(h, d.ev) /\ d.ev \in Event
    BY <1>2, <2>1 DEF CommitWrite, HasEvent, Edit
  <2>4. row[e].status = IF h = <<>> THEN "draft" ELSE h[Len(h)].to
    BY <2>1 DEF IInv, StatusIsTold
  <2> HIDE DEF d, h
  <2>5. CASE d.ev = None
    BY <1>0, <2>1, <2>2, <2>3, <2>5 DEF Tells
  <2>6. CASE d.ev # None
    <3>1. /\ d.ev \in Event /\ d.ev.from = IF h = <<>> THEN "draft" ELSE h[Len(h)].to
          /\ d.ev.act # "created"
          /\ d.ev.act = "paid" /\ d.ev.job => ~ReturnedFromPaid(h)
      BY <2>1, <2>3, <2>4, <2>6 DEF Tells, h
    <3>2. \A i \in DOMAIN h : h[i].at < d.ev.at
      BY <1>2, <2>1, <2>6 DEF d, h, Fresh, StampIsNew, CommitWrite, HasEvent
    <3>3. Chained(Append(h, d.ev)) /\ Respected(Append(h, d.ev))
      BY <1>0, <3>1, <3>2, AppendTells
    <3> QED
      BY <2>1, <2>2, <2>3, <2>6, <3>3 DEF Tells
  <2> QED
    BY <2>5, <2>6
<1> QED
  BY <1>1, <1>2

\* Every step of handlers that take turns preserves the invariant.
LEMMA StepTells ==
  ASSUME OneSession, IInv, Fresh, TurnInv, [Next]_vars
  PROVE  TurnInv'
<1> DEFINE Tables == /\ \A e \in Expenses : Chained(hist'[e]) /\ Respected(hist'[e])
                     /\ \A e \in Expenses : row'[e] # None => Stamped(row'[e])
           Plans2 == \A t \in Sessions, x \in Expenses :
                       session'[t].edits[x] # None => Tells(x, session[t].edits[x])'
<1>1. Tables /\ Plans2 => TurnInv'
  BY DEF TurnInv, HistoryIsAChain, SweepRespectsCancel, StampsMatchStatus, Chained, Respected,
         Stamped
<1>2. ASSUME UNCHANGED <<row, hist>>
      PROVE  Tables
  BY <1>2 DEF TurnInv, HistoryIsAChain, SweepRespectsCancel, StampsMatchStatus, Chained,
              Respected, Stamped
<1>3. ASSUME NEW s \in Sessions, session' = [session EXCEPT ![s] = Idle]
      PROVE  Plans2
  BY <1>3 DEF OneSession, Idle, IInv, TypeOK
<1>4. ASSUME NEW s \in Sessions, NEW e \in Expenses, StagesTelling(s, e)
      PROVE  TurnInv'
  <2>1. PICK tgt \in Row, ev \in Event \cup {None} :
          Stage(s, e, tgt, ev) /\ Tells(e, [snap |-> row[e], tgt |-> tgt, ev |-> ev])
    BY <1>4 DEF StagesTelling
  <2>2. ASSUME NEW t \in Sessions, NEW x \in Expenses, session'[t].edits[x] # None
        PROVE  Tells(x, session[t].edits[x])'
    <3>1. t = s
      BY DEF OneSession
    <3>2. /\ UNCHANGED <<row, hist>>
          /\ x = e /\ session'[t].edits[x] = [snap |-> row[e], tgt |-> tgt, ev |-> ev]
      BY <2>1, <2>2, <3>1 DEF Stage, Idle, IInv, TypeOK
    <3> QED
      BY <2>1, <3>2 DEF Tells
  <2>3. UNCHANGED <<row, hist>>
    BY <2>1 DEF Stage
  <2> QED
    BY <1>1, <1>2, <2>2, <2>3
<1>5. ASSUME NEW s \in Sessions, NEW u \in Users, NEW e \in Expenses, Delete(s, u, e)
      PROVE  TurnInv'
  <2>1. UNCHANGED <<row, hist>> /\ row[e] # None
    BY <1>5 DEF Delete, Loadable
  <2>2. ASSUME NEW t \in Sessions, NEW x \in Expenses, session'[t].edits[x] # None
        PROVE  Tells(x, session[t].edits[x])'
    <3>1. x = e /\ session'[t].edits[x] = [snap |-> row[e], tgt |-> row[e], ev |-> None]
      BY <1>5, <2>2 DEF Delete, Idle, IInv, TypeOK, OneSession
    <3> QED
      BY <2>1, <3>1 DEF Tells, TurnInv, StampsMatchStatus, Stamped
  <2> QED
    BY <1>1, <1>2, <2>1, <2>2
<1>6. ASSUME NEW s \in Sessions, Sweep(s)
      PROVE  TurnInv'
  <2>1. PICK known \in SUBSET AutoPaid :
          session' = [session EXCEPT ![s] =
            [op |-> "write", edits |-> [e \in Expenses |-> SweepEdit(e, known)]]]
    BY <1>6 DEF Sweep
  <2>2. UNCHANGED <<row, hist>>
    BY <1>6 DEF Sweep
  <2>3. ASSUME NEW t \in Sessions, NEW x \in Expenses, session'[t].edits[x] # None
        PROVE  Tells(x, session[t].edits[x])'
    <3>1. session'[t].edits[x] = SweepEdit(x, known)
      BY <2>1 DEF OneSession, IInv, TypeOK
    <3>2. Tells(x, SweepEdit(x, known))
      BY <2>3, <3>1, SweepTells
    <3> HIDE DEF SweepEdit
    <3> QED
      BY <2>2, <3>1, <3>2 DEF Tells
  <2> QED
    BY <1>1, <1>2, <2>2, <2>3
<1>7. ASSUME NEW s \in Sessions, CommitWrite(s)
      PROVE  TurnInv'
  <2>1. Tables
    BY <1>7, CommitTells
  <2> QED
    BY <1>1, <1>3, <1>7, <2>1 DEF CommitWrite
<1>8. ASSUME NEW s \in Sessions, CommitDelete(s)
      PROVE  TurnInv'
  <2>1. \A e \in Expenses : \/ row'[e] = row[e] /\ hist'[e] = hist[e]
                            \/ row'[e] = None /\ hist'[e] = <<>>
    BY <1>8 DEF CommitDelete
  <2>2. Tables
    BY <2>1 DEF TurnInv, HistoryIsAChain, SweepRespectsCancel, StampsMatchStatus, Chained,
                Respected, Stamped
  <2> QED
    BY <1>1, <1>3, <1>8, <2>2 DEF CommitDelete
<1>9. ASSUME NEW s \in Sessions, Abort(s)
      PROVE  TurnInv'
  BY <1>1, <1>2, <1>3, <1>9 DEF Abort
<1>10. ASSUME NEW u \in Users, NEW e \in Expenses, NEW type \in Types, NEW reimb \in BOOLEAN,
              Create(u, e, type, reimb)
       PROVE  TurnInv'
  <2> DEFINE ev == [Ev("created", None, "approved", u) EXCEPT !.at = 1]
  <2>1. /\ session' = session /\ row[e] = None
        /\ row'[e].status \in {"approved", "draft"} /\ row'[e].paidBy = None
        /\ row'[e].status = "draft" => row'[e].approvedBy = None
        /\ hist'[e] \in {<<>>, <<ev>>}
        /\ \A x \in Expenses : x # e => row'[x] = row[x] /\ hist'[x] = hist[x]
    BY <1>10 DEF Create, IInv, TypeOK
  <2>2. Chained(<<ev>>) /\ Respected(<<ev>>) /\ Chained(<<>>) /\ Respected(<<>>)
    BY DEF Chained, Respected, Ev
  <2>3. Stamped(row'[e])
    BY <2>1 DEF Stamped
  <2> HIDE DEF ev
  <2>4. Tables
    BY <2>1, <2>2, <2>3 DEF TurnInv, HistoryIsAChain, SweepRespectsCancel, StampsMatchStatus,
                            Chained, Respected, Stamped
  <2>5. ASSUME NEW t \in Sessions, NEW x \in Expenses, session'[t].edits[x] # None
        PROVE  Tells(x, session[t].edits[x])'
    <3>1. x # e /\ Tells(x, session[t].edits[x])
      BY <2>1, <2>5 DEF Fresh, TurnInv
    <3> QED
      BY <2>1, <3>1 DEF Tells
  <2> QED
    BY <1>1, <2>4, <2>5
<1>11. CASE UNCHANGED vars
  BY <1>11 DEF vars, TurnInv, HistoryIsAChain, SweepRespectsCancel, StampsMatchStatus, Tells
<1>12. ASSUME NEW s \in Sessions, NEW e \in Expenses, Stamp(s, e)
       PROVE  TurnInv'
  <2>1. PICK now \in Nat \ {0}, d \in Edit : TakesTime(s, e, now, d)
    BY <1>12, StampEffect
  <2>0. /\ d = session[s].edits[e] /\ d.ev \in Event /\ d.ev # None
        /\ \A i \in DOMAIN hist[e] : hist[e][i].at < now
        /\ row' = row /\ hist' = hist /\ gone' = gone
        /\ session' \in [Sessions -> [op: {"idle", "write", "delete"},
                                      edits: [Expenses -> Edit \cup {None}]]]
        /\ session'[s].edits[e] = [d EXCEPT !.ev = [d.ev EXCEPT !.at = now]]
        /\ \A y \in Sessions, z \in Expenses : (y # s \/ z # e) =>
             session'[y].edits[z] = session[y].edits[z]
    BY <2>1 DEF TakesTime
  <2>2. ASSUME NEW t \in Sessions, NEW x \in Expenses, session'[t].edits[x] # None
        PROVE  Tells(x, session[t].edits[x])'
    <3>1. t = s
      BY DEF OneSession
    <3>2. CASE x # e
      <4>1. session'[t].edits[x] = session[t].edits[x]
        BY <2>0, <3>1, <3>2
      <4> QED
        BY <2>0, <2>2, <4>1 DEF TurnInv, Tells
    <3>3. CASE x = e
      <4> DEFINE g == [d.ev EXCEPT !.at = now]
                 k == [d EXCEPT !.ev = g]
      <4>1. Tells(e, d)
        BY <2>0, NoneAssumption DEF TurnInv
      <4>2. /\ g.from = d.ev.from /\ g.act = d.ev.act /\ g.job = d.ev.job
            /\ k.snap = d.snap /\ k.tgt = d.tgt /\ k.ev = g
        BY <2>0 DEF Edit, Event
      <4>3. session'[t].edits[x] = k
        BY <2>0, <3>1, <3>3
      <4> HIDE DEF g, k
      <4>4. Tells(e, k)
        BY <2>0, <4>1, <4>2 DEF Tells
      <4> QED
        BY <2>0, <3>3, <4>3, <4>4 DEF Tells
    <3> QED
      BY <3>2, <3>3
  <2> QED
    BY <1>1, <1>2, <2>0, <2>2
<1> QED
  BY <1>4, <1>5, <1>6, <1>7, <1>8, <1>9, <1>10, <1>11, <1>12, HandlerTells, EmailTells DEF Next, TurnInv

\* Both invariants hold from the start and in every step.
LEMMA TurnInductive ==
  ASSUME OneSession
  PROVE  Spec => []TurnInv
<1>1. Init => Fresh /\ TurnInv
  BY DEF Init, Fresh, TurnInv, Idle, HistoryIsAChain, StampsMatchStatus, SweepRespectsCancel
<1>2. IInv /\ Fresh /\ [Next]_vars => Fresh'
  BY FreshStays
<1>3. IInv /\ Fresh /\ TurnInv /\ [Next]_vars => TurnInv'
  BY StepTells
<1> QED
  BY <1>1, <1>2, <1>3, Inductive, PTL DEF Spec

\* With handlers that take turns each row of a request's timeline, sorted by changed_at,
\* starts where the one before it ended (add_status_history, every handler that moves a request, the mail links and the sweep).
THEOREM HistoryChains ==
  ASSUME OneSession
  PROVE  Spec => []HistoryIsAChain
<1>1. TurnInv => HistoryIsAChain
  BY DEF TurnInv
<1> QED
  BY <1>1, TurnInductive, PTL

\* With handlers that take turns a request that waits for a decision carries no approver,
\* a paid one names its payer, and one whose payment was taken back names none
\* (unapprove_expense, unpay_expense, submit_expense, _auto_pay_open_expenses).
THEOREM StampsFollowStatus ==
  ASSUME OneSession
  PROVE  Spec => []StampsMatchStatus
<1>1. TurnInv => StampsMatchStatus
  BY DEF TurnInv
<1> QED
  BY <1>1, TurnInductive, PTL

\* With handlers that take turns the sweep never pays again what a person returned
\* from paid (_auto_pay_open_expenses).
THEOREM CancellationStands ==
  ASSUME OneSession
  PROVE  Spec => []SweepRespectsCancel
<1>1. TurnInv => SweepRespectsCancel
  BY DEF TurnInv
<1> QED
  BY <1>1, TurnInductive, PTL
=============================================================================
