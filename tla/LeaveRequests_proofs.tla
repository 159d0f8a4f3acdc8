------------------------ MODULE LeaveRequests_proofs ------------------------
(* Proofs about LeaveRequests, for any number of requests, manual entries,  *)
(* dates and overlapping handlers.                                          *)
EXTENDS LeaveRequests, FiniteSetTheorems, TLAPS

\* Later dates are not in earlier years.
LEMMA YearMonotone ==
  ASSUME NEW a \in Dates, NEW b \in Dates, a <= b
  PROVE  YearOf(a) <= YearOf(b)
<1>1. YearLength \in Nat \ {0} /\ LastDate \in Nat
  BY CalendarAssumption
<1> DEFINE q == (a - 1) \div YearLength
           p == (b - 1) \div YearLength
<1>2. a - 1 \in Nat /\ b - 1 \in Nat /\ a - 1 <= b - 1
  BY <1>1 DEF Dates
<1>3. q \in Nat /\ p \in Nat
  BY <1>1, <1>2
<1>4. q * YearLength <= a - 1 /\ b - 1 < (p + 1) * YearLength
  BY <1>1, <1>2
<1>5. q * YearLength < (p + 1) * YearLength
  BY <1>1, <1>2, <1>3, <1>4
<1>6. q < p + 1
  BY <1>1, <1>3, <1>5
<1> QED
  BY <1>3, <1>6 DEF YearOf

\* The initial state satisfies the invariant.
LEMMA InitIInv == Init => IInv
<1> SUFFICES ASSUME Init PROVE IInv
  OBVIOUS
<1> QED
  BY DEF Init, IInv, TypeOK, FinalByManaging, FinalApprovalOnly, FinalOpensDates,
         EntryMarksAlive, Cells

\* Staging a plan that keeps its promises preserves the invariant.
LEMMA StageIInv ==
  ASSUME IInv, NEW s \in Sessions, NEW p \in Plan, PlanOK(p),
         session' = [session EXCEPT ![s] = p],
         UNCHANGED <<leave, day, entry, gone>>
  PROVE  IInv'
<1>1. TypeOK'
  BY DEF IInv, TypeOK
<1>2. /\ FinalByManaging' /\ FinalApprovalOnly' /\ FinalOpensDates' /\ EntryMarksAlive'
  BY DEF IInv, FinalByManaging, FinalApprovalOnly, FinalOpensDates, EntryMarksAlive
<1>3. ASSUME NEW t \in Sessions, session'[t] # None
      PROVE  PlanOK(session[t])'
  <2>1. session'[t] = IF t = s THEN p ELSE session[t]
    BY DEF IInv, TypeOK
  <2>2. PlanOK(session'[t])
    BY <1>3, <2>1 DEF IInv
  <2> QED
    BY <2>2 DEF PlanOK
<1> QED
  BY <1>1, <1>2, <1>3 DEF IInv

\* The plan of a handler that works on a request it has loaded.
LEMMA WriteIInv ==
  ASSUME IInv, NEW s \in Sessions, NEW r \in Requests, leave[r] # None,
         NEW op \in {"write", "delete"}, NEW tgt \in Leave,
         NEW fill \in SUBSET Cells, NEW clear \in BOOLEAN,
         tgt.finalBy \in Managing \cup {None},
         leave[r].final => tgt.final,
         tgt.status = "approved" /\ leave[r].status # "approved" => tgt.final,
         fill # {} => tgt.final,
         Stage(s, op, r, tgt, fill, clear)
  PROVE  IInv'
<1> DEFINE p == [op |-> op, req |-> r, snap |-> leave[r], tgt |-> tgt,
                 fill |-> fill, clear |-> clear, found |-> Linked(r) # {}]
<1>1. p \in Plan
  BY DEF IInv, TypeOK, Plan
<1>2. PlanOK(p)
  BY DEF PlanOK
<1> HIDE DEF p
<1>3. session' = [session EXCEPT ![s] = p] /\ UNCHANGED <<leave, day, entry, gone>>
  BY DEF Stage, p
<1> QED
  BY <1>1, <1>2, <1>3, StageIInv

\* The dates a request fills are cells of the calendar.
LEMMA FillCells ==
  ASSUME NEW l \in Leave
  PROVE  Period(l) \subseteq Cells
  BY CalendarAssumption DEF Leave, Period, Cells, Dates

\* The handlers, each up to its commit, preserve the invariant.
LEMMA HandlerIInv ==
  ASSUME IInv, NEW s \in Sessions, Handler(s)
  PROVE  IInv'
<1>1. CASE \E u \in Employees, p \in Partners, kind \in Kinds, from, to \in Dates :
             Create(s, u, p, kind, from, to)
  <2> PICK u \in Employees, p \in Partners, kind \in Kinds, from \in Dates, to \in Dates :
             Create(s, u, p, kind, from, to)
    BY <1>1
  <2> DEFINE l == [emp |-> u, partner |-> p, kind |-> kind, from |-> from, to |-> to,
                   status |-> "pending", decidedBy |-> None, final |-> FALSE, finalBy |-> None]
             plan == [op |-> "create", req |-> None, snap |-> l, tgt |-> l,
                      fill |-> {}, clear |-> FALSE, found |-> FALSE]
  <2>1. l \in Leave
    BY LeaveAssumption DEF Leave, Statuses
  <2>2. plan \in Plan
    BY <2>1 DEF Plan
  <2>3. PlanOK(plan)
    BY DEF PlanOK
  <2>4. session' = [session EXCEPT ![s] = plan] /\ UNCHANGED <<leave, day, entry, gone>>
    BY DEF Create
  <2> HIDE DEF plan
  <2> QED
    BY <2>2, <2>3, <2>4, StageIInv
<1>2. ASSUME NEW r \in Requests, NEW approve \in BOOLEAN, PartnerDecide(s, r, approve)
      PROVE  IInv'
  <2> DEFINE l == [leave[r] EXCEPT !.decidedBy = leave[r].partner]
             final == [l EXCEPT !.status = "approved", !.final = TRUE, !.finalBy = l.partner]
             next == [l EXCEPT !.status = "pending_final"]
             declined == [l EXCEPT !.status = "declined"]
  <2>1. leave[r] # None /\ leave[r] \in Leave /\ leave[r].finalBy \in Managing \cup {None}
    BY <1>2 DEF PartnerDecide, Loadable, IInv, TypeOK, FinalByManaging
  <2>2. /\ l \in Leave /\ final \in Leave /\ next \in Leave /\ declined \in Leave
        /\ l.partner = leave[r].partner
        /\ final.final /\ final.finalBy = l.partner
        /\ declined.status = "declined" /\ next.status = "pending_final"
        /\ declined.final = leave[r].final /\ next.final = leave[r].final
        /\ declined.finalBy = leave[r].finalBy /\ next.finalBy = leave[r].finalBy
    BY <2>1, LeaveAssumption DEF Leave, Statuses
  <2>3. Fill(l) \in SUBSET Cells
    BY <2>2, FillCells DEF Fill
  <2>4. \/ Stage(s, "write", r, declined, {}, FALSE)
        \/ l.partner \in Managing /\ Stage(s, "write", r, final, Fill(l), FALSE)
        \/ Stage(s, "write", r, next, {}, FALSE)
    BY <1>2 DEF PartnerDecide
  <2> HIDE DEF l, final, next, declined
  <2>5. CASE Stage(s, "write", r, declined, {}, FALSE)
    BY <2>1, <2>2, <2>5, WriteIInv
  <2>6. CASE l.partner \in Managing /\ Stage(s, "write", r, final, Fill(l), FALSE)
    BY <2>1, <2>2, <2>3, <2>6, WriteIInv
  <2>7. CASE Stage(s, "write", r, next, {}, FALSE)
    BY <2>1, <2>2, <2>7, WriteIInv
  <2> QED
    BY <2>4, <2>5, <2>6, <2>7
<1>3. ASSUME NEW r \in Requests, NEW by \in Managing \cup {None}, NEW approve \in BOOLEAN,
             FinalDecide(s, r, by, approve)
      PROVE  IInv'
  <2> DEFINE l == leave[r]
             tgt == [l EXCEPT !.status = IF approve THEN "approved" ELSE "declined",
                              !.final = TRUE, !.finalBy = by]
             fill == IF approve THEN Fill(l) ELSE {}
  <2>1. l # None /\ l \in Leave
    BY <1>3 DEF FinalDecide, Loadable, IInv, TypeOK
  <2>2. tgt \in Leave /\ tgt.final /\ tgt.finalBy \in Managing \cup {None}
    BY <2>1, LeaveAssumption DEF Leave, Statuses
  <2>3. fill \in SUBSET Cells
    BY <2>1, FillCells DEF Fill
  <2>4. Stage(s, "write", r, tgt, fill, FALSE)
    BY <1>3 DEF FinalDecide
  <2> HIDE DEF tgt, fill
  <2> QED
    BY <2>1, <2>2, <2>3, <2>4, WriteIInv
<1>4. ASSUME NEW r \in Requests, NEW clear \in BOOLEAN, leave[r] # None,
             Stage(s, "write", r,
                   [leave[r] EXCEPT !.status = "cancelled", !.decidedBy = leave[r].emp],
                   {}, clear)
      PROVE  IInv'
  <2> DEFINE tgt == [leave[r] EXCEPT !.status = "cancelled", !.decidedBy = leave[r].emp]
  <2>1. leave[r] \in Leave /\ leave[r].finalBy \in Managing \cup {None}
    BY <1>4 DEF IInv, TypeOK, FinalByManaging
  <2>2. /\ tgt \in Leave /\ tgt.finalBy = leave[r].finalBy
        /\ tgt.final = leave[r].final /\ tgt.status = "cancelled"
    BY <2>1, LeaveAssumption DEF Leave, Statuses
  <2> HIDE DEF tgt
  <2>3. Stage(s, "write", r, tgt, {}, clear)
    BY <1>4 DEF tgt
  <2> QED
    BY <1>4, <2>1, <2>2, <2>3, WriteIInv
<1>5. ASSUME NEW r \in Requests, NEW u \in Users, Delete(s, u, r)
      PROVE  IInv'
  <2>1. /\ leave[r] # None /\ leave[r] \in Leave
        /\ leave[r].finalBy \in Managing \cup {None}
        /\ Stage(s, "delete", r, leave[r], {}, TRUE)
    BY <1>5 DEF Delete, Loadable, IInv, TypeOK, FinalByManaging
  <2> QED
    BY <2>1, WriteIInv
<1> QED
  BY <1>1, <1>2, <1>3, <1>4, <1>5 DEF Handler, Withdraw, Cancel, Loadable

\* A merge keeps the type, the employee, and a final decision once made; its
\* status and its final decision come from the row or from the plan.
LEMMA MergeLeave ==
  ASSUME NEW cur \in Leave, NEW p \in Plan
  PROVE  LET m == Merge(cur, p) IN
         /\ m \in Leave
         /\ m.finalBy \in {cur.finalBy, p.tgt.finalBy}
         /\ m.status = IF p.tgt.status = p.snap.status THEN cur.status ELSE p.tgt.status
         /\ (p.snap.final => p.tgt.final) =>
              /\ cur.final => m.final
              /\ p.tgt.final /\ (p.snap.final => cur.final) => m.final
<1> DEFINE m == Merge(cur, p)
<1>1. p.snap \in Leave /\ p.tgt \in Leave
  BY DEF Plan
<1>2. /\ m.status = Changed(cur.status, p.snap.status, p.tgt.status)
      /\ m.decidedBy = Changed(cur.decidedBy, p.snap.decidedBy, p.tgt.decidedBy)
      /\ m.final = Changed(cur.final, p.snap.final, p.tgt.final)
      /\ m.finalBy = Changed(cur.finalBy, p.snap.finalBy, p.tgt.finalBy)
  BY DEF Merge, Leave
<1>3. m \in Leave
  BY <1>1 DEF Merge, Changed, Leave
<1>4. cur.final \in BOOLEAN /\ p.snap.final \in BOOLEAN /\ p.tgt.final \in BOOLEAN
  BY <1>1 DEF Leave
<1> HIDE DEF m
<1>5. /\ m.finalBy \in {cur.finalBy, p.tgt.finalBy}
      /\ m.status = IF p.tgt.status = p.snap.status THEN cur.status ELSE p.tgt.status
  BY <1>2 DEF Changed
<1>6. m.final = IF p.tgt.final = p.snap.final THEN cur.final ELSE p.tgt.final
  BY <1>2 DEF Changed
<1>7. (p.snap.final => p.tgt.final) =>
        /\ cur.final => m.final
        /\ p.tgt.final /\ (p.snap.final => cur.final) => m.final
  BY <1>4, <1>6
<1> QED
  BY <1>3, <1>5, <1>7 DEF m

\* Plans are not disturbed by a step in which requests only disappear for good,
\* appear under fresh ids, or keep the final decision they had.
LEMMA PlansKept ==
  ASSUME IInv, NEW s \in Sessions,
         session' = [session EXCEPT ![s] = None],
         gone \subseteq gone',
         \A r \in Requests : leave'[r] = None => leave[r] = None \/ r \in gone',
         \A r \in Requests : leave[r] = None /\ r \in gone => leave'[r] = None,
         \A r \in Requests : leave[r] # None /\ leave'[r] # None =>
           (leave[r].final => leave'[r].final)
  PROVE  \A t \in Sessions : session'[t] # None => PlanOK(session[t])'
<1> SUFFICES ASSUME NEW t \in Sessions, session'[t] # None
             PROVE  PlanOK(session[t])'
  OBVIOUS
<1>1. session'[t] = session[t]
  BY DEF IInv, TypeOK
<1> DEFINE p == session[t]
<1>2. PlanOK(p) /\ session'[t] = p
  BY <1>1 DEF IInv
<1>3. p.op # "create" =>
        /\ p.req \in Requests
        /\ leave'[p.req] # None \/ p.req \in gone'
        /\ leave'[p.req] # None /\ p.snap.final => leave'[p.req].final
  <2> SUFFICES ASSUME p.op # "create"
               PROVE  /\ p.req \in Requests
                      /\ leave'[p.req] # None \/ p.req \in gone'
                      /\ leave'[p.req] # None /\ p.snap.final => leave'[p.req].final
    OBVIOUS
  <2>1. /\ p.req \in Requests
        /\ leave[p.req] # None \/ p.req \in gone
        /\ leave[p.req] # None /\ p.snap.final => leave[p.req].final
    BY <1>2 DEF PlanOK
  <2> HIDE DEF p
  <2> QED
    BY <2>1
<1> QED
  BY <1>2, <1>3 DEF PlanOK

\* Creating a request under a fresh id preserves the invariant.
LEMMA CreateIInv ==
  ASSUME IInv, NEW s \in Sessions, CommitCreate(s)
  PROVE  IInv'
<1> PICK r \in Requests :
       /\ leave[r] = None /\ r \notin gone
       /\ leave' = [leave EXCEPT ![r] = session[s].tgt]
  BY DEF CommitCreate
<1> DEFINE l == session[s].tgt
<1>1. /\ session' = [session EXCEPT ![s] = None]
      /\ day' = day /\ entry' = entry /\ gone' = gone
  BY DEF CommitCreate
<1>2. /\ l \in Leave /\ l # None /\ l.status = "pending"
      /\ l.finalBy \in Managing \cup {None}
  BY NoneAssumption DEF CommitCreate, IInv, TypeOK, PlanOK, Plan
<1> HIDE DEF l
<1>3. \A q \in Requests : leave'[q] = IF q = r THEN l ELSE leave[q]
  BY DEF IInv, TypeOK, l
<1>4. TypeOK'
  BY <1>1, <1>2 DEF IInv, TypeOK, l
<1>5. FinalByManaging' /\ FinalApprovalOnly'
  BY <1>2, <1>3 DEF IInv, FinalByManaging, FinalApprovalOnly
<1>6. FinalOpensDates'
  BY <1>1, <1>3 DEF IInv, TypeOK, Mark, FinalOpensDates
<1>7. EntryMarksAlive'
  BY <1>1 DEF IInv, EntryMarksAlive
<1>8. \A t \in Sessions : session'[t] # None => PlanOK(session[t])'
  BY <1>1, <1>2, <1>3, PlansKept
<1> QED
  BY <1>4, <1>5, <1>6, <1>7, <1>8 DEF IInv

\* Writing a plan preserves the invariant.
LEMMA WriteCommitIInv ==
  ASSUME IInv, NEW s \in Sessions, CommitWrite(s)
  PROVE  IInv'
<1> DEFINE p == session[s]
           m == Merge(leave[p.req], p)
<1>1. /\ p # None /\ p \in Plan /\ p.op = "write" /\ PlanOK(p)
      /\ p.req \in Requests /\ leave[p.req] # None /\ leave[p.req] \in Leave
      /\ leave' = [leave EXCEPT ![p.req] = m]
      /\ session' = [session EXCEPT ![s] = None]
      /\ entry' = entry /\ gone' = gone
  BY DEF CommitWrite, IInv, TypeOK, PlanOK
<1> PICK early \in BOOLEAN :
       day' = [c \in Cells |->
         IF c \in Cleared(p, early) THEN None
         ELSE IF c \in p.fill THEN [kind |-> p.tgt.kind, req |-> p.req, entry |-> None]
         ELSE day[c]]
  BY DEF CommitWrite
<1>2. /\ p.tgt \in Leave /\ p.tgt.kind \in AllKinds
      /\ p.tgt.finalBy \in Managing \cup {None}
      /\ p.snap.final => p.tgt.final
      /\ p.tgt.status = "approved" /\ p.snap.status # "approved" => p.tgt.final
      /\ p.fill # {} => p.tgt.final
      /\ p.snap.final => leave[p.req].final
  BY <1>1 DEF Plan, PlanOK, Leave
<1>3. /\ m \in Leave /\ m # None
      /\ m.finalBy \in {leave[p.req].finalBy, p.tgt.finalBy}
      /\ m.status = IF p.tgt.status = p.snap.status THEN leave[p.req].status ELSE p.tgt.status
      /\ leave[p.req].final => m.final
      /\ p.tgt.final => m.final
  BY <1>1, <1>2, MergeLeave, NoneAssumption
<1>4. /\ leave[p.req].finalBy \in Managing \cup {None}
      /\ leave[p.req].status = "approved" => leave[p.req].final
  BY <1>1 DEF IInv, FinalByManaging, FinalApprovalOnly
<1>5. /\ m.finalBy \in Managing \cup {None}
      /\ m.status = "approved" => m.final
  BY <1>2, <1>3, <1>4
<1> HIDE DEF m
<1>6. \A q \in Requests : leave'[q] = IF q = p.req THEN m ELSE leave[q]
  BY <1>1 DEF IInv, TypeOK
<1>7. \A c \in Cells : \/ day'[c] = None
                       \/ c \in p.fill /\ day'[c].req = p.req /\ day'[c].entry = None
                       \/ day'[c] = day[c]
  OBVIOUS
<1>8. TypeOK'
  <2>1. leave' \in [Requests -> Leave \cup {None}] /\ session' \in [Sessions -> Plan \cup {None}]
    BY <1>1, <1>3 DEF IInv, TypeOK
  <2>2. day' \in [Cells -> Mark \cup {None}]
    BY <1>1, <1>2 DEF IInv, TypeOK, Mark
  <2> QED
    BY <1>1, <2>1, <2>2 DEF IInv, TypeOK
<1>9. FinalByManaging' /\ FinalApprovalOnly'
  BY <1>5, <1>6 DEF IInv, FinalByManaging, FinalApprovalOnly
<1>10. FinalOpensDates'
  <2> SUFFICES ASSUME NEW c \in Cells, day'[c] # None, day'[c].req # None
               PROVE  leave'[day'[c].req] # None /\ leave'[day'[c].req].final
    BY DEF FinalOpensDates
  <2>1. CASE c \in p.fill /\ day'[c].req = p.req
    BY <1>1, <1>2, <1>3, <1>6, <2>1
  <2>2. CASE day'[c] = day[c]
    <3>1. day[c].req \in Requests /\ leave[day[c].req] # None /\ leave[day[c].req].final
      BY <2>2 DEF IInv, TypeOK, Mark, FinalOpensDates
    <3> QED
      BY <1>3, <1>6, <2>2, <3>1
  <2> QED
    BY <1>7, <2>1, <2>2
<1>11. EntryMarksAlive'
  BY <1>1, <1>7 DEF IInv, EntryMarksAlive
<1>12. \A t \in Sessions : session'[t] # None => PlanOK(session[t])'
  <2>1. \A q \in Requests : /\ leave'[q] = None <=> leave[q] = None
                            /\ leave[q].final => leave'[q].final
    BY <1>1, <1>3, <1>6
  <2> HIDE DEF p
  <2>2. session' = [session EXCEPT ![s] = None] /\ gone \subseteq gone'
    BY <1>1
  <2> QED
    BY <2>1, <2>2, PlansKept
<1> QED
  BY <1>8, <1>9, <1>10, <1>11, <1>12 DEF IInv

\* Deleting a request preserves the invariant: no mark keeps its id.
LEMMA DeleteIInv ==
  ASSUME IInv, NEW s \in Sessions, CommitDelete(s)
  PROVE  IInv'
<1> DEFINE p == session[s]
<1>1. /\ p # None /\ p \in Plan /\ p.op = "delete" /\ p.req \in Requests
      /\ leave' = [leave EXCEPT ![p.req] = None]
      /\ session' = [session EXCEPT ![s] = None]
      /\ entry' = entry /\ gone' = gone \cup {p.req}
  BY DEF CommitDelete, IInv, TypeOK, PlanOK
<1> PICK early \in BOOLEAN :
       day' = [c \in Cells |->
         IF c \in Cleared(p, early) THEN None
         ELSE IF c \in Linked(p.req) THEN [day[c] EXCEPT !.req = None]
         ELSE day[c]]
  BY DEF CommitDelete
<1>2. \A q \in Requests : leave'[q] = IF q = p.req THEN None ELSE leave[q]
  BY <1>1 DEF IInv, TypeOK
<1>3. \A c \in Cells : \/ day'[c] = None
                       \/ day[c] # None /\ day'[c] = [day[c] EXCEPT !.req = None]
                       \/ day'[c] = day[c] /\ c \notin Linked(p.req)
  BY DEF Linked
<1>4. \A c \in Cells : day[c] # None => day[c] \in Mark
  BY DEF IInv, TypeOK
<1>5. TypeOK'
  <2>1. day' \in [Cells -> Mark \cup {None}]
    <3>1. day' = [c \in Cells |-> day'[c]]
      OBVIOUS
    <3>2. \A c \in Cells : day'[c] \in Mark \cup {None}
      BY <1>3, <1>4 DEF Mark, IInv, TypeOK
    <3> QED
      BY <3>1, <3>2
  <2> QED
    BY <1>1, <2>1 DEF IInv, TypeOK
<1>6. FinalByManaging' /\ FinalApprovalOnly'
  BY <1>2 DEF IInv, FinalByManaging, FinalApprovalOnly
<1>7. FinalOpensDates'
  <2> SUFFICES ASSUME NEW c \in Cells, day'[c] # None, day'[c].req # None
               PROVE  leave'[day'[c].req] # None /\ leave'[day'[c].req].final
    BY DEF FinalOpensDates
  <2>1. day'[c] = day[c] /\ c \notin Linked(p.req)
    BY <1>3, <1>4 DEF Mark
  <2>2. day[c].req \in Requests /\ day[c].req # p.req
    BY <1>4, <2>1 DEF Mark, Linked
  <2> QED
    BY <1>2, <2>1, <2>2 DEF IInv, FinalOpensDates
<1>8. EntryMarksAlive'
  <2> SUFFICES ASSUME NEW c \in Cells, day'[c] # None
               PROVE  day[c] # None /\ day'[c].entry = day[c].entry
    BY <1>1 DEF IInv, EntryMarksAlive
  <2> QED
    BY <1>3, <1>4 DEF Mark
<1>9. \A t \in Sessions : session'[t] # None => PlanOK(session[t])'
  BY <1>1, <1>2, PlansKept
<1> QED
  BY <1>5, <1>6, <1>7, <1>8, <1>9 DEF IInv

\* So does a handler that fails.
LEMMA AbortIInv ==
  ASSUME IInv, NEW s \in Sessions, Abort(s)
  PROVE  IInv'
<1>1. session' = [session EXCEPT ![s] = None] /\ UNCHANGED <<leave, day, entry, gone>>
  BY DEF Abort
<1>2. \A t \in Sessions : session'[t] # None => PlanOK(session[t])'
  BY <1>1, PlansKept
<1> QED
  BY <1>1, <1>2 DEF IInv, TypeOK, FinalByManaging, FinalApprovalOnly, FinalOpensDates,
                    EntryMarksAlive

\* A step that leaves requests, ids and handlers alone, and keeps the request
\* links of the marks it keeps, preserves what concerns requests.
LEMMA CalendarStep ==
  ASSUME IInv, UNCHANGED <<leave, session>>, gone \subseteq gone',
         \A c \in Cells : day'[c] # None /\ day'[c].req # None =>
           \E b \in Cells : day[b] # None /\ day[b].req = day'[c].req
  PROVE  /\ \A s \in Sessions : session'[s] # None => PlanOK(session[s])'
         /\ FinalByManaging' /\ FinalApprovalOnly' /\ FinalOpensDates'
<1>1. \A s \in Sessions : session'[s] # None => PlanOK(session[s])'
  BY DEF IInv, PlanOK
<1>2. FinalByManaging' /\ FinalApprovalOnly'
  BY DEF IInv, FinalByManaging, FinalApprovalOnly
<1>3. FinalOpensDates'
  BY DEF IInv, FinalOpensDates
<1> QED
  BY <1>1, <1>2, <1>3

\* A manual entry takes over the dates of its period.
LEMMA CreateEntryIInv ==
  ASSUME IInv, NEW x \in Entries, NEW u \in Employees, NEW kind \in Kinds,
         NEW from \in Dates, NEW to \in Dates, CreateEntry(x, u, kind, from, to)
  PROVE  IInv'
<1> DEFINE e == [emp |-> u, kind |-> kind, from |-> from, to |-> to]
<1>1. e \in Entry /\ e # None /\ x # None
  BY LeaveAssumption, NoneAssumption DEF Entry
<1>2. /\ entry[x] = None /\ from <= to /\ YearOf(from) = YearOf(to)
      /\ entry' = [entry EXCEPT ![x] = e]
      /\ day' = [c \in Cells |-> IF c \in Period(e) THEN Overwrite(day[c], kind, x) ELSE day[c]]
      /\ leave' = leave /\ gone' = gone /\ session' = session
  BY DEF CreateEntry
<1>3. \A c \in Cells : day[c] # None => day[c] \in Mark
  BY DEF IInv, TypeOK
<1>4. ASSUME NEW c \in Cells, c \in Period(e)
      PROVE  /\ day'[c] \in Mark /\ day'[c].entry = x
             /\ day'[c].req # None => day[c] # None /\ day[c].req = day'[c].req
             /\ c[1] = u /\ YearOf(c[2]) = YearOf(from)
  <2>1. day'[c] = Overwrite(day[c], kind, x)
    BY <1>2, <1>4
  <2>2. /\ day'[c] \in Mark /\ day'[c].entry = x
        /\ day'[c].req # None => day[c] # None /\ day[c].req = day'[c].req
    <3>1. kind \in AllKinds
      BY LeaveAssumption
    <3>2. CASE day[c] = None
      <4>1. day'[c] = [kind |-> kind, req |-> None, entry |-> x]
        BY <2>1, <3>2 DEF Overwrite
      <4> QED
        BY <3>1, <4>1 DEF Mark
    <3>3. CASE day[c] # None
      <4>1. day[c] \in Mark /\ day'[c] = [day[c] EXCEPT !.kind = kind, !.entry = x]
        BY <1>3, <2>1, <3>3 DEF Overwrite
      <4> QED
        BY <3>1, <3>3, <4>1 DEF Mark
    <3> QED
      BY <3>2, <3>3
  <2>3. PICK d \in from .. to : c = <<u, d>>
    BY <1>4 DEF Period
  <2>4. d \in Dates
    BY <2>3, CalendarAssumption DEF Dates
  <2>5. from <= d /\ d <= to
    BY <2>3, CalendarAssumption DEF Dates
  <2>6. YearOf(from) <= YearOf(d) /\ YearOf(d) <= YearOf(to)
    BY <2>4, <2>5, YearMonotone
  <2>7. YearOf(from) \in Int /\ YearOf(d) \in Int
    BY <2>4, CalendarAssumption DEF YearOf, Dates
  <2>8. YearOf(d) = YearOf(from)
    BY <1>2, <2>6, <2>7
  <2> QED
    BY <2>2, <2>3, <2>8
<1>5. \A c \in Cells : c \notin Period(e) => day'[c] = day[c]
  BY <1>2
<1> HIDE DEF e
<1>6. TypeOK'
  <2>1. day' \in [Cells -> Mark \cup {None}]
    <3>1. day' = [c \in Cells |-> day'[c]]
      BY <1>2
    <3>2. \A c \in Cells : day'[c] \in Mark \cup {None}
      BY <1>4, <1>5, <1>3
    <3> QED
      BY <3>1, <3>2
  <2> QED
    BY <1>1, <1>2, <2>1 DEF IInv, TypeOK
<1>7. \A c \in Cells : day'[c] # None /\ day'[c].req # None =>
        \E b \in Cells : day[b] # None /\ day[b].req = day'[c].req
  BY <1>4, <1>5
<1>8. EntryMarksAlive'
  <2> SUFFICES ASSUME NEW c \in Cells, day'[c] # None, day'[c].entry # None
               PROVE  LET f == entry'[day'[c].entry] IN
                      f # None /\ f.emp = c[1] /\ YearOf(f.from) = YearOf(c[2])
    BY DEF EntryMarksAlive, YearOf
  <2>1. entry'[x] = e /\ e.emp = u /\ e.from = from
    BY <1>2 DEF IInv, TypeOK, e
  <2>2. CASE c \in Period(e)
    BY <1>1, <1>4, <2>1, <2>2
  <2>3. CASE c \notin Period(e)
    <3>1. day'[c] = day[c] /\ day[c].entry \in Entries
      BY <1>3, <1>5, <2>3 DEF Mark
    <3>2. /\ entry[day[c].entry] # None /\ entry[day[c].entry].emp = c[1]
          /\ YearOf(entry[day[c].entry].from) = YearOf(c[2])
      BY <3>1 DEF IInv, EntryMarksAlive
    <3>3. day[c].entry # x
      BY <1>2, <3>2
    <3>4. entry'[day[c].entry] = entry[day[c].entry]
      BY <1>2, <3>1, <3>3 DEF IInv, TypeOK
    <3> QED
      BY <3>1, <3>2, <3>4
  <2> QED
    BY <2>2, <2>3
<1> QED
  BY <1>2, <1>6, <1>7, <1>8, CalendarStep DEF IInv

\* Entries that go, alone or with a year of the schedule, take their marks.
LEMMA LoseEntriesIInv ==
  ASSUME IInv, NEW lost \in SUBSET Entries,
         entry' = [x \in Entries |-> IF x \in lost THEN None ELSE entry[x]],
         gone' = gone \cup lost,
         UNCHANGED <<leave, session>>,
         day' \in [Cells -> Mark \cup {None}],
         \A c \in Cells : day'[c] = None \/ day'[c] = day[c],
         \A c \in Cells : day[c] # None /\ day[c].entry \in lost => day'[c] = None
  PROVE  IInv'
<1>1. TypeOK'
  BY DEF IInv, TypeOK
<1>2. \A c \in Cells : day'[c] # None /\ day'[c].req # None =>
        \E b \in Cells : day[b] # None /\ day[b].req = day'[c].req
  OBVIOUS
<1>3. EntryMarksAlive'
  <2> SUFFICES ASSUME NEW c \in Cells, day'[c] # None, day'[c].entry # None
               PROVE  LET f == entry'[day'[c].entry] IN
                      f # None /\ f.emp = c[1] /\ YearOf(f.from) = YearOf(c[2])
    BY DEF EntryMarksAlive, YearOf
  <2>1. day'[c] = day[c] /\ day[c].entry \in Entries /\ day[c].entry \notin lost
    BY DEF IInv, TypeOK, Mark
  <2>2. entry'[day[c].entry] = entry[day[c].entry]
    BY <2>1
  <2> QED
    BY <2>1, <2>2 DEF IInv, EntryMarksAlive
<1> QED
  BY <1>1, <1>2, <1>3, CalendarStep DEF IInv

\* The calendar by hand.
LEMMA ByHandIInv ==
  ASSUME IInv, ByHand
  PROVE  IInv'
<1>1. ASSUME NEW x \in Entries, NEW u \in Employees, NEW kind \in Kinds,
             NEW from \in Dates, NEW to \in Dates, CreateEntry(x, u, kind, from, to)
      PROVE  IInv'
  BY <1>1, CreateEntryIInv
<1>2. ASSUME NEW x \in Entries, DeleteEntry(x)
      PROVE  IInv'
  <2>1. /\ entry' = [z \in Entries |-> IF z \in {x} THEN None ELSE entry[z]]
        /\ gone' = gone \cup {x} /\ UNCHANGED <<leave, session>>
    BY <1>2 DEF DeleteEntry, IInv, TypeOK
  <2>2. /\ day' \in [Cells -> Mark \cup {None}]
        /\ \A c \in Cells : day'[c] = None \/ day'[c] = day[c]
        /\ \A c \in Cells : day[c] # None /\ day[c].entry \in {x} => day'[c] = None
    BY <1>2 DEF DeleteEntry, IInv, TypeOK
  <2> QED
    BY <2>1, <2>2, LoseEntriesIInv
<1>3. ASSUME NEW c \in Cells, NEW kind \in HandKinds, AddDay(c, kind)
      PROVE  IInv'
  <2>1. /\ \A k \in Cells : k # c => day'[k] = day[k]
        /\ day'[c].req = None /\ day'[c].entry = None
        /\ entry' = entry /\ gone' = gone /\ UNCHANGED <<leave, session>>
    BY <1>3 DEF AddDay, IInv, TypeOK
  <2>2. TypeOK'
    BY <1>3, <2>1, LeaveAssumption DEF AddDay, IInv, TypeOK, Mark
  <2>3. EntryMarksAlive'
    BY <2>1 DEF IInv, EntryMarksAlive
  <2>4. \A k \in Cells : day'[k] # None /\ day'[k].req # None =>
          \E b \in Cells : day[b] # None /\ day[b].req = day'[k].req
    BY <2>1
  <2> QED
    BY <2>1, <2>2, <2>3, <2>4, CalendarStep DEF IInv
<1>4. ASSUME NEW c \in Cells, NEW d \in Dates, NEW kind, PatchDay(c, d, kind),
             kind \in AllKinds
      PROVE  IInv'
  <2> DEFINE to == <<c[1], d>>
             m == [day[c] EXCEPT !.kind = kind]
  <2>1. day[c] # None /\ day[c] \in Mark /\ YearOf(d) = YearOf(c[2]) /\ to \in Cells
    BY <1>4 DEF PatchDay, IInv, TypeOK, Cells
  <2>2. m \in Mark /\ m.req = day[c].req /\ m.entry = day[c].entry
    BY <1>4, <2>1 DEF Mark
  <2>3. /\ day' = [k \in Cells |-> IF k = to THEN m ELSE IF k = c THEN None ELSE day[k]]
        /\ entry' = entry /\ gone' = gone /\ UNCHANGED <<leave, session>>
    BY <1>4 DEF PatchDay
  <2>4. to[1] = c[1] /\ to[2] = d
    OBVIOUS
  <2> HIDE DEF m, to
  <2>5. TypeOK'
    BY <2>2, <2>3 DEF IInv, TypeOK
  <2>6. \A k \in Cells : day'[k] # None => (k = to /\ day'[k] = m) \/ day'[k] = day[k]
    BY <2>3
  <2>7. \A k \in Cells : day'[k] # None /\ day'[k].req # None =>
          \E b \in Cells : day[b] # None /\ day[b].req = day'[k].req
    BY <2>1, <2>2, <2>6
  <2>8. EntryMarksAlive'
    <3> SUFFICES ASSUME NEW k \in Cells, day'[k] # None, day'[k].entry # None
                 PROVE  LET f == entry[day'[k].entry] IN
                        f # None /\ f.emp = k[1] /\ YearOf(f.from) = YearOf(k[2])
      BY <2>3 DEF EntryMarksAlive, YearOf
    <3>1. CASE k = to /\ day'[k] = m
      BY <2>1, <2>2, <2>4, <3>1 DEF IInv, EntryMarksAlive
    <3>2. CASE day'[k] = day[k]
      BY <3>2 DEF IInv, EntryMarksAlive
    <3> QED
      BY <2>6, <3>1, <3>2
  <2> QED
    BY <2>3, <2>5, <2>7, <2>8, CalendarStep DEF IInv
<1>5. ASSUME NEW c \in Cells, DeleteDay(c)
      PROVE  IInv'
  <2> DEFINE lost == {}
  <2>1. /\ entry' = [z \in Entries |-> IF z \in lost THEN None ELSE entry[z]]
        /\ gone' = gone \cup lost /\ UNCHANGED <<leave, session>>
    BY <1>5 DEF DeleteDay, IInv, TypeOK
  <2>2. /\ day' \in [Cells -> Mark \cup {None}]
        /\ \A k \in Cells : day'[k] = None \/ day'[k] = day[k]
        /\ \A k \in Cells : day[k] # None /\ day[k].entry \in lost => day'[k] = None
    BY <1>5 DEF DeleteDay, IInv, TypeOK
  <2>3. lost \in SUBSET Entries
    OBVIOUS
  <2> HIDE DEF lost
  <2> QED
    BY <2>1, <2>2, <2>3, LoseEntriesIInv
<1>6. ASSUME NEW u \in Employees, NEW y, DeleteScheduleEmployee(u, y)
      PROVE  IInv'
  <2> DEFINE lost == {x \in Entries : entry[x] # None /\ entry[x].emp = u
                                         /\ YearOf(entry[x].from) = y}
  <2>1. /\ entry' = [z \in Entries |-> IF z \in lost THEN None ELSE entry[z]]
        /\ gone' = gone \cup lost /\ UNCHANGED <<leave, session>>
        /\ day' = [c \in Cells |-> IF c[1] = u /\ YearOf(c[2]) = y THEN None ELSE day[c]]
    BY <1>6 DEF DeleteScheduleEmployee
  <2>2. /\ day' \in [Cells -> Mark \cup {None}]
        /\ \A c \in Cells : day'[c] = None \/ day'[c] = day[c]
    BY <2>1 DEF IInv, TypeOK
  <2>3. ASSUME NEW c \in Cells, day[c] # None, day[c].entry \in lost
        PROVE  day'[c] = None
    <3>1. day[c].entry # None
      BY <2>3, LeaveAssumption
    <3>2. entry[day[c].entry].emp = c[1] /\ YearOf(entry[day[c].entry].from) = YearOf(c[2])
      BY <2>3, <3>1 DEF IInv, EntryMarksAlive
    <3> QED
      BY <2>1, <2>3, <3>2
  <2> HIDE DEF lost
  <2>4. lost \in SUBSET Entries
    BY DEF lost
  <2> QED
    BY <2>1, <2>2, <2>3, <2>4, LoseEntriesIInv
<1>7. ASSUME NEW c \in Cells, NEW d \in Dates, PatchDay(c, d, day[c].kind)
      PROVE  day[c].kind \in AllKinds
  BY <1>7 DEF PatchDay, IInv, TypeOK, Mark
<1> QED
  BY <1>1, <1>2, <1>3, <1>4, <1>5, <1>6, <1>7, LeaveAssumption DEF ByHand

\* Every step preserves the invariant.
LEMMA NextIInv == IInv /\ [Next]_vars => IInv'
<1> SUFFICES ASSUME IInv, [Next]_vars PROVE IInv'
  OBVIOUS
<1>1. ASSUME NEW s \in Sessions,
             Handler(s) \/ CommitCreate(s) \/ CommitWrite(s) \/ CommitDelete(s) \/ Abort(s)
      PROVE  IInv'
  BY <1>1, HandlerIInv, CreateIInv, WriteCommitIInv, DeleteIInv, AbortIInv
<1>2. CASE ByHand
  BY <1>2, ByHandIInv
<1>3. CASE UNCHANGED vars
  BY <1>3 DEF vars, IInv, TypeOK, PlanOK, FinalByManaging, FinalApprovalOnly,
              FinalOpensDates, EntryMarksAlive
<1> QED
  BY <1>1, <1>2, <1>3 DEF Next

\* The invariant holds in every reachable state, whatever overlaps.
THEOREM Inductive == Spec => []IInv
  BY InitIInv, NextIInv, PTL DEF Spec

\* The tables and the planned changes always have the types of their columns.
THEOREM TypeCorrect == Spec => []TypeOK
<1>1. IInv => TypeOK
  BY DEF IInv
<1> QED
  BY <1>1, Inductive, PTL

\* No leave is ever approved without a final decision, and none carries a name
\* other than the managing partner's, however the two stages, withdrawals and
\* deletions overlap.
THEOREM NoLeaveWithoutManaging == Spec => []FinalApprovalOnly
<1>1. IInv => FinalApprovalOnly
  BY DEF IInv
<1> QED
  BY <1>1, Inductive, PTL

\* The calendar is opened by a final decision only; no mark of it names a request
\* that was deleted, nor a manual entry that is gone, through approvals, deletions,
\* edits by hand and the deletion of an employee's year.
THEOREM CalendarIsOwned == Spec => []MarksAreOwned
<1>1. IInv => MarksAreOwned
  BY DEF IInv, MarksAreOwned
<1> QED
  BY <1>1, Inductive, PTL

-----------------------------------------------------------------------------
(* Handlers that take turns: each commits or fails before the next begins.  *)

OneSession == \A s, t \in Sessions : s = t

\* The decisions that a request with row l may go through.
Moves(l, tgt) ==
  \/ l.status = "pending" /\ tgt.status \in {"pending_final", "approved", "declined", "cancelled"}
  \/ l.status = "pending_final" /\ tgt.status \in {"approved", "declined", "cancelled"}
  \/ l.status = "approved" /\ tgt.status = "cancelled"

\* A row that passed the curator carries the consents it needed to get there.
Consented(l) ==
  /\ l.status = "pending_final" => l.decidedBy = l.partner /\ l.partner \notin Managing
  /\ l.status = "approved" =>
       l.decidedBy = l.partner /\ (l.partner \in Managing => l.finalBy = l.partner)

\* A plan whose facts still hold: the row is as it was loaded, it makes one of the
\* moves, and it takes the marks along when it ends an approval.
InTurn(p) ==
  /\ p.clear /\ ~p.found => Linked(p.req) = {}
  /\ p.op = "create" => ~p.clear
  /\ p.op # "create" => leave[p.req] # None /\ p.snap = leave[p.req]
  /\ p.op = "write" =>
       /\ Moves(p.snap, p.tgt) /\ Consented(p.tgt) /\ p.tgt.partner = p.snap.partner
       /\ p.fill # {} => p.tgt.status = "approved"
       /\ p.snap.status = "approved" => p.clear
  /\ p.op = "delete" => p.clear

\* The inductive invariant of handlers that take turns.
TurnInv ==
  /\ \A s \in Sessions : session[s] # None => InTurn(session[s])
  /\ \A r \in Requests : leave[r] # None => Consented(leave[r])
  /\ MarksOnlyWhileApproved

LEMMA StageTurn ==
  ASSUME OneSession, IInv, TurnInv, NEW s \in Sessions, NEW p, InTurn(p),
         session' = [session EXCEPT ![s] = p],
         UNCHANGED <<leave, day, entry, gone>>
  PROVE  TurnInv'
<1>1. ASSUME NEW t \in Sessions
      PROVE  InTurn(session[t])'
  <2>1. session'[t] = p
    BY DEF OneSession, IInv, TypeOK
  <2> QED
    BY <2>1 DEF InTurn, Linked
<1>2. MarksOnlyWhileApproved' /\ \A r \in Requests : leave'[r] # None => Consented(leave[r])'
  BY DEF TurnInv, MarksOnlyWhileApproved, Consented
<1> QED
  BY <1>1, <1>2 DEF TurnInv

\* A plan that moves a request it has loaded.
LEMMA WriteTurn ==
  ASSUME OneSession, IInv, TurnInv, NEW s \in Sessions, NEW r \in Requests, leave[r] # None,
         NEW tgt \in Leave, NEW fill, NEW clear \in BOOLEAN,
         Moves(leave[r], tgt), Consented(tgt), tgt.partner = leave[r].partner,
         fill # {} => tgt.status = "approved",
         leave[r].status = "approved" => clear,
         Stage(s, "write", r, tgt, fill, clear)
  PROVE  TurnInv'
<1> DEFINE p == [op |-> "write", req |-> r, snap |-> leave[r], tgt |-> tgt,
                 fill |-> fill, clear |-> clear, found |-> Linked(r) # {}]
<1>1. InTurn(p)
  BY DEF InTurn
<1>2. session' = [session EXCEPT ![s] = p] /\ UNCHANGED <<leave, day, entry, gone>>
  BY DEF Stage
<1> HIDE DEF p
<1> QED
  BY <1>1, <1>2, StageTurn

\* The handlers, each up to its commit.
LEMMA HandlerTurn ==
  ASSUME OneSession, IInv, TurnInv, NEW s \in Sessions, Handler(s)
  PROVE  TurnInv'
<1> DEFINE Loaded(r) == leave[r] # None /\ leave[r] \in Leave /\ Consented(leave[r])
<1>0. \A r \in Requests : leave[r] # None => Loaded(r)
  BY DEF IInv, TypeOK, TurnInv
<1>1. CASE \E u \in Employees, p \in Partners, kind \in Kinds, from, to \in Dates :
             Create(s, u, p, kind, from, to)
  <2> PICK u \in Employees, p \in Partners, kind \in Kinds, from \in Dates, to \in Dates :
             Create(s, u, p, kind, from, to)
    BY <1>1
  <2> DEFINE l == [emp |-> u, partner |-> p, kind |-> kind, from |-> from, to |-> to,
                   status |-> "pending", decidedBy |-> None, final |-> FALSE, finalBy |-> None]
             plan == [op |-> "create", req |-> None, snap |-> l, tgt |-> l,
                      fill |-> {}, clear |-> FALSE, found |-> FALSE]
  <2>1. InTurn(plan)
    BY DEF InTurn
  <2>2. session' = [session EXCEPT ![s] = plan] /\ UNCHANGED <<leave, day, entry, gone>>
    BY DEF Create
  <2> HIDE DEF plan
  <2> QED
    BY <2>1, <2>2, StageTurn
<1>2. ASSUME NEW r \in Requests, NEW approve \in BOOLEAN, PartnerDecide(s, r, approve)
      PROVE  TurnInv'
  <2> DEFINE l == [leave[r] EXCEPT !.decidedBy = leave[r].partner]
             final == [l EXCEPT !.status = "approved", !.final = TRUE, !.finalBy = l.partner]
             next == [l EXCEPT !.status = "pending_final"]
             declined == [l EXCEPT !.status = "declined"]
  <2>1. leave[r] # None /\ leave[r] \in Leave /\ leave[r].status = "pending"
    BY <1>0, <1>2 DEF PartnerDecide, Loadable
  <2>2. leave[r].partner \in Partners /\ leave[r].partner \in Users
    BY <2>1, LeaveAssumption DEF Leave
  <2>3. /\ l \in Leave /\ l.partner = leave[r].partner /\ l.decidedBy = leave[r].partner
        /\ declined \in Leave /\ declined.status = "declined"
        /\ declined.partner = leave[r].partner
    BY <2>1, <2>2 DEF Leave, Statuses
  <2>4. /\ final \in Leave /\ final.status = "approved" /\ final.partner = leave[r].partner
        /\ final.decidedBy = leave[r].partner /\ final.finalBy = leave[r].partner
    BY <2>1, <2>2 DEF Leave, Statuses
  <2>5. /\ next \in Leave /\ next.status = "pending_final" /\ next.partner = leave[r].partner
        /\ next.decidedBy = leave[r].partner
    BY <2>1, <2>2 DEF Leave, Statuses
  <2>6. \/ Stage(s, "write", r, declined, {}, FALSE)
        \/ l.partner \in Managing /\ Stage(s, "write", r, final, Fill(l), FALSE)
        \/ l.partner \notin Managing /\ Stage(s, "write", r, next, {}, FALSE)
    BY <1>2 DEF PartnerDecide
  <2> HIDE DEF l, final, next, declined
  <2>7. CASE Stage(s, "write", r, declined, {}, FALSE)
    <3>1. Moves(leave[r], declined) /\ Consented(declined)
      BY <2>1, <2>3 DEF Moves, Consented
    <3> QED
      BY <2>1, <2>3, <2>7, <3>1, WriteTurn
  <2>8. CASE l.partner \in Managing /\ Stage(s, "write", r, final, Fill(l), FALSE)
    <3>1. Moves(leave[r], final) /\ Consented(final)
      BY <2>1, <2>3, <2>4 DEF Moves, Consented
    <3> QED
      BY <2>1, <2>4, <2>8, <3>1, WriteTurn
  <2>9. CASE l.partner \notin Managing /\ Stage(s, "write", r, next, {}, FALSE)
    <3>1. Moves(leave[r], next) /\ Consented(next)
      BY <2>1, <2>3, <2>5, <2>9 DEF Moves, Consented
    <3> QED
      BY <2>1, <2>5, <2>9, <3>1, WriteTurn
  <2> QED
    BY <2>6, <2>7, <2>8, <2>9
<1>3. ASSUME NEW r \in Requests, NEW by \in Managing \cup {None}, NEW approve \in BOOLEAN,
             FinalDecide(s, r, by, approve)
      PROVE  TurnInv'
  <2> DEFINE l == leave[r]
             tgt == [l EXCEPT !.status = IF approve THEN "approved" ELSE "declined",
                              !.final = TRUE, !.finalBy = by]
             fill == IF approve THEN Fill(l) ELSE {}
  <2>1. l # None /\ l \in Leave /\ Consented(l) /\ l.status = "pending_final"
    BY <1>0, <1>3 DEF FinalDecide, Loadable
  <2>2. /\ tgt \in Leave /\ tgt.partner = l.partner /\ tgt.decidedBy = l.decidedBy
        /\ tgt.status = IF approve THEN "approved" ELSE "declined"
    BY <2>1, LeaveAssumption DEF Leave, Statuses
  <2>3. fill # {} => tgt.status = "approved"
    BY <2>2
  <2>4. Stage(s, "write", r, tgt, fill, FALSE)
    BY <1>3 DEF FinalDecide
  <2> HIDE DEF tgt, fill, l
  <2>5. Moves(l, tgt) /\ Consented(tgt)
    BY <2>1, <2>2 DEF Moves, Consented
  <2> QED
    BY <2>1, <2>2, <2>3, <2>4, <2>5, WriteTurn DEF l
<1>4. ASSUME NEW r \in Requests, NEW clear \in BOOLEAN, leave[r] # None,
             leave[r].status \in InProgress \cup {"approved"},
             leave[r].status = "approved" => clear,
             Stage(s, "write", r,
                   [leave[r] EXCEPT !.status = "cancelled", !.decidedBy = leave[r].emp],
                   {}, clear)
      PROVE  TurnInv'
  <2> DEFINE tgt == [leave[r] EXCEPT !.status = "cancelled", !.decidedBy = leave[r].emp]
  <2>1. leave[r] \in Leave
    BY <1>0, <1>4
  <2>2. tgt \in Leave /\ tgt.status = "cancelled" /\ tgt.partner = leave[r].partner
    BY <2>1, LeaveAssumption DEF Leave, Statuses
  <2> HIDE DEF tgt
  <2>3. Stage(s, "write", r, tgt, {}, clear)
    BY <1>4 DEF tgt
  <2>4. Moves(leave[r], tgt) /\ Consented(tgt)
    BY <1>4, <2>2 DEF Moves, Consented, InProgress
  <2> QED
    BY <1>4, <2>2, <2>3, <2>4, WriteTurn
<1>5. ASSUME NEW r \in Requests, NEW u \in Users, Delete(s, u, r)
      PROVE  TurnInv'
  <2> DEFINE p == [op |-> "delete", req |-> r, snap |-> leave[r], tgt |-> leave[r],
                   fill |-> {}, clear |-> TRUE, found |-> Linked(r) # {}]
  <2>1. /\ leave[r] # None
        /\ session' = [session EXCEPT ![s] = p] /\ UNCHANGED <<leave, day, entry, gone>>
    BY <1>5 DEF Delete, Loadable, Stage
  <2>2. InTurn(p)
    BY <2>1 DEF InTurn
  <2> HIDE DEF p
  <2> QED
    BY <2>1, <2>2, StageTurn
<1>6. ASSUME NEW r \in Requests, Withdraw(s, r) \/ Cancel(s, r)
      PROVE  TurnInv'
  <2>1. CASE Withdraw(s, r)
    <3>1. /\ leave[r] # None /\ leave[r].status \in InProgress \cup {"approved"}
          /\ leave[r].status # "approved"
          /\ Stage(s, "write", r,
                   [leave[r] EXCEPT !.status = "cancelled", !.decidedBy = leave[r].emp],
                   {}, FALSE)
      BY <2>1 DEF Withdraw, Loadable, InProgress
    <3> QED
      BY <1>4, <3>1
  <2>2. CASE Cancel(s, r)
    BY <1>4, <2>2 DEF Cancel, Loadable
  <2> QED
    BY <1>6, <2>1, <2>2
<1> QED
  BY <1>1, <1>2, <1>3, <1>5, <1>6 DEF Handler

\* With one session, nobody plans anything after a commit.
LEMMA NobodyPlans ==
  ASSUME OneSession, IInv, NEW s \in Sessions, session' = [session EXCEPT ![s] = None]
  PROVE  \A t \in Sessions : session'[t] = None
BY DEF OneSession, IInv, TypeOK

\* Writing a plan in turn writes the row it meant.
LEMMA MergeInTurn ==
  ASSUME NEW p \in Plan, NEW cur \in Leave, p.snap = cur
  PROVE  LET m == Merge(cur, p) IN
         /\ m.status = p.tgt.status /\ m.decidedBy = p.tgt.decidedBy
         /\ m.final = p.tgt.final /\ m.finalBy = p.tgt.finalBy
         /\ m.emp = cur.emp /\ m.partner = cur.partner /\ m.kind = cur.kind
         /\ m.from = cur.from /\ m.to = cur.to
<1> DEFINE m == Merge(cur, p)
<1>1. /\ m.status = Changed(cur.status, p.snap.status, p.tgt.status)
      /\ m.decidedBy = Changed(cur.decidedBy, p.snap.decidedBy, p.tgt.decidedBy)
      /\ m.final = Changed(cur.final, p.snap.final, p.tgt.final)
      /\ m.finalBy = Changed(cur.finalBy, p.snap.finalBy, p.tgt.finalBy)
      /\ m.emp = cur.emp /\ m.partner = cur.partner /\ m.kind = cur.kind
      /\ m.from = cur.from /\ m.to = cur.to
  BY DEF Merge, Leave
<1> HIDE DEF m
<1> QED
  BY <1>1 DEF Changed, m

\* What the commit of a written plan does, in turn.
LEMMA WriteCommitFacts ==
  ASSUME IInv, TurnInv, NEW s \in Sessions, CommitWrite(s)
  PROVE  LET p == session[s] IN
         /\ p # None /\ p \in Plan /\ p.op = "write" /\ InTurn(p)
         /\ p.req \in Requests /\ leave[p.req] # None /\ leave[p.req] \in Leave
         /\ p.snap = leave[p.req]
         /\ leave'[p.req] = Merge(leave[p.req], p) /\ leave'[p.req] # None
         /\ \A q \in Requests : q # p.req => leave'[q] = leave[q]
         /\ session' = [session EXCEPT ![s] = None]
<1> DEFINE p == session[s]
<1>1. /\ p # None /\ p \in Plan /\ p.op = "write" /\ PlanOK(p) /\ InTurn(p)
      /\ leave[p.req] # None
      /\ leave' = [leave EXCEPT ![p.req] = Merge(leave[p.req], p)]
      /\ session' = [session EXCEPT ![s] = None]
  BY DEF CommitWrite, IInv, TypeOK, TurnInv
<1>2. p.req \in Requests /\ leave[p.req] \in Leave /\ p.snap = leave[p.req]
  BY <1>1 DEF PlanOK, InTurn, IInv, TypeOK
<1>3. Merge(leave[p.req], p) # None
  BY <1>1, <1>2, MergeLeave, NoneAssumption
<1> HIDE DEF p
<1>4. /\ leave'[p.req] = Merge(leave[p.req], p)
      /\ \A q \in Requests : q # p.req => leave'[q] = leave[q]
  BY <1>1, <1>2 DEF IInv, TypeOK
<1> QED
  BY <1>1, <1>2, <1>3, <1>4 DEF p

LEMMA WriteCommitTurn ==
  ASSUME OneSession, IInv, TurnInv, NEW s \in Sessions, CommitWrite(s)
  PROVE  TurnInv'
<1> DEFINE p == session[s]
           m == Merge(leave[p.req], p)
<1>1. /\ p # None /\ p \in Plan /\ p.op = "write" /\ InTurn(p)
      /\ p.req \in Requests /\ leave[p.req] # None /\ leave[p.req] \in Leave
      /\ p.snap = leave[p.req]
      /\ leave'[p.req] = m /\ m # None
      /\ \A q \in Requests : q # p.req => leave'[q] = leave[q]
      /\ session' = [session EXCEPT ![s] = None]
  BY WriteCommitFacts
<1>2. /\ m.status = p.tgt.status /\ m.decidedBy = p.tgt.decidedBy
      /\ m.finalBy = p.tgt.finalBy /\ m.partner = leave[p.req].partner
  BY <1>1, MergeInTurn
<1> PICK early \in BOOLEAN :
       day' = [c \in Cells |->
         IF c \in Cleared(p, early) THEN None
         ELSE IF c \in p.fill THEN [kind |-> p.tgt.kind, req |-> p.req, entry |-> None]
         ELSE day[c]]
  BY DEF CommitWrite
<1>3. /\ Moves(p.snap, p.tgt) /\ Consented(p.tgt) /\ p.tgt.partner = p.snap.partner
      /\ p.fill # {} => p.tgt.status = "approved"
      /\ p.snap.status = "approved" => p.clear
      /\ p.clear /\ ~p.found => Linked(p.req) = {}
  BY <1>1 DEF InTurn
<1> HIDE DEF m
<1>4. Consented(m)
  BY <1>1, <1>2, <1>3 DEF Consented
<1>5. ASSUME NEW r \in Requests, leave'[r] # None
      PROVE  Consented(leave[r])'
  <2>1. Consented(leave'[r])
    BY <1>1, <1>4, <1>5 DEF TurnInv
  <2> QED
    BY <2>1 DEF Consented
<1>6. MarksOnlyWhileApproved'
  <2> SUFFICES ASSUME NEW c \in Cells, day'[c] # None, day'[c].req # None
               PROVE  leave'[day'[c].req] # None /\ leave'[day'[c].req].status = "approved"
    BY DEF MarksOnlyWhileApproved
  <2>1. CASE c \in p.fill /\ c \notin Cleared(p, early)
    <3>1. day'[c].req = p.req
      BY <2>1
    <3> QED
      BY <1>1, <1>2, <1>3, <2>1, <3>1
  <2>2. CASE c \notin p.fill /\ c \notin Cleared(p, early)
    <3>1. day'[c] = day[c]
      BY <2>2
    <3>2. /\ day[c].req \in Requests /\ leave[day[c].req] # None
          /\ leave[day[c].req].status = "approved"
      BY <3>1 DEF IInv, TypeOK, Mark, TurnInv, MarksOnlyWhileApproved
    <3>3. CASE day[c].req = p.req
      <4>1. p.clear /\ c \in Linked(p.req)
        BY <1>1, <1>3, <3>1, <3>2, <3>3 DEF Linked
      <4> QED
        BY <1>3, <2>2, <4>1 DEF Cleared
    <3>4. CASE day[c].req # p.req
      BY <1>1, <3>1, <3>2, <3>4
    <3> QED
      BY <3>3, <3>4
  <2>3. c \notin Cleared(p, early)
    OBVIOUS
  <2> QED
    BY <2>1, <2>2, <2>3
<1>7. \A t \in Sessions : session'[t] = None
  BY <1>1, NobodyPlans
<1> QED
  BY <1>5, <1>6, <1>7 DEF TurnInv

LEMMA CreateCommitTurn ==
  ASSUME OneSession, IInv, TurnInv, NEW s \in Sessions, CommitCreate(s)
  PROVE  TurnInv'
<1> PICK r \in Requests :
       /\ leave[r] = None /\ r \notin gone
       /\ leave' = [leave EXCEPT ![r] = session[s].tgt]
  BY DEF CommitCreate
<1> DEFINE l == session[s].tgt
<1>1. session' = [session EXCEPT ![s] = None] /\ day' = day
  BY DEF CommitCreate
<1>2. l \in Leave /\ l # None /\ l.status = "pending"
  BY NoneAssumption DEF CommitCreate, IInv, TypeOK, PlanOK, Plan
<1> HIDE DEF l
<1>3. \A q \in Requests : leave'[q] = IF q = r THEN l ELSE leave[q]
  BY DEF IInv, TypeOK, l
<1>4. ASSUME NEW q \in Requests, leave'[q] # None
      PROVE  Consented(leave[q])'
  <2>1. Consented(leave'[q])
    BY <1>2, <1>3, <1>4 DEF TurnInv, Consented
  <2> QED
    BY <2>1 DEF Consented
<1>5. MarksOnlyWhileApproved'
  BY <1>1, <1>3 DEF IInv, TypeOK, Mark, TurnInv, MarksOnlyWhileApproved
<1>6. \A t \in Sessions : session'[t] = None
  BY <1>1, NobodyPlans
<1> QED
  BY <1>4, <1>5, <1>6 DEF TurnInv

LEMMA DeleteCommitTurn ==
  ASSUME OneSession, IInv, TurnInv, NEW s \in Sessions, CommitDelete(s)
  PROVE  TurnInv'
<1> DEFINE p == session[s]
<1>1. /\ p # None /\ p \in Plan /\ p.op = "delete" /\ p.req \in Requests
      /\ leave' = [leave EXCEPT ![p.req] = None]
      /\ session' = [session EXCEPT ![s] = None]
  BY DEF CommitDelete, IInv, TypeOK, PlanOK
<1> PICK early \in BOOLEAN :
       day' = [c \in Cells |->
         IF c \in Cleared(p, early) THEN None
         ELSE IF c \in Linked(p.req) THEN [day[c] EXCEPT !.req = None]
         ELSE day[c]]
  BY DEF CommitDelete
<1>2. \A q \in Requests : leave'[q] = IF q = p.req THEN None ELSE leave[q]
  BY <1>1 DEF IInv, TypeOK
<1>3. ASSUME NEW q \in Requests, leave'[q] # None
      PROVE  Consented(leave[q])'
  <2>1. Consented(leave'[q])
    BY <1>2, <1>3 DEF TurnInv
  <2> QED
    BY <2>1 DEF Consented
<1>4. MarksOnlyWhileApproved'
  <2> SUFFICES ASSUME NEW c \in Cells, day'[c] # None, day'[c].req # None
               PROVE  leave'[day'[c].req] # None /\ leave'[day'[c].req].status = "approved"
    BY DEF MarksOnlyWhileApproved
  <2>1. \A b \in Cells : day[b] # None => day[b] \in Mark
    BY DEF IInv, TypeOK
  <2>2. day'[c] = day[c] /\ c \notin Linked(p.req)
    BY <2>1 DEF Linked, Mark
  <2>3. day[c].req \in Requests /\ day[c].req # p.req
    BY <2>1, <2>2 DEF Linked, Mark
  <2> QED
    BY <1>2, <2>2, <2>3 DEF TurnInv, MarksOnlyWhileApproved
<1>5. \A t \in Sessions : session'[t] = None
  BY <1>1, NobodyPlans
<1> QED
  BY <1>3, <1>4, <1>5 DEF TurnInv

\* A change of the calendar by hand adds no link to a request.
LEMMA ByHandLinks ==
  ASSUME IInv, ByHand
  PROVE  /\ UNCHANGED <<leave, session>>
         /\ \A c \in Cells : day'[c] # None /\ day'[c].req # None =>
              \E b \in Cells : day[b] # None /\ day[b].req = day'[c].req
<1> DEFINE Kept == \A c \in Cells : day'[c] # None /\ day'[c].req # None =>
                     \E b \in Cells : day[b] # None /\ day[b].req = day'[c].req
<1>0. \A c \in Cells : day[c] # None => day[c] \in Mark
  BY DEF IInv, TypeOK
<1>1. ASSUME NEW x \in Entries, NEW u, NEW kind, NEW from, NEW to,
             CreateEntry(x, u, kind, from, to)
      PROVE  Kept
  BY <1>0, <1>1 DEF CreateEntry, Overwrite, Mark
<1>2. ASSUME NEW x \in Entries, DeleteEntry(x)
      PROVE  Kept
  BY <1>2 DEF DeleteEntry
<1>3. ASSUME NEW c \in Cells, NEW kind, AddDay(c, kind)
      PROVE  Kept
  <2>1. \A k \in Cells : day'[k] = day[k] \/ day'[k].req = None
    BY <1>3 DEF AddDay, IInv, TypeOK
  <2> QED
    BY <2>1
<1>4. ASSUME NEW c \in Cells, NEW d, NEW kind, PatchDay(c, d, kind)
      PROVE  Kept
  <2> DEFINE m == [day[c] EXCEPT !.kind = kind]
  <2>1. \A k \in Cells : day'[k] # None => day'[k] = m \/ day'[k] = day[k]
    BY <1>4 DEF PatchDay
  <2>2. day[c] # None /\ m.req = day[c].req
    BY <1>0, <1>4 DEF PatchDay, Mark
  <2> HIDE DEF m
  <2> QED
    BY <2>1, <2>2
<1>5. ASSUME NEW c \in Cells, DeleteDay(c)
      PROVE  Kept
  <2>1. \A k \in Cells : day'[k] = None \/ day'[k] = day[k]
    BY <1>5 DEF DeleteDay, IInv, TypeOK
  <2> QED
    BY <2>1
<1>6. ASSUME NEW u, NEW y, DeleteScheduleEmployee(u, y)
      PROVE  Kept
  BY <1>6 DEF DeleteScheduleEmployee
<1>7. UNCHANGED <<leave, session>>
  BY DEF ByHand, CreateEntry, DeleteEntry, AddDay, PatchDay, DeleteDay, DeleteScheduleEmployee
<1>8. Kept
  BY <1>1, <1>2, <1>3, <1>4, <1>5, <1>6 DEF ByHand
<1> QED
  BY <1>7, <1>8

LEMMA ByHandTurn ==
  ASSUME IInv, TurnInv, ByHand
  PROVE  TurnInv'
<1>0. /\ UNCHANGED <<leave, session>>
      /\ \A c \in Cells : day'[c] # None /\ day'[c].req # None =>
           \E b \in Cells : day[b] # None /\ day[b].req = day'[c].req
  BY ByHandLinks
<1>1. MarksOnlyWhileApproved'
  BY <1>0 DEF TurnInv, MarksOnlyWhileApproved
<1>2. \A r \in Requests : leave'[r] # None => Consented(leave[r])'
  BY <1>0 DEF TurnInv, Consented
<1>3. ASSUME NEW s \in Sessions, session'[s] # None
      PROVE  InTurn(session[s])'
  <2> DEFINE p == session[s]
  <2>1. InTurn(p) /\ session'[s] = p /\ PlanOK(p)
    BY <1>0, <1>3 DEF TurnInv, IInv
  <2>2. (p.clear => p.req # None) /\ (p.clear /\ ~p.found => Linked(p.req) = {})
    BY <2>1, LeaveAssumption DEF PlanOK, InTurn
  <2> HIDE DEF p
  <2>3. p.clear /\ ~p.found => {c \in Cells : day'[c] # None /\ day'[c].req = p.req} = {}
    BY <1>0, <2>2 DEF Linked
  <2> QED
    BY <1>0, <2>1, <2>3 DEF InTurn, Linked, Consented
<1> QED
  BY <1>1, <1>2, <1>3 DEF TurnInv

LEMMA NextTurn ==
  ASSUME OneSession, IInv, TurnInv, [Next]_vars
  PROVE  TurnInv'
<1>1. ASSUME NEW s \in Sessions, Abort(s)
      PROVE  TurnInv'
  <2>1. session' = [session EXCEPT ![s] = None] /\ UNCHANGED <<leave, day, entry, gone>>
    BY <1>1 DEF Abort
  <2>2. \A t \in Sessions : session'[t] = None
    BY <2>1, NobodyPlans
  <2>3. MarksOnlyWhileApproved'
    BY <2>1 DEF TurnInv, MarksOnlyWhileApproved
  <2>4. \A r \in Requests : leave'[r] # None => Consented(leave[r])'
    BY <2>1 DEF TurnInv, Consented
  <2> QED
    BY <2>2, <2>3, <2>4 DEF TurnInv
<1>2. CASE UNCHANGED vars
  <2>1. MarksOnlyWhileApproved'
    BY <1>2 DEF vars, TurnInv, MarksOnlyWhileApproved
  <2>2. \A r \in Requests : leave'[r] # None => Consented(leave[r])'
    BY <1>2 DEF vars, TurnInv, Consented
  <2>3. \A s \in Sessions : session'[s] # None => InTurn(session[s])'
    BY <1>2 DEF vars, TurnInv, InTurn, Linked, Consented
  <2> QED
    BY <2>1, <2>2, <2>3 DEF TurnInv
<1> QED
  BY <1>1, <1>2, HandlerTurn, WriteCommitTurn, CreateCommitTurn, DeleteCommitTurn, ByHandTurn
     DEF Next

LEMMA TurnInductive ==
  ASSUME OneSession
  PROVE  Spec => [](IInv /\ TurnInv)
<1>1. Init => TurnInv
  BY DEF Init, TurnInv, MarksOnlyWhileApproved
<1>2. IInv /\ TurnInv /\ [Next]_vars => TurnInv'
  BY NextTurn
<1> QED
  BY <1>1, <1>2, InitIInv, NextIInv, PTL DEF Spec

\* When handlers take turns, the calendar shows a request only while it is approved,
\* whatever is edited by hand between a handler's load and its commit.
THEOREM MarksFollowApproval ==
  ASSUME OneSession
  PROVE  Spec => []MarksOnlyWhileApproved
<1>1. TurnInv => MarksOnlyWhileApproved
  BY DEF TurnInv
<1> QED
  BY <1>1, TurnInductive, PTL

\* When handlers take turns, an approved request has the consent of its curator and
\* that of the managing partner.
THEOREM BothConsent ==
  ASSUME OneSession
  PROVE  Spec => []TwoStages
<1>1. TurnInv => TwoStages
  BY DEF TurnInv, TwoStages, Consented
<1> QED
  BY <1>1, TurnInductive, PTL

\* What a step in turn does to the requests there are.
LEMMA StepMoves ==
  ASSUME IInv, TurnInv, [Next]_vars, NEW r \in Requests, leave[r] # None, leave'[r] # None
  PROVE  \/ leave'[r] = leave[r]
         \/ /\ Moves(leave[r], leave'[r])
            /\ \E s \in Sessions : CommitWrite(s) /\ session[s].req = r
<1>1. ASSUME NEW s \in Sessions, CommitWrite(s)
      PROVE  \/ leave'[r] = leave[r]
             \/ Moves(leave[r], leave'[r]) /\ session[s].req = r
  <2> DEFINE p == session[s]
             m == Merge(leave[r], p)
  <2>1. /\ p \in Plan /\ InTurn(p) /\ p.op = "write" /\ leave[p.req] \in Leave
        /\ p.snap = leave[p.req] /\ leave'[p.req] = Merge(leave[p.req], p)
        /\ \A q \in Requests : q # p.req => leave'[q] = leave[q]
    BY <1>1, WriteCommitFacts
  <2>2. CASE p.req = r
    <3>1. m.status = p.tgt.status /\ leave'[r] = m
      BY <2>1, <2>2, MergeInTurn
    <3> HIDE DEF m
    <3> QED
      BY <2>1, <2>2, <3>1 DEF InTurn, Moves
  <2> QED
    BY <2>1, <2>2
<1>2. ASSUME NEW s \in Sessions, CommitCreate(s)
      PROVE  leave'[r] = leave[r]
  BY <1>2 DEF CommitCreate, IInv, TypeOK
<1>3. ASSUME NEW s \in Sessions, CommitDelete(s)
      PROVE  leave'[r] = leave[r]
  BY <1>3 DEF CommitDelete, IInv, TypeOK
<1>4. ASSUME NEW s \in Sessions, Handler(s) \/ Abort(s)
      PROVE  leave'[r] = leave[r]
  BY <1>4 DEF Handler, Abort, Create, PartnerDecide, FinalDecide, Withdraw, Cancel, Delete, Stage
<1>5. CASE ByHand
  BY <1>5, ByHandLinks
<1>6. CASE UNCHANGED vars
  BY <1>6 DEF vars
<1> QED
  BY <1>1, <1>2, <1>3, <1>4, <1>5, <1>6 DEF Next

\* When handlers take turns, a decision is never revived or taken back, except that
\* an approved leave can be cancelled.
THEOREM DecisionsStand ==
  ASSUME OneSession
  PROVE  Spec => DecidedStays
<1> DEFINE Stays == \A r \in Requests : leave[r] # None /\ leave'[r] # None =>
              /\ leave[r].status \in {"declined", "cancelled"} => leave'[r].status = leave[r].status
              /\ leave[r].status = "approved" => leave'[r].status \in {"approved", "cancelled"}
<1>1. IInv /\ TurnInv /\ [Next]_vars => [Stays]_vars
  BY StepMoves DEF Moves
<1> QED
  BY <1>1, TurnInductive, PTL DEF Spec, DecidedStays

-----------------------------------------------------------------------------
(* Nobody edits the calendar by hand.                                        *)

NobodyByHand == Entries = {} /\ HandKinds = {}

\* A plan that approves leaves no date of the request unmarked.
Shown(p) ==
  p.op = "write" /\ p.tgt.status = "approved" =>
    \A c \in Period(leave[p.req]) : c \in p.fill \/ day[c] # None

ShownInv == \A s \in Sessions : session[s] # None => Shown(session[s])

LEMMA StageShown ==
  ASSUME OneSession, IInv, NEW s \in Sessions, NEW p, Shown(p),
         session' = [session EXCEPT ![s] = p], UNCHANGED <<leave, day>>
  PROVE  ShownInv'
<1> SUFFICES ASSUME NEW t \in Sessions PROVE Shown(session[t])'
  BY DEF ShownInv
<1>1. session'[t] = p
  BY DEF OneSession, IInv, TypeOK
<1> QED
  BY <1>1 DEF Shown, Period

\* Fill marks every date of the period that has no mark.
LEMMA WriteShown ==
  ASSUME OneSession, IInv, NEW s \in Sessions, NEW r \in Requests,
         NEW tgt, NEW fill, NEW clear,
         tgt.status = "approved" => \A c \in Period(leave[r]) : c \in fill \/ day[c] # None,
         Stage(s, "write", r, tgt, fill, clear)
  PROVE  ShownInv'
<1> DEFINE p == [op |-> "write", req |-> r, snap |-> leave[r], tgt |-> tgt,
                 fill |-> fill, clear |-> clear, found |-> Linked(r) # {}]
<1>1. Shown(p)
  BY DEF Shown
<1>2. session' = [session EXCEPT ![s] = p] /\ UNCHANGED <<leave, day>>
  BY DEF Stage
<1> HIDE DEF p
<1> QED
  BY <1>1, <1>2, StageShown

LEMMA HandlerShown ==
  ASSUME OneSession, IInv, NEW s \in Sessions, Handler(s)
  PROVE  ShownInv'
<1>1. CASE \E u \in Employees, p \in Partners, kind \in Kinds, from, to \in Dates :
             Create(s, u, p, kind, from, to)
  <2> PICK u \in Employees, p \in Partners, kind \in Kinds, from \in Dates, to \in Dates :
             Create(s, u, p, kind, from, to)
    BY <1>1
  <2> DEFINE l == [emp |-> u, partner |-> p, kind |-> kind, from |-> from, to |-> to,
                   status |-> "pending", decidedBy |-> None, final |-> FALSE, finalBy |-> None]
             plan == [op |-> "create", req |-> None, snap |-> l, tgt |-> l,
                      fill |-> {}, clear |-> FALSE, found |-> FALSE]
  <2>1. Shown(plan)
    BY DEF Shown
  <2>2. session' = [session EXCEPT ![s] = plan] /\ UNCHANGED <<leave, day, entry, gone>>
    BY DEF Create
  <2> HIDE DEF plan
  <2> QED
    BY <2>1, <2>2, StageShown
<1>2. ASSUME NEW r \in Requests, NEW approve \in BOOLEAN, PartnerDecide(s, r, approve)
      PROVE  ShownInv'
  <2> DEFINE l == [leave[r] EXCEPT !.decidedBy = leave[r].partner]
             final == [l EXCEPT !.status = "approved", !.final = TRUE, !.finalBy = l.partner]
             next == [l EXCEPT !.status = "pending_final"]
             declined == [l EXCEPT !.status = "declined"]
  <2>1. leave[r] \in Leave
    BY <1>2 DEF PartnerDecide, Loadable, IInv, TypeOK
  <2>2. /\ l.emp = leave[r].emp /\ l.from = leave[r].from /\ l.to = leave[r].to
        /\ declined.status = "declined" /\ next.status = "pending_final"
    BY <2>1 DEF Leave
  <2>3. \A c \in Period(leave[r]) : c \in Fill(l) \/ day[c] # None
    BY <2>2 DEF Fill, Period
  <2>4. \/ Stage(s, "write", r, declined, {}, FALSE)
        \/ Stage(s, "write", r, final, Fill(l), FALSE)
        \/ Stage(s, "write", r, next, {}, FALSE)
    BY <1>2 DEF PartnerDecide
  <2> HIDE DEF l, final, next, declined
  <2>5. CASE Stage(s, "write", r, declined, {}, FALSE)
    BY <2>2, <2>5, WriteShown
  <2>6. CASE Stage(s, "write", r, final, Fill(l), FALSE)
    BY <2>3, <2>6, WriteShown
  <2>7. CASE Stage(s, "write", r, next, {}, FALSE)
    BY <2>2, <2>7, WriteShown
  <2> QED
    BY <2>4, <2>5, <2>6, <2>7
<1>3. ASSUME NEW r \in Requests, NEW by \in Managing \cup {None}, NEW approve \in BOOLEAN,
             FinalDecide(s, r, by, approve)
      PROVE  ShownInv'
  <2> DEFINE l == leave[r]
             tgt == [l EXCEPT !.status = IF approve THEN "approved" ELSE "declined",
                              !.final = TRUE, !.finalBy = by]
             fill == IF approve THEN Fill(l) ELSE {}
  <2>1. l \in Leave
    BY <1>3 DEF FinalDecide, Loadable, IInv, TypeOK
  <2>2. tgt.status = "approved" => \A c \in Period(leave[r]) : c \in fill \/ day[c] # None
    BY <2>1 DEF Leave, Fill
  <2>3. Stage(s, "write", r, tgt, fill, FALSE)
    BY <1>3 DEF FinalDecide
  <2> HIDE DEF tgt, fill, l
  <2> QED
    BY <2>2, <2>3, WriteShown
<1>4. ASSUME NEW r \in Requests, NEW clear, leave[r] # None,
             Stage(s, "write", r,
                   [leave[r] EXCEPT !.status = "cancelled", !.decidedBy = leave[r].emp],
                   {}, clear)
      PROVE  ShownInv'
  <2> DEFINE tgt == [leave[r] EXCEPT !.status = "cancelled", !.decidedBy = leave[r].emp]
  <2>1. tgt.status = "cancelled"
    BY <1>4 DEF IInv, TypeOK, Leave
  <2> HIDE DEF tgt
  <2>2. Stage(s, "write", r, tgt, {}, clear)
    BY <1>4 DEF tgt
  <2> QED
    BY <2>1, <2>2, WriteShown
<1>5. ASSUME NEW r \in Requests, NEW u \in Users, Delete(s, u, r)
      PROVE  ShownInv'
  <2> DEFINE p == [op |-> "delete", req |-> r, snap |-> leave[r], tgt |-> leave[r],
                   fill |-> {}, clear |-> TRUE, found |-> Linked(r) # {}]
  <2>1. session' = [session EXCEPT ![s] = p] /\ UNCHANGED <<leave, day>>
    BY <1>5 DEF Delete, Stage
  <2>2. Shown(p)
    BY DEF Shown
  <2> HIDE DEF p
  <2> QED
    BY <2>1, <2>2, StageShown
<1>6. ASSUME NEW r \in Requests, Withdraw(s, r) \/ Cancel(s, r)
      PROVE  ShownInv'
  <2>1. CASE Withdraw(s, r)
    BY <1>4, <2>1 DEF Withdraw, Loadable
  <2>2. CASE Cancel(s, r)
    BY <1>4, <2>2 DEF Cancel, Loadable
  <2> QED
    BY <1>6, <2>1, <2>2
<1> QED
  BY <1>1, <1>2, <1>3, <1>5, <1>6 DEF Handler

LEMMA NextShown ==
  ASSUME OneSession, NobodyByHand, IInv, ShownInv, [Next]_vars
  PROVE  ShownInv'
<1>1. ASSUME NEW s \in Sessions,
             CommitCreate(s) \/ CommitWrite(s) \/ CommitDelete(s) \/ Abort(s)
      PROVE  ShownInv'
  <2>1. session' = [session EXCEPT ![s] = None]
    BY <1>1 DEF CommitCreate, CommitWrite, CommitDelete, Abort
  <2>2. \A t \in Sessions : session'[t] = None
    BY <2>1, NobodyPlans
  <2> QED
    BY <2>2 DEF ShownInv
<1>2. ~ByHand
  BY DEF NobodyByHand, ByHand
<1>3. CASE UNCHANGED vars
  BY <1>3 DEF vars, ShownInv, Shown, Period
<1> QED
  BY <1>1, <1>2, <1>3, HandlerShown DEF Next

\* When handlers take turns and nobody edits the calendar by hand, the step that
\* approves a request leaves none of its dates unmarked.
THEOREM ApprovalIsShown ==
  ASSUME OneSession, NobodyByHand
  PROVE  Spec => ApprovalFillsPeriod
<1> DEFINE Fills ==
        \A r \in Requests :
          (leave[r] # None /\ leave'[r] # None
             /\ leave[r].status # "approved" /\ leave'[r].status = "approved")
            => \A c \in Period(leave[r]) : day'[c] # None
<1>1. Init => ShownInv
  BY DEF Init, ShownInv
<1>2. IInv /\ ShownInv /\ [Next]_vars => ShownInv'
  BY NextShown
<1>3. ASSUME IInv, TurnInv, ShownInv, [Next]_vars
      PROVE  Fills
  <2> SUFFICES ASSUME NEW r \in Requests, leave[r] # None, leave'[r] # None,
                      leave[r].status # "approved", leave'[r].status = "approved",
                      NEW c \in Period(leave[r])
               PROVE  day'[c] # None
    OBVIOUS
  <2>1. PICK s \in Sessions : CommitWrite(s) /\ session[s].req = r
    BY <1>3, StepMoves
  <2> DEFINE p == session[s]
             m == Merge(leave[r], p)
  <2>2. /\ p # None /\ p \in Plan /\ p.op = "write" /\ InTurn(p)
        /\ leave[r] \in Leave /\ p.snap = leave[r] /\ leave'[r] = m
    BY <1>3, <2>1, WriteCommitFacts
  <2>3. m.status = p.tgt.status
    BY <2>2, MergeInTurn
  <2> HIDE DEF m
  <2>4. p.tgt.status = "approved" /\ p.snap.status # "approved"
    BY <2>2, <2>3
  <2>5. c \in p.fill \/ day[c] # None
    BY <1>3, <2>1, <2>2, <2>4 DEF ShownInv, Shown
  <2>6. c \in Cells
    BY <2>2, FillCells
  <2> PICK early \in BOOLEAN :
         day' = [k \in Cells |->
           IF k \in Cleared(p, early) THEN None
           ELSE IF k \in p.fill THEN [kind |-> p.tgt.kind, req |-> p.req, entry |-> None]
           ELSE day[k]]
    BY <2>1 DEF CommitWrite
  <2>7. c \notin Cleared(p, early)
    <3>1. c \in Cleared(p, early) => c \in Linked(r)
      BY <2>1 DEF Cleared
    <3>2. c \in Linked(r) => leave[r].status = "approved"
      BY <1>3, LeaveAssumption DEF TurnInv, MarksOnlyWhileApproved, Linked
    <3> QED
      BY <3>1, <3>2
  <2>8. [kind |-> p.tgt.kind, req |-> p.req, entry |-> None] # None
    <3>1. p.tgt.kind \in AllKinds /\ p.req \in Requests \cup {None}
      BY <2>2 DEF Plan, Leave
    <3>2. [kind |-> p.tgt.kind, req |-> p.req, entry |-> None] \in Mark
      BY <3>1 DEF Mark
    <3> QED
      BY <3>2, NoneAssumption
  <2> QED
    BY <2>5, <2>6, <2>7, <2>8
<1>4. IInv /\ TurnInv /\ ShownInv /\ [Next]_vars => [Fills]_vars
  BY <1>3
<1> QED
  BY <1>1, <1>2, <1>4, TurnInductive, PTL DEF Spec, ApprovalFillsPeriod

-----------------------------------------------------------------------------
(* Sums over finite sets, by minimal counterexample.                         *)

\* g adds up the values of f over every subset of S, the way MapThenSumSet does.
IsFold(g, f, S) ==
  g = [s \in SUBSET S |->
         IF s = {} THEN 0
         ELSE LET x == CHOOSE x \in s : TRUE IN f[x] + g[s \ {x}]]

\* The sum of the values of f over S.
Sum(f, S) == (CHOOSE g : IsFold(g, f, S))[S]

\* Induction over the subsets of a finite set: a set of them that holds a subset as
\* soon as it holds all smaller ones holds them all.
LEMMA SubsetInduction ==
  ASSUME NEW S, IsFiniteSet(S), NEW Good,
         \A T \in SUBSET S :
           (\A U \in SUBSET T : U # T => U \in Good) => T \in Good
  PROVE  \A T \in SUBSET S : T \in Good
<1> DEFINE Bad == {T \in SUBSET S : T \notin Good}
<1>1. Bad \subseteq FiniteSubsetsOf(S)
  BY FS_Subset DEF FiniteSubsetsOf
<1> SUFFICES ASSUME Bad # {} PROVE FALSE
  OBVIOUS
<1>2. PICK T \in Bad : \A U \in Bad : ~(<<U, T>> \in StrictSubsetOrdering(S))
  <2> HIDE DEF Bad
  <2> QED
    BY <1>1, FS_StrictSubsetOrderingWellFounded, WFMin
<1>3. \A U \in SUBSET T : U # T => U \in Good
  BY <1>2 DEF StrictSubsetOrdering
<1> QED
  BY <1>2, <1>3

LEMMA FoldEquation ==
  ASSUME NEW S, NEW f, NEW g, IsFold(g, f, S)
  PROVE  /\ g[{}] = 0
         /\ \A s \in SUBSET S : s # {} =>
              g[s] = f[CHOOSE x \in s : TRUE] + g[s \ {CHOOSE x \in s : TRUE}]
BY DEF IsFold

LEMMA FoldUnique ==
  ASSUME NEW S, IsFiniteSet(S), NEW T, S \subseteq T, NEW f, NEW g, NEW h,
         IsFold(g, f, S), IsFold(h, f, T)
  PROVE  \A s \in SUBSET S : g[s] = h[s]
<1> DEFINE Good == {s \in SUBSET S : g[s] = h[s]}
<1>1. ASSUME NEW s \in SUBSET S, \A U \in SUBSET s : U # s => U \in Good
      PROVE  s \in Good
  <2> DEFINE x == CHOOSE x \in s : TRUE
  <2>1. CASE s = {}
    BY <2>1 DEF IsFold
  <2>2. CASE s # {}
    <3>1. x \in s
      BY <2>2
    <3> HIDE DEF x
    <3>2. g[s \ {x}] = h[s \ {x}]
      BY <1>1, <3>1
    <3>3. g[s] = f[x] + g[s \ {x}] /\ h[s] = f[x] + h[s \ {x}]
      BY <2>2 DEF IsFold, x
    <3> QED
      BY <3>2, <3>3
  <2> QED
    BY <2>1, <2>2
<1> HIDE DEF Good
<1>2. \A s \in SUBSET S : s \in Good
  BY <1>1, SubsetInduction
<1> QED
  BY <1>2 DEF Good

LEMMA FoldExists ==
  ASSUME NEW S, IsFiniteSet(S), NEW f
  PROVE  \E g : IsFold(g, f, S)
<1> DEFINE Good == {T \in SUBSET S : \E g : IsFold(g, f, T)}
<1>1. ASSUME NEW T \in SUBSET S, \A U \in SUBSET T : U # T => U \in Good
      PROVE  T \in Good
  <2> DEFINE H(U) == CHOOSE h : IsFold(h, f, U)
             c(s) == CHOOSE x \in s : TRUE
             g == [s \in SUBSET T |-> IF s = {} THEN 0 ELSE f[c(s)] + H(s \ {c(s)})[s \ {c(s)}]]
  <2>1. \A U \in SUBSET T : U # T => IsFold(H(U), f, U) /\ IsFiniteSet(U)
    BY <1>1, FS_Subset
  <2>2. \A s \in SUBSET T : s # {} => c(s) \in s
    OBVIOUS
  <2>3. \A U \in SUBSET T : U # {} /\ U # T =>
          H(U)[U] = f[c(U)] + H(U)[U \ {c(U)}]
    <3> HIDE DEF H
    <3> QED
      BY <2>1, FoldEquation
  <2>4. H({})[{}] = 0
    <3>1. CASE T = {}
      <4> DEFINE z == [s \in SUBSET {} |-> 0]
      <4>1. IsFold(z, f, {})
        BY DEF IsFold
      <4>2. IsFold(H({}), f, {})
        BY <4>1
      <4> QED
        BY <4>2 DEF IsFold
    <3>2. CASE T # {}
      <4>1. IsFold(H({}), f, {})
        BY <2>1, <3>2
      <4> QED
        BY <4>1 DEF IsFold
    <3> QED
      BY <3>1, <3>2
  <2> HIDE DEF H, c
  <2>5. ASSUME NEW U \in SUBSET T, U # T
        PROVE  g[U] = H(U)[U]
    <3>1. CASE U = {}
      BY <2>4, <3>1
    <3>2. CASE U # {}
      <4> DEFINE V == U \ {c(U)}
      <4>1. V \in SUBSET U /\ V # T /\ V \in SUBSET T
        BY <2>2, <3>2, <2>5
      <4>2. H(U)[V] = H(V)[V]
        BY <2>1, <2>5, <4>1, FoldUnique
      <4> QED
        BY <2>3, <2>5, <3>2, <4>2
    <3> QED
      BY <3>1, <3>2
  <2>6. \A s \in SUBSET T : s # {} => s \ {c(s)} \in SUBSET T /\ s \ {c(s)} # T
    BY <2>2
  <2>7. \A s \in SUBSET T : s # {} => H(s \ {c(s)})[s \ {c(s)}] = g[s \ {c(s)}]
    BY <2>5, <2>6
  <2>8. g = [s \in SUBSET T |-> IF s = {} THEN 0 ELSE f[c(s)] + g[s \ {c(s)}]]
    BY <2>7
  <2> HIDE DEF g
  <2>9. IsFold(g, f, T)
    BY <2>8 DEF IsFold, c
  <2> QED
    BY <2>9
<1> HIDE DEF Good
<1>2. \A s \in SUBSET S : s \in Good
  BY <1>1, SubsetInduction
<1> QED
  BY <1>2 DEF Good

LEMMA SumIsFold ==
  ASSUME NEW S, IsFiniteSet(S), NEW f, NEW g, IsFold(g, f, S)
  PROVE  \A s \in SUBSET S : g[s] = Sum(f, s)
<1> SUFFICES ASSUME NEW s \in SUBSET S PROVE g[s] = Sum(f, s)
  OBVIOUS
<1> DEFINE h == CHOOSE h : IsFold(h, f, s)
<1>1. IsFiniteSet(s)
  BY FS_Subset
<1>2. IsFold(h, f, s)
  BY <1>1, FoldExists
<1> HIDE DEF h
<1>3. h[s] = g[s]
  BY <1>1, <1>2, FoldUnique
<1> QED
  BY <1>3 DEF Sum, h

LEMMA SumEmpty ==
  ASSUME NEW f
  PROVE  Sum(f, {}) = 0
<1>1. IsFiniteSet({})
  BY FS_EmptySet
<1>2. PICK g : IsFold(g, f, {})
  BY <1>1, FoldExists
<1>3. g[{}] = Sum(f, {})
  BY <1>1, <1>2, SumIsFold
<1> QED
  BY <1>2, <1>3, FoldEquation

LEMMA SumChosen ==
  ASSUME NEW S, IsFiniteSet(S), S # {}, NEW f
  PROVE  LET x == CHOOSE x \in S : TRUE IN Sum(f, S) = f[x] + Sum(f, S \ {x})
<1> DEFINE x == CHOOSE x \in S : TRUE
<1>1. PICK g : IsFold(g, f, S)
  BY FoldExists
<1>2. g[S] = f[x] + g[S \ {x}]
  <2>1. \A s \in SUBSET S : s # {} =>
          g[s] = f[CHOOSE z \in s : TRUE] + g[s \ {CHOOSE z \in s : TRUE}]
    BY <1>1, FoldEquation
  <2> QED
    BY <2>1
<1> HIDE DEF x
<1>3. g[S] = Sum(f, S) /\ g[S \ {x}] = Sum(f, S \ {x})
  BY <1>1, SumIsFold
<1> QED
  BY <1>2, <1>3 DEF x

\* A sum of integers is one, and a sum of natural numbers is one.
LEMMA SumType ==
  ASSUME NEW S, IsFiniteSet(S), NEW f, NEW D \in {Int, Nat}, \A x \in S : f[x] \in D
  PROVE  Sum(f, S) \in D
<1> DEFINE Good == {T \in SUBSET S : Sum(f, T) \in D}
<1>1. ASSUME NEW T \in SUBSET S, \A U \in SUBSET T : U # T => U \in Good
      PROVE  T \in Good
  <2> DEFINE x == CHOOSE x \in T : TRUE
  <2>1. CASE T = {}
    <3>1. Sum(f, T) = 0
      BY <2>1, SumEmpty
    <3> QED
      BY <3>1
  <2>2. CASE T # {}
    <3>1. x \in T
      BY <2>2
    <3>2. IsFiniteSet(T)
      BY FS_Subset
    <3>3. Sum(f, T) = f[x] + Sum(f, T \ {x})
      BY <2>2, <3>2, SumChosen
    <3> HIDE DEF x
    <3>4. Sum(f, T \ {x}) \in D /\ f[x] \in D
      BY <1>1, <3>1
    <3>5. CASE D = Int
      BY <3>3, <3>4, <3>5
    <3>6. CASE D = Nat
      BY <3>3, <3>4, <3>6
    <3> QED
      BY <3>5, <3>6
  <2> QED
    BY <2>1, <2>2
<1> HIDE DEF Good
<1>2. \A T \in SUBSET S : T \in Good
  BY <1>1, SubsetInduction
<1> QED
  BY <1>2 DEF Good

\* Any member can be taken out first.
LEMMA SumWithout ==
  ASSUME NEW S, IsFiniteSet(S), NEW f, \A x \in S : f[x] \in Int, NEW y \in S
  PROVE  Sum(f, S) = f[y] + Sum(f, S \ {y})
<1> DEFINE Good == {T \in SUBSET S : \A z \in T : Sum(f, T) = f[z] + Sum(f, T \ {z})}
<1>0. \A T \in SUBSET S : IsFiniteSet(T) /\ Sum(f, T) \in Int
  <2> SUFFICES ASSUME NEW T \in SUBSET S PROVE IsFiniteSet(T) /\ Sum(f, T) \in Int
    OBVIOUS
  <2>1. IsFiniteSet(T)
    BY FS_Subset
  <2>2. Int \in {Int, Nat} /\ \A x \in T : f[x] \in Int
    OBVIOUS
  <2> QED
    BY <2>1, <2>2, SumType
<1>1. ASSUME NEW T \in SUBSET S, \A U \in SUBSET T : U # T => U \in Good
      PROVE  T \in Good
  <2> SUFFICES ASSUME NEW z \in T PROVE Sum(f, T) = f[z] + Sum(f, T \ {z})
    OBVIOUS
  <2> DEFINE x == CHOOSE x \in T : TRUE
             T1 == T \ {x}
             T2 == T \ {z}
             T3 == T1 \ {z}
  <2>1. x \in T
    OBVIOUS
  <2>2. Sum(f, T) = f[x] + Sum(f, T1)
    BY <1>0, SumChosen
  <2> HIDE DEF x
  <2>3. CASE x = z
    BY <2>2, <2>3
  <2>4. CASE x # z
    <3>1. T1 \in Good /\ T2 \in Good /\ z \in T1 /\ x \in T2 /\ T3 = T2 \ {x}
      BY <1>1, <2>1, <2>4
    <3>2. Sum(f, T1) = f[z] + Sum(f, T3) /\ Sum(f, T2) = f[x] + Sum(f, T3)
      BY <3>1
    <3>3. Sum(f, T3) \in Int /\ f[x] \in Int /\ f[z] \in Int
      BY <1>0, <2>1
    <3> QED
      BY <2>2, <3>2, <3>3
  <2> QED
    BY <2>3, <2>4
<1> HIDE DEF Good
<1>2. \A T \in SUBSET S : T \in Good
  BY <1>1, SubsetInduction
<1> QED
  BY <1>2 DEF Good

\* Only the values on the set matter.
LEMMA SumSame ==
  ASSUME NEW S, IsFiniteSet(S), NEW f, NEW g, \A x \in S : f[x] = g[x]
  PROVE  Sum(f, S) = Sum(g, S)
<1> DEFINE Good == {T \in SUBSET S : Sum(f, T) = Sum(g, T)}
<1>1. ASSUME NEW T \in SUBSET S, \A U \in SUBSET T : U # T => U \in Good
      PROVE  T \in Good
  <2> DEFINE x == CHOOSE x \in T : TRUE
  <2>1. CASE T = {}
    BY <2>1, SumEmpty
  <2>2. CASE T # {}
    <3>1. x \in T
      BY <2>2
    <3>2. IsFiniteSet(T)
      BY FS_Subset
    <3>3. Sum(f, T) = f[x] + Sum(f, T \ {x}) /\ Sum(g, T) = g[x] + Sum(g, T \ {x})
      BY <2>2, <3>2, SumChosen
    <3> HIDE DEF x
    <3>4. Sum(f, T \ {x}) = Sum(g, T \ {x}) /\ f[x] = g[x]
      BY <1>1, <3>1
    <3> QED
      BY <3>3, <3>4
  <2> QED
    BY <2>1, <2>2
<1> HIDE DEF Good
<1>2. \A T \in SUBSET S : T \in Good
  BY <1>1, SubsetInduction
<1> QED
  BY <1>2 DEF Good

\* The sum over two disjoint sets.
LEMMA SumUnion ==
  ASSUME NEW A, NEW B, IsFiniteSet(A \cup B), A \cap B = {}, NEW f,
         \A x \in A \cup B : f[x] \in Int
  PROVE  Sum(f, A \cup B) = Sum(f, A) + Sum(f, B)
<1> DEFINE Good == {T \in SUBSET A : Sum(f, T \cup B) = Sum(f, T) + Sum(f, B)}
<1>0. \A T \in SUBSET (A \cup B) : IsFiniteSet(T) /\ Sum(f, T) \in Int
  <2> SUFFICES ASSUME NEW T \in SUBSET (A \cup B) PROVE IsFiniteSet(T) /\ Sum(f, T) \in Int
    OBVIOUS
  <2>1. IsFiniteSet(T)
    BY FS_Subset
  <2>2. Int \in {Int, Nat} /\ \A x \in T : f[x] \in Int
    OBVIOUS
  <2> QED
    BY <2>1, <2>2, SumType
<1>1. ASSUME NEW T \in SUBSET A, \A U \in SUBSET T : U # T => U \in Good
      PROVE  T \in Good
  <2>1. CASE T = {}
    <3>1. Sum(f, T) = 0 /\ T \cup B = B
      BY <2>1, SumEmpty
    <3>2. Sum(f, B) \in Int
      BY <1>0
    <3>3. Sum(f, T \cup B) = Sum(f, B)
      BY <3>1
    <3>4. Sum(f, B) = Sum(f, T) + Sum(f, B)
      BY <3>1, <3>2
    <3> QED
      BY <3>3, <3>4
  <2>2. CASE T # {}
    <3> PICK x \in T : TRUE
      BY <2>2
    <3> DEFINE U == T \ {x}
               V == T \cup B
    <3>1. U \in Good /\ V \ {x} = U \cup B /\ x \in V
      BY <1>1
    <3>2. /\ T \in SUBSET (A \cup B) /\ V \in SUBSET (A \cup B) /\ U \in SUBSET (A \cup B)
          /\ B \in SUBSET (A \cup B) /\ x \in A \cup B
      OBVIOUS
    <3>3. /\ IsFiniteSet(T) /\ IsFiniteSet(V)
          /\ Sum(f, U) \in Int /\ Sum(f, B) \in Int /\ f[x] \in Int
      BY <1>0, <3>2
    <3> HIDE DEF V
    <3>4. Sum(f, V) = f[x] + Sum(f, V \ {x})
      BY <3>1, <3>2, <3>3, SumWithout
    <3>5. Sum(f, T) = f[x] + Sum(f, U)
      BY <3>3, SumWithout
    <3>6. Sum(f, U \cup B) = Sum(f, U) + Sum(f, B)
      BY <3>1
    <3>7. Sum(f, V) = f[x] + Sum(f, U \cup B)
      BY <3>1, <3>4
    <3> HIDE DEF U
    <3>8. Sum(f, V) = Sum(f, T) + Sum(f, B)
      BY <3>3, <3>5, <3>6, <3>7
    <3> QED
      BY <3>8 DEF V
  <2> QED
    BY <2>1, <2>2
<1> HIDE DEF Good
<1>2. IsFiniteSet(A)
  BY FS_Subset
<1>3. \A T \in SUBSET A : T \in Good
  BY <1>1, <1>2, SubsetInduction
<1> QED
  BY <1>3 DEF Good

\* A part of natural numbers sums to no more than the whole.
LEMMA SumPart ==
  ASSUME NEW A, NEW B, IsFiniteSet(B), A \subseteq B, NEW f, \A x \in B : f[x] \in Nat
  PROVE  Sum(f, A) \in Nat /\ Sum(f, B) \in Nat /\ Sum(f, A) <= Sum(f, B)
<1> DEFINE C == B \ A
<1>1. A \cup C = B /\ A \cap C = {} /\ \A x \in B : f[x] \in Int
  OBVIOUS
<1>2. IsFiniteSet(A) /\ IsFiniteSet(C)
  BY FS_Subset
<1>3. Nat \in {Int, Nat} /\ (\A x \in A : f[x] \in Nat) /\ (\A x \in C : f[x] \in Nat)
  OBVIOUS
<1> HIDE DEF C
<1>4. Sum(f, A) \in Nat /\ Sum(f, B) \in Nat /\ Sum(f, C) \in Nat
  BY <1>2, <1>3, SumType
<1>5. Sum(f, B) = Sum(f, A) + Sum(f, C)
  BY <1>1, SumUnion
<1> QED
  BY <1>4, <1>5

-----------------------------------------------------------------------------
(* Days of leave in a year.                                                  *)

LEMMA MaxMin ==
  ASSUME NEW a \in Int, NEW b \in Int
  PROVE  /\ Max({a, b}) = IF a < b THEN b ELSE a
         /\ Min({a, b}) = IF a < b THEN a ELSE b
<1>1. \A x \in {a, b} : (\A y \in {a, b} : x >= y) => x = IF a < b THEN b ELSE a
  OBVIOUS
<1>2. \A x \in {a, b} : (\A y \in {a, b} : x <= y) => x = IF a < b THEN a ELSE b
  OBVIOUS
<1>3. /\ \E x \in {a, b} : \A y \in {a, b} : x >= y
      /\ \E x \in {a, b} : \A y \in {a, b} : x <= y
  OBVIOUS
<1>4. /\ Max({a, b}) \in {a, b} /\ \A y \in {a, b} : Max({a, b}) >= y
  BY <1>3 DEF Max
<1>5. /\ Min({a, b}) \in {a, b} /\ \A y \in {a, b} : Min({a, b}) <= y
  BY <1>3 DEF Min
<1> QED
  BY <1>1, <1>2, <1>4, <1>5

LEMMA DaysInYearIs ==
  ASSUME NEW from \in Int, NEW to \in Int, NEW y \in Int
  PROVE  LET start == IF from < y * YearLength + 1 THEN y * YearLength + 1 ELSE from
             end == IF to < (y + 1) * YearLength THEN to ELSE (y + 1) * YearLength
         IN  DaysInYear(from, to, y) = AtLeast0(end - start + 1)
<1>1. y * YearLength + 1 \in Int /\ (y + 1) * YearLength \in Int
  BY CalendarAssumption
<1> QED
  BY <1>1, MaxMin DEF DaysInYear

LEMMA DaysInYearNat ==
  ASSUME NEW from \in Int, NEW to \in Int, NEW y \in Int
  PROVE  /\ DaysInYear(from, to, y) \in Nat
         /\ from <= to => DaysInYear(from, to, y) <= DaysCount(from, to)
<1> DEFINE first == y * YearLength + 1
           last == (y + 1) * YearLength
<1>1. first \in Int /\ last \in Int
  BY CalendarAssumption
<1>2. DaysInYear(from, to, y) =
        AtLeast0((IF to < last THEN to ELSE last) - (IF from < first THEN first ELSE from) + 1)
  BY DaysInYearIs
<1> HIDE DEF first, last
<1> QED
  BY <1>1, <1>2 DEF AtLeast0, DaysCount

\* A period has no days outside the years it touches.
LEMMA DaysOutside ==
  ASSUME NEW from \in Dates, NEW to \in Dates, from <= to, NEW y \in Int,
         y \notin YearsOf(from, to)
  PROVE  DaysInYear(from, to, y) = 0
<1> DEFINE first == y * YearLength + 1
           last == (y + 1) * YearLength
           a == (from - 1) \div YearLength
           b == (to - 1) \div YearLength
<1>0. from \in Nat \ {0} /\ to \in Nat \ {0} /\ YearLength \in Nat \ {0}
  BY CalendarAssumption DEF Dates
<1>1. first \in Int /\ last \in Int
  BY <1>0
<1>2. /\ a \in Nat /\ a * YearLength <= from - 1
      /\ b \in Nat /\ to - 1 < (b + 1) * YearLength
  BY <1>0
<1>3. a = YearOf(from) /\ b = YearOf(to)
  BY DEF YearOf
<1> HIDE DEF a, b
<1>4. y < a \/ b < y
  BY <1>2, <1>3 DEF YearsOf
<1>5. last < from \/ to < first
  <2>1. CASE y < a
    <3>1. y + 1 <= a
      BY <1>2, <2>1
    <3>2. (y + 1) * YearLength <= a * YearLength
      BY <1>0, <1>2, <3>1
    <3> HIDE DEF last
    <3>3. last <= a * YearLength /\ a * YearLength \in Int
      BY <1>0, <1>2, <3>2 DEF last
    <3> QED
      BY <1>0, <1>1, <1>2, <3>3
  <2>2. CASE b < y
    <3>1. b + 1 <= y
      BY <1>2, <2>2
    <3>2. (b + 1) * YearLength <= y * YearLength
      BY <1>0, <1>2, <3>1
    <3>3. (b + 1) * YearLength \in Int /\ y * YearLength \in Int
      BY <1>0, <1>2
    <3> QED
      BY <1>0, <1>2, <3>2, <3>3
  <2> QED
    BY <1>4, <2>1, <2>2
<1>6. DaysInYear(from, to, y) =
        AtLeast0((IF to < last THEN to ELSE last) - (IF from < first THEN first ELSE from) + 1)
  BY <1>0, DaysInYearIs
<1> HIDE DEF first, last
<1> QED
  BY <1>0, <1>1, <1>5, <1>6 DEF AtLeast0

DaysOf(table, y) == [r \in Requests |-> DaysInYear(table[r].from, table[r].to, y)]

\* The days of a set of requests are a sum.
LEMMA SumDaysIsSum ==
  ASSUME NEW table, NEW R \in SUBSET Requests, IsFiniteSet(R), NEW y
  PROVE  SumDays(table, R, y) = Sum(DaysOf(table, y), R)
<1> DEFINE f == DaysOf(table, y)
           Adds(g) == g = [s \in SUBSET R |->
                             IF s = {} THEN 0
                             ELSE LET x == CHOOSE x \in s : TRUE
                                  IN  DaysInYear(table[x].from, table[x].to, y) + g[s \ {x}]]
           h == CHOOSE g : Adds(g)
<1>1. \A s \in SUBSET R : s # {} =>
        LET x == CHOOSE x \in s : TRUE IN f[x] = DaysInYear(table[x].from, table[x].to, y)
  BY DEF DaysOf
<1>2. \A g : Adds(g) <=> IsFold(g, f, R)
  <2> TAKE g
  <2> HIDE DEF f
  <2> QED
    BY <1>1 DEF IsFold
<1>3. \E g : Adds(g)
  <2> HIDE DEF f, Adds
  <2> QED
    BY <1>2, FoldExists
<1>4. Adds(h)
  BY <1>3
<1>5. SumDays(table, R, y) = h[R]
  BY DEF SumDays, MapThenSumSet, MapThenFoldSet
<1> HIDE DEF f, h, Adds
<1> QED
  BY <1>2, <1>4, <1>5, SumIsFold DEF f

LEMMA DaysOfNat ==
  ASSUME NEW table, NEW r \in Requests, NEW y \in Int,
         table[r].from \in Dates, table[r].to \in Dates
  PROVE  /\ DaysOf(table, y)[r] = DaysInYear(table[r].from, table[r].to, y)
         /\ DaysOf(table, y)[r] \in Nat
<1>1. table[r].from \in Int /\ table[r].to \in Int
  BY CalendarAssumption DEF Dates
<1>2. DaysInYear(table[r].from, table[r].to, y) \in Nat
  BY <1>1, DaysInYearNat
<1>3. DaysOf(table, y)[r] = DaysInYear(table[r].from, table[r].to, y)
  BY DEF DaysOf
<1> QED
  BY <1>2, <1>3

\* Requests with dates have a number of days.
LEMMA SumDaysNat ==
  ASSUME NEW table, NEW R \in SUBSET Requests, IsFiniteSet(R),
         \A r \in R : table[r].from \in Dates /\ table[r].to \in Dates, NEW y \in Int
  PROVE  SumDays(table, R, y) \in Nat
<1> DEFINE f == DaysOf(table, y)
<1>1. \A r \in R : f[r] \in Nat
  BY DaysOfNat
<1> HIDE DEF f
<1>2. Sum(f, R) \in Nat
  BY <1>1, SumPart
<1> QED
  BY <1>2, SumDaysIsSum DEF f

\* Fewer requests over the same dates have no more days.
LEMMA SumDaysPart ==
  ASSUME NEW new, NEW old, NEW A \in SUBSET Requests, NEW B \in SUBSET Requests,
         A \subseteq B, IsFiniteSet(B), NEW y \in Int,
         \A r \in B : old[r].from \in Dates /\ old[r].to \in Dates,
         \A r \in A : new[r].from = old[r].from /\ new[r].to = old[r].to
  PROVE  SumDays(new, A, y) <= SumDays(old, B, y)
<1> DEFINE f == DaysOf(old, y)
           g == DaysOf(new, y)
<1>1. \A r \in B : f[r] \in Nat
  BY DaysOfNat
<1>2. \A r \in A : g[r] = f[r]
  BY DEF DaysOf
<1>3. IsFiniteSet(A)
  BY FS_Subset
<1>4. SumDays(new, A, y) = Sum(g, A) /\ SumDays(old, B, y) = Sum(f, B)
  BY <1>3, SumDaysIsSum
<1> HIDE DEF f, g
<1>5. Sum(g, A) = Sum(f, A)
  BY <1>2, <1>3, SumSame
<1>6. Sum(f, A) <= Sum(f, B)
  BY <1>1, SumPart
<1> QED
  BY <1>4, <1>5, <1>6

\* One more request adds its own days.
LEMMA SumDaysOneMore ==
  ASSUME NEW new, NEW old, NEW A \in SUBSET Requests, IsFiniteSet(A),
         NEW q \in Requests, q \notin A, NEW S, S = A \cup {q}, NEW y \in Int,
         \A r \in A : old[r].from \in Dates /\ old[r].to \in Dates /\ new[r] = old[r],
         new[q].from \in Dates, new[q].to \in Dates
  PROVE  SumDays(new, S, y) = SumDays(old, A, y) + DaysInYear(new[q].from, new[q].to, y)
<1> DEFINE f == DaysOf(old, y)
           g == DaysOf(new, y)
<1>1. /\ \A r \in S : g[r] \in Nat
      /\ \A r \in A : g[r] = f[r]
      /\ g[q] = DaysInYear(new[q].from, new[q].to, y)
  <2>1. \A r \in S : r \in Requests /\ new[r].from \in Dates /\ new[r].to \in Dates
    OBVIOUS
  <2>2. \A r \in S : g[r] \in Nat /\ g[r] = DaysInYear(new[r].from, new[r].to, y)
    BY <2>1, DaysOfNat
  <2>3. \A r \in A : g[r] = f[r]
    BY DEF DaysOf
  <2> QED
    BY <2>2, <2>3
<1>2. IsFiniteSet(S) /\ S \in SUBSET Requests /\ q \in S /\ S \ {q} = A
  BY FS_AddElement
<1>3. SumDays(new, S, y) = Sum(g, S) /\ SumDays(old, A, y) = Sum(f, A)
  BY <1>2, SumDaysIsSum
<1> HIDE DEF f, g
<1>4. Sum(g, S) = g[q] + Sum(g, A)
  <2>1. \A r \in S : g[r] \in Int
    BY <1>1
  <2>2. Sum(g, S) = g[q] + Sum(g, S \ {q})
    BY <1>2, <2>1, SumWithout
  <2> QED
    BY <1>2, <2>2
<1>5. Sum(g, A) = Sum(f, A)
  BY <1>1, SumSame
<1>6. Sum(g, A) \in Nat /\ g[q] \in Nat
  <2>1. \A r \in A : g[r] \in Nat
    BY <1>1
  <2> QED
    BY <1>1, <1>2, <2>1, SumPart
<1>7. Sum(g, S) = Sum(f, A) + g[q]
  BY <1>4, <1>5, <1>6
<1> QED
  BY <1>1, <1>3, <1>7

Live == InProgress \cup {"approved"}

\* What a step in turn does to the table of requests: it creates one, or it keeps
\* the dates of those it keeps and brings none back.
RowsKept ==
  \A r \in Requests : leave'[r] # None =>
    /\ leave[r] # None
    /\ leave'[r].emp = leave[r].emp /\ leave'[r].kind = leave[r].kind
    /\ leave'[r].from = leave[r].from /\ leave'[r].to = leave[r].to
    /\ leave'[r].status \in Live => leave[r].status \in Live

LEMMA RowsStep ==
  ASSUME IInv, TurnInv, [Next]_vars
  PROVE  \/ \E s \in Sessions : CommitCreate(s)
         \/ RowsKept
<1>1. ASSUME NEW s \in Sessions, CommitWrite(s)
      PROVE  RowsKept
  <2> DEFINE p == session[s]
             m == Merge(leave[p.req], p)
  <2>1. /\ p \in Plan /\ InTurn(p) /\ p.op = "write" /\ leave[p.req] \in Leave
        /\ leave[p.req] # None
        /\ p.snap = leave[p.req] /\ leave'[p.req] = m
        /\ \A q \in Requests : q # p.req => leave'[q] = leave[q]
    BY <1>1, WriteCommitFacts
  <2>2. /\ m.status = p.tgt.status
        /\ m.emp = leave[p.req].emp /\ m.kind = leave[p.req].kind
        /\ m.from = leave[p.req].from /\ m.to = leave[p.req].to
    BY <2>1, MergeInTurn
  <2> HIDE DEF m
  <2>3. Moves(leave[p.req], p.tgt)
    BY <2>1 DEF InTurn
  <2>4. leave[p.req].status \in Live
    BY <2>3 DEF Moves, Live, InProgress
  <2> QED
    BY <2>1, <2>2, <2>4 DEF RowsKept
<1>2. ASSUME NEW s \in Sessions, CommitDelete(s)
      PROVE  RowsKept
  BY <1>2 DEF CommitDelete, IInv, TypeOK, RowsKept
<1>3. CASE leave' = leave
  BY <1>3 DEF RowsKept
<1>4. ASSUME NEW s \in Sessions, Handler(s) \/ Abort(s)
      PROVE  leave' = leave
  BY <1>4 DEF Handler, Abort, Create, PartnerDecide, FinalDecide, Withdraw, Cancel, Delete, Stage
<1>5. CASE ByHand
  BY <1>3, <1>5, ByHandLinks
<1>6. CASE UNCHANGED vars
  BY <1>3, <1>6 DEF vars
<1> QED
  BY <1>1, <1>2, <1>3, <1>4, <1>5, <1>6 DEF Next

-----------------------------------------------------------------------------
(* Nobody holds more annual leave than the entitlement.                      *)

\* A request that still fits beside those its employee holds.
Affordable(l) ==
  l.kind = "annual" => \A d \in Dates :
    SumDays(leave, Annual(leave, l.emp, Live), YearOf(d))
      + DaysInYear(l.from, l.to, YearOf(d)) <= Entitled

\* The invariant: there are finitely many rows, and a plan in turn is affordable.
BalanceInv ==
  /\ IsFiniteSet({r \in Requests : leave[r] # None})
  /\ WithinEntitlement
  /\ \A s \in Sessions : session[s] # None /\ session[s].op = "create"
       => Affordable(session[s].tgt)

LEMMA YearInt ==
  ASSUME NEW d \in Dates
  PROVE  YearOf(d) \in Int
BY CalendarAssumption DEF YearOf, Dates

LEMMA LiveRows ==
  ASSUME IInv, BalanceInv, NEW u, NEW statuses
  PROVE  LET R == Annual(leave, u, statuses) IN
         /\ R \in SUBSET Requests /\ IsFiniteSet(R)
         /\ \A r \in R : /\ leave[r] # None /\ leave[r] \in Leave
                         /\ leave[r].from \in Dates /\ leave[r].to \in Dates
<1> DEFINE R == Annual(leave, u, statuses)
<1>1. R \subseteq {r \in Requests : leave[r] # None}
  BY DEF Annual
<1>2. IsFiniteSet(R)
  <2> HIDE DEF R
  <2> QED
    BY <1>1, FS_Subset DEF BalanceInv
<1>3. \A r \in R : leave[r] # None /\ leave[r] \in Leave
  BY DEF Annual, IInv, TypeOK
<1> QED
  BY <1>1, <1>2, <1>3 DEF Leave

\* validate_annual_vacation_request lets through only what the employee can afford.
LEMMA AllowedIsAffordable ==
  ASSUME IInv, BalanceInv, NEW u \in Employees, NEW from \in Dates, NEW to \in Dates,
         from <= to, RequestAllowed(leave, day, u, from, to), NEW d \in Dates
  PROVE  SumDays(leave, Annual(leave, u, Live), YearOf(d)) + DaysInYear(from, to, YearOf(d))
           <= Entitled
<1> DEFINE y == YearOf(d)
           A == Annual(leave, u, {"approved"})
           P == Annual(leave, u, InProgress)
           W == Annual(leave, u, Live)
           new == DaysInYear(from, to, y)
           marks == ManualDays(day, u, y)
<1>0. y \in Int /\ Entitled \in Nat /\ from \in Int /\ to \in Int
  BY YearInt, CalendarAssumption DEF Dates
<1>1. new \in Nat
  BY <1>0, DaysInYearNat
<1>2. SumDays(leave, W, y) \in Nat /\ SumDays(leave, W, y) <= Entitled
  <2>1. SumDays(leave, W, y) \in Nat
    BY <1>0, LiveRows, SumDaysNat
  <2> QED
    BY <2>1 DEF BalanceInv, WithinEntitlement, Live
<1>3. CASE y \notin YearsOf(from, to)
  <2>1. new = 0
    BY <1>0, <1>3, DaysOutside
  <2> HIDE DEF y, W, new
  <2> QED
    BY <1>0, <1>2, <2>1 DEF y, W, new
<1>4. CASE y \in YearsOf(from, to)
  <2>1. new <= Remaining(leave, day, u, y)
    BY <1>4 DEF RequestAllowed
  <2>2. SumDays(leave, W, y) = SumDays(leave, A, y) + SumDays(leave, P, y)
    <3>1. W = A \cup P /\ A \cap P = {}
      BY DEF Annual, Live, InProgress
    <3>2. /\ IsFiniteSet(W) /\ IsFiniteSet(A) /\ IsFiniteSet(P)
          /\ W \in SUBSET Requests /\ A \in SUBSET Requests /\ P \in SUBSET Requests
          /\ \A r \in W : leave[r].from \in Dates /\ leave[r].to \in Dates
      BY LiveRows
    <3> DEFINE f == DaysOf(leave, y)
    <3>3. \A r \in W : f[r] \in Int
      BY <1>0, <3>2, DaysOfNat
    <3> HIDE DEF f, W, A, P
    <3>4. Sum(f, A \cup P) = Sum(f, A) + Sum(f, P)
      BY <3>1, <3>2, <3>3, SumUnion
    <3>5. /\ SumDays(leave, W, y) = Sum(f, W) /\ SumDays(leave, A, y) = Sum(f, A)
          /\ SumDays(leave, P, y) = Sum(f, P)
      BY <3>2, SumDaysIsSum DEF f
    <3> QED
      BY <3>1, <3>4, <3>5
  <2>3. SumDays(leave, A, y) \in Nat /\ SumDays(leave, P, y) \in Nat
    BY <1>0, LiveRows, SumDaysNat
  <2>4. marks \in Nat
    <3>1. {x \in AnnualDates(day, u, y) : day[<<u, x>>].req = None} \subseteq 1..LastDate
      BY DEF AnnualDates, Dates
    <3>2. IsFiniteSet(1..LastDate)
      BY CalendarAssumption, FS_Interval
    <3> QED
      BY <3>1, <3>2, FS_Subset, FS_CardinalityType DEF ManualDays
  <2>5. Remaining(leave, day, u, y) =
          AtLeast0(Entitled - (SumDays(leave, A, y) + marks) - SumDays(leave, P, y))
    BY DEF Remaining, Used
  <2> HIDE DEF y, A, P, W, new, marks
  <2>6. SumDays(leave, W, y) + new <= Entitled
    BY <1>0, <1>1, <1>2, <2>1, <2>2, <2>3, <2>4, <2>5 DEF AtLeast0
  <2> QED
    BY <2>6 DEF y, W, new
<1> QED
  BY <1>3, <1>4

\* A step that brings nothing back keeps everybody within the entitlement.
LEMMA KeptWithin ==
  ASSUME IInv, BalanceInv, RowsKept
  PROVE  WithinEntitlement' /\ IsFiniteSet({r \in Requests : leave'[r] # None})
<1>1. IsFiniteSet({r \in Requests : leave'[r] # None})
  <2>1. {r \in Requests : leave'[r] # None} \subseteq {r \in Requests : leave[r] # None}
    BY DEF RowsKept
  <2> QED
    BY <2>1, FS_Subset DEF BalanceInv
<1>2. ASSUME NEW u \in Employees, NEW d \in Dates
      PROVE  SumDays(leave', Annual(leave', u, Live), YearOf(d)) <= Entitled
  <2> DEFINE A == Annual(leave', u, Live)
             B == Annual(leave, u, Live)
             y == YearOf(d)
  <2>1. /\ A \subseteq B /\ A \in SUBSET Requests
        /\ \A r \in A : leave'[r].from = leave[r].from /\ leave'[r].to = leave[r].to
    BY DEF RowsKept, Annual
  <2>2. /\ B \in SUBSET Requests /\ IsFiniteSet(B) /\ y \in Int
        /\ \A r \in B : leave[r].from \in Dates /\ leave[r].to \in Dates
    BY LiveRows, YearInt
  <2>3. IsFiniteSet(A)
    BY <2>1, <2>2, FS_Subset
  <2>4. \A r \in A : leave'[r].from \in Dates /\ leave'[r].to \in Dates
    BY <2>1, <2>2
  <2>5. SumDays(leave, B, y) <= Entitled
    BY DEF BalanceInv, WithinEntitlement, Live
  <2> HIDE DEF A, B, y
  <2>6. SumDays(leave', A, y) <= SumDays(leave, B, y)
    BY <2>1, <2>2, SumDaysPart
  <2>7. SumDays(leave', A, y) \in Nat /\ SumDays(leave, B, y) \in Nat
    BY <2>1, <2>2, <2>3, <2>4, SumDaysNat
  <2>8. SumDays(leave', A, y) <= Entitled
    BY <2>5, <2>6, <2>7, CalendarAssumption
  <2> QED
    BY <2>8 DEF A, y
<1>3. WithinEntitlement'
  BY <1>2 DEF WithinEntitlement, Live
<1> QED
  BY <1>1, <1>3

\* Creating an affordable request keeps everybody within the entitlement.
LEMMA CreatedWithin ==
  ASSUME IInv, BalanceInv, NEW s \in Sessions, CommitCreate(s)
  PROVE  WithinEntitlement' /\ IsFiniteSet({r \in Requests : leave'[r] # None})
<1> PICK q \in Requests :
       /\ leave[q] = None /\ q \notin gone
       /\ leave' = [leave EXCEPT ![q] = session[s].tgt]
  BY DEF CommitCreate
<1> DEFINE l == session[s].tgt
<1>1. l \in Leave /\ l # None /\ Affordable(l)
  BY NoneAssumption DEF CommitCreate, IInv, TypeOK, Plan, BalanceInv
<1> HIDE DEF l
<1>2. \A r \in Requests : leave'[r] = IF r = q THEN l ELSE leave[r]
  BY DEF IInv, TypeOK, l
<1>3. IsFiniteSet({r \in Requests : leave'[r] # None})
  <2>1. {r \in Requests : leave'[r] # None} = {r \in Requests : leave[r] # None} \cup {q}
    BY <1>1, <1>2
  <2> QED
    BY <2>1, FS_AddElement DEF BalanceInv
<1>4. ASSUME NEW u \in Employees, NEW d \in Dates
      PROVE  SumDays(leave', Annual(leave', u, Live), YearOf(d)) <= Entitled
  <2> DEFINE A == Annual(leave', u, Live)
             B == Annual(leave, u, Live)
             y == YearOf(d)
             new == DaysInYear(l.from, l.to, y)
  <2>1. /\ B \in SUBSET Requests /\ IsFiniteSet(B) /\ y \in Int /\ q \notin B
        /\ \A r \in B : leave[r].from \in Dates /\ leave[r].to \in Dates
        /\ \A r \in B : leave'[r] = leave[r]
    <3>1. B \in SUBSET Requests /\ \A r \in B : leave[r] # None
      BY DEF Annual
    <3>2. IsFiniteSet(B) /\ \A r \in B : leave[r].from \in Dates /\ leave[r].to \in Dates
      BY LiveRows
    <3>3. y \in Int
      BY YearInt
    <3> HIDE DEF B, y
    <3> QED
      BY <1>2, <3>1, <3>2, <3>3
  <2>2. SumDays(leave, B, y) <= Entitled
    BY DEF BalanceInv, WithinEntitlement, Live
  <2>3. l.kind = "annual" /\ l.emp = u => SumDays(leave, B, y) + new <= Entitled
    BY <1>1 DEF Affordable
  <2>4. l.from \in Dates /\ l.to \in Dates /\ leave'[q] = l
    BY <1>1, <1>2 DEF Leave
  <2>5. CASE q \notin A
    <3>1. A \subseteq B /\ A \in SUBSET Requests
      BY <1>2, <2>5 DEF Annual
    <3>2. \A r \in A : leave'[r].from = leave[r].from /\ leave'[r].to = leave[r].to
      BY <2>1, <3>1
    <3>3. IsFiniteSet(A)
      BY <2>1, <3>1, FS_Subset
    <3> HIDE DEF A, B, y, new
    <3>4. SumDays(leave', A, y) <= SumDays(leave, B, y)
      BY <2>1, <3>1, <3>2, SumDaysPart
    <3>5. SumDays(leave', A, y) \in Nat /\ SumDays(leave, B, y) \in Nat
      BY <2>1, <3>1, <3>2, <3>3, SumDaysNat
    <3>6. SumDays(leave', A, y) <= Entitled
      BY <2>2, <3>4, <3>5, CalendarAssumption
    <3> QED
      BY <3>6 DEF A, y
  <2>6. CASE q \in A
    <3>1. A = B \cup {q} /\ l.kind = "annual" /\ l.emp = u
      BY <1>2, <2>4, <2>6 DEF Annual
    <3> HIDE DEF A, B, y, new
    <3>2. leave'[q].from \in Dates /\ leave'[q].to \in Dates
      BY <2>4
    <3>3. SumDays(leave', A, y) =
            SumDays(leave, B, y) + DaysInYear(leave'[q].from, leave'[q].to, y)
      <4> PICK n, o : n = leave' /\ o = leave
        OBVIOUS
      <4>1. /\ B \in SUBSET Requests /\ IsFiniteSet(B) /\ y \in Int /\ q \notin B
            /\ A = B \cup {q} /\ n[q].from \in Dates /\ n[q].to \in Dates
        BY <2>1, <3>1, <3>2
      <4>2. \A r \in B : o[r].from \in Dates /\ o[r].to \in Dates /\ n[r] = o[r]
        BY <2>1
      <4>3. SumDays(n, A, y) = SumDays(o, B, y) + DaysInYear(n[q].from, n[q].to, y)
        BY ONLY q \in Requests, <4>1, <4>2, SumDaysOneMore
      <4> QED
        BY <4>3
    <3>4. SumDays(leave', A, y) <= Entitled
      BY <2>3, <2>4, <3>1, <3>3 DEF new
    <3> QED
      BY <3>4 DEF A, y
  <2> QED
    BY <2>5, <2>6
<1>5. WithinEntitlement'
  BY <1>4 DEF WithinEntitlement, Live
<1> QED
  BY <1>3, <1>5

\* A plan to create a request has just been made, or was there before.
LEMMA CreatePlan ==
  ASSUME OneSession, IInv, [Next]_vars, NEW s \in Sessions,
         session'[s] # None, session'[s].op = "create"
  PROVE  \/ session' = session /\ leave' = leave /\ (ByHand \/ day' = day)
         \/ \E u \in Employees, p \in Partners, kind \in Kinds, from, to \in Dates :
              /\ Create(s, u, p, kind, from, to)
              /\ session'[s].tgt.emp = u /\ session'[s].tgt.kind = kind
              /\ session'[s].tgt.from = from /\ session'[s].tgt.to = to
<1>1. ASSUME NEW t \in Sessions, session' = [session EXCEPT ![t] = None]
      PROVE  FALSE
  BY <1>1, NobodyPlans
<1>2. ASSUME NEW t \in Sessions,
             CommitCreate(t) \/ CommitWrite(t) \/ CommitDelete(t) \/ Abort(t)
      PROVE  session' = [session EXCEPT ![t] = None]
  BY <1>2 DEF CommitCreate, CommitWrite, CommitDelete, Abort
<1>3. ASSUME NEW u \in Employees, NEW p \in Partners, NEW kind \in Kinds,
             NEW from \in Dates, NEW to \in Dates, Create(s, u, p, kind, from, to)
      PROVE  /\ session'[s].tgt.emp = u /\ session'[s].tgt.kind = kind
             /\ session'[s].tgt.from = from /\ session'[s].tgt.to = to
  BY <1>3 DEF Create, IInv, TypeOK
<1>4. ASSUME NEW r \in Requests, NEW op \in {"write", "delete"}, NEW tgt, NEW fill, NEW clear,
             Stage(s, op, r, tgt, fill, clear)
      PROVE  FALSE
  <2>1. session'[s].op = op
    BY <1>4 DEF Stage, IInv, TypeOK
  <2> QED
    BY <2>1
<1>5. ASSUME NEW r \in Requests, NEW approve, NEW by,
             \/ PartnerDecide(s, r, approve) \/ FinalDecide(s, r, by, approve)
             \/ Withdraw(s, r) \/ Cancel(s, r)
      PROVE  FALSE
  <2>1. \E tgt, fill, clear : Stage(s, "write", r, tgt, fill, clear)
    BY <1>5 DEF PartnerDecide, FinalDecide, Withdraw, Cancel
  <2> QED
    BY <1>4, <2>1
<1>6. ASSUME NEW r \in Requests, NEW u, Delete(s, u, r)
      PROVE  FALSE
  <2>1. \E tgt, fill, clear : Stage(s, "delete", r, tgt, fill, clear)
    BY <1>6 DEF Delete
  <2> QED
    BY <1>4, <2>1
<1>7. ASSUME NEW t \in Sessions, Handler(t)
      PROVE  \E u \in Employees, p \in Partners, kind \in Kinds, from, to \in Dates :
               Create(s, u, p, kind, from, to)
  <2>1. Handler(s)
    BY <1>7 DEF OneSession
  <2> QED
    BY <1>5, <1>6, <2>1 DEF Handler
<1>8. CASE ByHand
  BY <1>8, ByHandLinks
<1>9. CASE UNCHANGED vars
  BY <1>9 DEF vars
<1> QED
  BY <1>1, <1>2, <1>3, <1>7, <1>8, <1>9 DEF Next

LEMMA BalanceStep ==
  ASSUME OneSession, IInv, TurnInv, BalanceInv, [Next]_vars
  PROVE  BalanceInv'
<1>1. WithinEntitlement' /\ IsFiniteSet({r \in Requests : leave'[r] # None})
  BY RowsStep, CreatedWithin, KeptWithin
<1>2. ASSUME NEW s \in Sessions, session'[s] # None, session'[s].op = "create"
      PROVE  Affordable(session[s].tgt)'
  <2>1. CASE leave' = leave /\ session' = session
    BY <1>2, <2>1 DEF BalanceInv, Affordable
  <2>2. ASSUME NEW u \in Employees, NEW p \in Partners, NEW kind \in Kinds,
               NEW from \in Dates, NEW to \in Dates, Create(s, u, p, kind, from, to),
               session'[s].tgt.emp = u, session'[s].tgt.kind = kind,
               session'[s].tgt.from = from, session'[s].tgt.to = to
        PROVE  Affordable(session[s].tgt)'
    <3>1. /\ leave' = leave /\ from <= to
          /\ kind = "annual" => RequestAllowed(leave, day, u, from, to)
      BY <2>2 DEF Create
    <3>2. \A d \in Dates : kind = "annual" =>
            SumDays(leave, Annual(leave, u, Live), YearOf(d)) + DaysInYear(from, to, YearOf(d))
              <= Entitled
      BY <3>1, AllowedIsAffordable
    <3> QED
      BY <2>2, <3>1, <3>2 DEF Affordable
  <2> QED
    BY <1>2, <2>1, <2>2, CreatePlan
<1> QED
  BY <1>1, <1>2 DEF BalanceInv

LEMMA InitBalance == Init => BalanceInv
<1> SUFFICES ASSUME Init PROVE BalanceInv
  OBVIOUS
<1>1. {r \in Requests : leave[r] # None} = {} /\ \A u : Annual(leave, u, Live) = {}
  BY DEF Init, Annual
<1>2. IsFiniteSet({r \in Requests : leave[r] # None})
  BY <1>1, FS_EmptySet
<1>3. WithinEntitlement
  <2> SUFFICES ASSUME NEW u \in Employees, NEW d \in Dates
               PROVE  SumDays(leave, Annual(leave, u, Live), YearOf(d)) <= Entitled
    BY DEF WithinEntitlement, Live
  <2>1. Annual(leave, u, Live) = {}
    BY <1>1
  <2>2. SumDays(leave, {}, YearOf(d)) = Sum(DaysOf(leave, YearOf(d)), {})
    BY FS_EmptySet, SumDaysIsSum
  <2>3. SumDays(leave, {}, YearOf(d)) = 0
    BY <2>2, SumEmpty
  <2> QED
    BY <2>1, <2>3, CalendarAssumption
<1> QED
  BY <1>2, <1>3 DEF Init, BalanceInv

LEMMA BalanceInductive ==
  ASSUME OneSession
  PROVE  Spec => [](IInv /\ TurnInv /\ BalanceInv)
<1>1. IInv /\ TurnInv /\ BalanceInv /\ [Next]_vars => BalanceInv'
  BY BalanceStep
<1> QED
  BY <1>1, InitBalance, TurnInductive, PTL DEF Spec

\* When handlers take turns, no employee ever holds more annual leave in a year, approved
\* or asked for, than the entitlement, for any calendar, any marks written into it by
\* hand, and any order of requests, decisions, withdrawals, cancellations and deletions.
THEOREM EntitlementKept ==
  ASSUME OneSession
  PROVE  Spec => []WithinEntitlement
<1>1. BalanceInv => WithinEntitlement
  BY DEF BalanceInv
<1> QED
  BY <1>1, BalanceInductive, PTL

-----------------------------------------------------------------------------
(* Short requests stay within the flexible days.                             *)

ShortLive(table, u) == {q \in Annual(table, u, Live) : Short(table, q)}

\* A short request that the flexible days of the year it starts in still cover.
Covered(l) ==
  /\ l.from <= l.to
  /\ l.kind = "annual" /\ DaysCount(l.from, l.to) < MinContinuous =>
       LET y == YearOf(l.from) IN
       \/ ContinuousTaken(leave, day, l.emp, y)
       \/ SumDays(leave, ShortLive(leave, l.emp), y) + DaysCount(l.from, l.to) <= FlexibleMax

CoveredInv ==
  \A s \in Sessions : session[s] # None /\ session[s].op = "create" => Covered(session[s].tgt)

LEMMA ShortRows ==
  ASSUME IInv, BalanceInv, NEW u
  PROVE  LET S == ShortLive(leave, u) IN
         /\ S \in SUBSET Requests /\ IsFiniteSet(S)
         /\ \A r \in S : /\ leave[r] # None /\ leave[r] \in Leave
                         /\ leave[r].from \in Dates /\ leave[r].to \in Dates
<1> DEFINE R == Annual(leave, u, Live)
           S == ShortLive(leave, u)
<1>1. /\ R \in SUBSET Requests /\ IsFiniteSet(R)
      /\ \A r \in R : /\ leave[r] # None /\ leave[r] \in Leave
                      /\ leave[r].from \in Dates /\ leave[r].to \in Dates
  BY LiveRows
<1>2. S \subseteq R
  BY DEF ShortLive
<1> HIDE DEF R, S
<1>3. IsFiniteSet(S)
  BY <1>1, <1>2, FS_Subset
<1> QED
  BY <1>1, <1>2, <1>3 DEF S

\* validate_annual_vacation_request lets through only what is covered.
LEMMA AllowedIsCovered ==
  ASSUME IInv, BalanceInv, NEW u \in Employees, NEW from \in Dates, NEW to \in Dates,
         from <= to, RequestAllowed(leave, day, u, from, to),
         DaysCount(from, to) < MinContinuous,
         ~ContinuousTaken(leave, day, u, YearOf(from))
  PROVE  SumDays(leave, ShortLive(leave, u), YearOf(from)) + DaysCount(from, to) <= FlexibleMax
<1> DEFINE y == YearOf(from)
           n == DaysCount(from, to)
           sum == SumDays(leave, ShortLive(leave, u), y)
           marks == ManualDays(day, u, y)
<1>1. y \in Int /\ n \in Nat \ {0} /\ FlexibleMax \in Nat /\ MinContinuous \in Nat
  BY YearInt, CalendarAssumption DEF Dates, DaysCount, FlexibleMax
<1>2. n <= FlexibleRemaining(leave, day, u, y)
  BY <1>1 DEF RequestAllowed
<1>3. FlexibleRemaining(leave, day, u, y) = FlexibleMax - Min({sum + marks, FlexibleMax})
  BY DEF FlexibleRemaining, FlexibleUsed, ShortLive, Live
<1>4. sum \in Nat
  BY <1>1, ShortRows, SumDaysNat
<1>5. marks \in Nat
  <2>1. {x \in AnnualDates(day, u, y) : day[<<u, x>>].req = None} \subseteq 1..LastDate
    BY DEF AnnualDates, Dates
  <2>2. IsFiniteSet(1..LastDate)
    BY CalendarAssumption, FS_Interval
  <2> QED
    BY <2>1, <2>2, FS_Subset, FS_CardinalityType DEF ManualDays
<1> HIDE DEF y, n, sum, marks
<1>6. Min({sum + marks, FlexibleMax}) =
        IF sum + marks < FlexibleMax THEN sum + marks ELSE FlexibleMax
  BY <1>1, <1>4, <1>5, MaxMin
<1>7. sum + n <= FlexibleMax
  BY <1>1, <1>2, <1>3, <1>4, <1>5, <1>6
<1> QED
  BY <1>7 DEF sum, n, y

LEMMA CoveredStep ==
  ASSUME OneSession, NobodyByHand, IInv, BalanceInv, CoveredInv, [Next]_vars
  PROVE  CoveredInv'
<1> SUFFICES ASSUME NEW s \in Sessions, session'[s] # None, session'[s].op = "create"
             PROVE  Covered(session[s].tgt)'
  BY DEF CoveredInv
<1>1. ~ByHand
  BY DEF NobodyByHand, ByHand
<1>2. CASE session' = session /\ leave' = leave /\ day' = day
  BY <1>2 DEF CoveredInv, Covered
<1>3. ASSUME NEW u \in Employees, NEW p \in Partners, NEW kind \in Kinds,
             NEW from \in Dates, NEW to \in Dates, Create(s, u, p, kind, from, to),
             session'[s].tgt.emp = u, session'[s].tgt.kind = kind,
             session'[s].tgt.from = from, session'[s].tgt.to = to
      PROVE  Covered(session[s].tgt)'
  <2>1. /\ leave' = leave /\ day' = day /\ from <= to
        /\ kind = "annual" => RequestAllowed(leave, day, u, from, to)
    BY <1>3 DEF Create
  <2>2. kind = "annual" /\ DaysCount(from, to) < MinContinuous =>
          \/ ContinuousTaken(leave, day, u, YearOf(from))
          \/ SumDays(leave, ShortLive(leave, u), YearOf(from)) + DaysCount(from, to) <= FlexibleMax
    BY <2>1, AllowedIsCovered
  <2> QED
    BY <1>3, <2>1, <2>2 DEF Covered
<1> QED
  BY <1>1, <1>2, <1>3, CreatePlan

\* A request appears only by committing a plan to create it.
LEMMA OnlyCreated ==
  ASSUME IInv, TurnInv, [Next]_vars, NEW r \in Requests, leave[r] = None, leave'[r] # None
  PROVE  \E s \in Sessions : /\ CommitCreate(s)
                             /\ leave' = [leave EXCEPT ![r] = session[s].tgt]
<1>1. PICK s \in Sessions : CommitCreate(s)
  BY RowsStep DEF RowsKept
<1>2. PICK q \in Requests : leave[q] = None /\ leave' = [leave EXCEPT ![q] = session[s].tgt]
  BY <1>1 DEF CommitCreate
<1>3. q = r
  BY <1>2 DEF IInv, TypeOK
<1> QED
  BY <1>1, <1>2, <1>3

\* When handlers take turns and nobody edits the calendar by hand, the short requests of
\* the year a new one starts in stay within the flexible days until the mandatory block
\* is taken.
THEOREM ShortStaysFlexible ==
  ASSUME OneSession, NobodyByHand
  PROVE  Spec => ShortWithinFlexible
<1> DEFINE Within ==
        \A r \in Requests : (leave[r] = None /\ leave'[r] # None) =>
          LET l == leave'[r]
              y == YearOf(l.from)
          IN  (l.kind = "annual" /\ Short(leave', r) /\ ~ContinuousTaken(leave, day, l.emp, y))
                => SumDays(leave', {q \in Annual(leave', l.emp, InProgress \cup {"approved"}) :
                                    Short(leave', q)}, y) <= FlexibleMax
<1>1. Init => CoveredInv
  BY DEF Init, CoveredInv
<1>2. IInv /\ BalanceInv /\ CoveredInv /\ [Next]_vars => CoveredInv'
  BY CoveredStep
<1>3. ASSUME IInv, TurnInv, BalanceInv, CoveredInv, [Next]_vars
      PROVE  Within
  <2> SUFFICES ASSUME NEW r \in Requests, leave[r] = None, leave'[r] # None,
                      leave'[r].kind = "annual", Short(leave', r),
                      ~ContinuousTaken(leave, day, leave'[r].emp, YearOf(leave'[r].from))
               PROVE  SumDays(leave', ShortLive(leave', leave'[r].emp), YearOf(leave'[r].from))
                        <= FlexibleMax
    BY DEF ShortLive, Live
  <2>1. PICK s \in Sessions : CommitCreate(s) /\ leave' = [leave EXCEPT ![r] = session[s].tgt]
    BY <1>3, OnlyCreated
  <2> DEFINE l == session[s].tgt
             y == YearOf(l.from)
             A == ShortLive(leave, l.emp)
             B == ShortLive(leave', l.emp)
             days == DaysInYear(l.from, l.to, y)
             n == DaysCount(l.from, l.to)
  <2>2. l \in Leave /\ l.status = "pending" /\ Covered(l)
    BY <1>3, <2>1 DEF CommitCreate, IInv, TypeOK, Plan, PlanOK, CoveredInv
  <2> HIDE DEF l
  <2>3. \A q \in Requests : leave'[q] = IF q = r THEN l ELSE leave[q]
    BY <1>3, <2>1 DEF IInv, TypeOK, l
  <2>4. leave'[r] = l /\ l.kind = "annual" /\ n < MinContinuous
    BY <2>3 DEF Short
  <2>5. SumDays(leave, A, y) + n <= FlexibleMax
    BY <2>2, <2>4 DEF Covered
  <2>6. /\ A \in SUBSET Requests /\ IsFiniteSet(A)
        /\ \A q \in A : /\ leave[q] # None /\ leave[q] \in Leave
                        /\ leave[q].from \in Dates /\ leave[q].to \in Dates
    BY <1>3, ShortRows
  <2>7. l.from \in Dates /\ l.to \in Dates /\ y \in Int /\ l.from <= l.to
    BY <2>2, YearInt DEF Leave, Covered
  <2>8. B = A \cup {r}
    <3>1. r \in B
      BY <2>2, <2>3, <2>4 DEF ShortLive, Annual, Live, InProgress, Short
    <3>2. \A q \in Requests \ {r} : q \in B <=> q \in A
      BY <2>3 DEF ShortLive, Annual, Short
    <3>3. B \subseteq Requests
      BY DEF ShortLive, Annual
    <3> QED
      BY <2>6, <3>1, <3>2, <3>3
  <2>9. r \notin A
    BY <2>6
  <2> HIDE DEF y, A, B, days, n
  <2>10. SumDays(leave', B, y) = SumDays(leave, A, y) + days
    <3> PICK new, old : new = leave' /\ old = leave
      OBVIOUS
    <3>1. A \in SUBSET Requests /\ IsFiniteSet(A) /\ y \in Int /\ r \notin A /\ B = A \cup {r}
      BY <2>6, <2>7, <2>8, <2>9
    <3>2. \A q \in A : old[q].from \in Dates /\ old[q].to \in Dates /\ new[q] = old[q]
      BY <2>3, <2>6, <2>9
    <3>3. new[r].from \in Dates /\ new[r].to \in Dates
      BY <2>4, <2>7
    <3>4. SumDays(new, B, y) = SumDays(old, A, y) + DaysInYear(new[r].from, new[r].to, y)
      BY ONLY r \in Requests, <3>1, <3>2, <3>3, SumDaysOneMore
    <3> QED
      BY <2>4, <3>4 DEF days
  <2>11. days \in Nat /\ days <= n /\ n \in Int
    <3>1. l.from \in Int /\ l.to \in Int
      BY <2>7, CalendarAssumption DEF Dates
    <3>2. /\ DaysInYear(l.from, l.to, y) \in Nat
          /\ DaysInYear(l.from, l.to, y) <= DaysCount(l.from, l.to)
      BY <2>7, <3>1, DaysInYearNat
    <3>3. DaysCount(l.from, l.to) \in Int
      BY <3>1 DEF DaysCount
    <3> QED
      BY <3>2, <3>3 DEF days, n
  <2>12. SumDays(leave, A, y) \in Nat
    BY <2>6, <2>7, SumDaysNat
  <2>13. FlexibleMax \in Nat
    BY CalendarAssumption DEF FlexibleMax
  <2>14. SumDays(leave', B, y) <= FlexibleMax
    BY <2>5, <2>10, <2>11, <2>12, <2>13
  <2> QED
    BY <2>4, <2>14 DEF B, y
<1>4. IInv /\ TurnInv /\ BalanceInv /\ CoveredInv /\ [Next]_vars => [Within]_vars
  BY <1>3
<1> QED
  BY <1>1, <1>2, <1>4, BalanceInductive, PTL DEF Spec, ShortWithinFlexible
=============================================================================
