------------------------ MODULE Correspondence_proofs -------------------------
(* Proofs about Correspondence, for any letters, users, handlers and overlaps. *)
EXTENDS Correspondence, FiniteSetTheorems, TLAPS

LEMMA InitIInv == Init => IInv
<1> SUFFICES ASSUME Init PROVE IInv
  OBVIOUS
<1>1. TypeOK
  <2>1. 0 \in 0..MaxNo
    BY CorrespondenceAssumption
  <2>2. counter \in [Directions -> 0..MaxNo] /\ issued \subseteq Directions \X (0..MaxNo) \X Docs
    BY <2>1 DEF Init
  <2> QED
    BY <2>2 DEF Init, TypeOK
<1>2. RegisterHasNoGaps
  BY DEF Init, RegisterHasNoGaps, Numbers
<1> QED
  BY <1>1, <1>2 DEF Init, IInv, Storage, Alone, LettersAlone

-----------------------------------------------------------------------------
(* A handler begins *)

\* What a handler may plan as it begins, and what it has reserved and written.
Starts(p) ==
  /\ p \in Plan /\ p.op # "clean"
  /\ p.tgt.dir = p.snap.dir /\ ~Numbered(p)
  /\ p.asks => p.op \in {"create", "write"}
  /\ p.op = "create" => p.doc \notin born /\ p.snap.no = 0
  /\ p.op # "create" => row[p.doc] = p.snap
  /\ p.add \cap used = {} /\ (p.add # {} => p.op \in {"create", "write"})
  /\ p.keys \cup p.drop \subseteq AttachedTo(p.doc)
  /\ p.drop # {} => p.op = "detach"
  /\ ~overlapped => PlanAlone(p)

Reserves(p) ==
  /\ born' = born \cup {p.doc}
  /\ used' = used \cup p.add
  /\ disk' = IF p.asks THEN disk ELSE disk \cup p.add

Begun(s) == \E p \in Plan : Begin(s, p) /\ Starts(p) /\ Reserves(p)

LEMMA BegunKeeps ==
  ASSUME IInv, NEW s \in Sessions, Begun(s)
  PROVE  IInv'
<1> PICK p \in Plan : Begin(s, p) /\ Starts(p) /\ Reserves(p)
  BY DEF Begun
<1>1. /\ UNCHANGED <<row, att, counter, issued, lock>>
      /\ session[s] = None /\ session' = [session EXCEPT ![s] = p]
      /\ overlapped' = (overlapped \/ \E t \in Sessions : session[t] # None)
  BY DEF Begin, tables
<1>2. TypeOK'
  BY <1>1 DEF IInv, TypeOK, Reserves, Plan
<1>3. RegisterHasNoGaps'
  BY <1>1 DEF IInv, RegisterHasNoGaps, Numbers
<1>4. Storage'
  BY <1>1 DEF IInv, Storage, Reserves
<1>5. p.keys \cup p.drop \subseteq used /\ \A f \in p.keys \cup p.drop : att[f].doc = p.doc
  BY DEF Starts, IInv, Storage, AttachedTo
<1>6. \A f \in p.add : att[f] = None
  BY DEF Starts, IInv, Storage, Plan
<1>7. ASSUME NEW t \in Sessions, session'[t] # None
      PROVE  PlanOK(t)'
  <2>1. CASE t = s
    <3>1. session'[t] = p
      BY <1>1, <2>1 DEF IInv, TypeOK
    <3>2. p.op = "create" => row[p.doc] = None
      BY DEF Starts, IInv, Storage, Plan
    <3> QED
      BY <1>1, <1>5, <1>6, <3>1, <3>2 DEF PlanOK, Starts, Reserves, Numbered
  <2>2. CASE t # s
    <3>1. session'[t] = session[t] /\ PlanOK(t)
      BY <1>1, <1>7, <2>2 DEF IInv, TypeOK
    <3> QED
      BY <1>1, <3>1 DEF PlanOK, Reserves, Numbered
  <2> QED
    BY <2>1, <2>2
<1>8. ASSUME NEW t \in Sessions, NEW u \in Sessions, t # u, session'[t] # None, session'[u] # None
      PROVE  Apart(session'[t], session'[u])
  <2>1. ASSUME NEW v \in Sessions, v # s, session'[v] # None
        PROVE  session'[v] = session[v] /\ session[v] # None /\ PlanOK(v)
    BY <1>1, <2>1 DEF IInv, TypeOK
  <2>2. session'[s] = p
    BY <1>1 DEF IInv, TypeOK
  <2>3. CASE t = s
    <3>1. p.op = "create" => session[u].doc # p.doc
      BY <1>8, <2>1, <2>3 DEF Starts, PlanOK
    <3> QED
      BY <1>8, <2>1, <2>2, <2>3, <3>1 DEF Apart, Starts, PlanOK
  <2>4. CASE u = s
    <3>1. session[t].add \subseteq used /\ \A f \in session[t].add : att[f] = None
      BY <1>8, <2>1, <2>4 DEF PlanOK
    <3>2. session[t].op = "create" => p.doc # session[t].doc
      <4> SUFFICES ASSUME session[t].op = "create", p.doc = session[t].doc PROVE FALSE
        OBVIOUS
      <4>1. row[p.doc] = None /\ p.doc \in born
        BY <1>8, <2>1, <2>4 DEF PlanOK
      <4> QED
        BY <4>1, NoneIsNoRecord DEF Starts, Plan
    <3>3. \A f \in p.drop \cup p.keys : att[f] # None
      BY DEF Starts, AttachedTo
    <3> QED
      BY <1>8, <2>1, <2>2, <2>4, <3>1, <3>2, <3>3 DEF Apart, Starts
  <2>5. CASE t # s /\ u # s
    BY <1>8, <2>1, <2>5 DEF IInv
  <2> QED
    BY <2>3, <2>4, <2>5
<1>9. ASSUME ~overlapped'
      PROVE  Alone'
  <2>1. ~overlapped /\ (\A t \in Sessions : session[t] = None) /\ Alone
    BY <1>1, <1>9 DEF IInv
  <2>2. \A t \in Sessions : session'[t] = IF t = s THEN p ELSE None
    BY <1>1, <2>1 DEF IInv, TypeOK
  <2>3. PlanAlone(p)'
    BY <1>1, <2>1 DEF Starts, PlanAlone, Scans, AttachedTo, Numbered
  <2>4. LettersAlone'
    BY <1>1, <2>1 DEF Alone, LettersAlone, Scans, AttachedTo
  <2> QED
    BY <2>2, <2>3, <2>4 DEF Alone, PlanAlone
<1> QED
  BY <1>2, <1>3, <1>4, <1>7, <1>8, <1>9 DEF IInv, Apart

-----------------------------------------------------------------------------
(* The handlers *)

LEMMA Shape ==
  ASSUME NEW d \in Docs, row[d] \in Rows, NEW tgt \in Rows
  PROVE  /\ Changing(d, tgt) \in Plan
         /\ Changing(d, tgt).op = "write" /\ Changing(d, tgt).doc = d
         /\ Changing(d, tgt).snap = row[d] /\ Changing(d, tgt).tgt = tgt
         /\ ~Changing(d, tgt).asks /\ Changing(d, tgt).add = {}
         /\ Changing(d, tgt).drop = {} /\ Changing(d, tgt).keys = {}
BY DEF Changing, Plan, Kinds

\* What a handler loads is a letter; before handlers overlap, one without a number
\* if it is under review.
LEMMA Loaded ==
  ASSUME IInv, NEW d \in Docs, row[d] # None
  PROVE  /\ row[d] \in Rows /\ d \in born
         /\ ~overlapped /\ row[d].dir = "outgoing" /\ row[d].status \in Unregistered =>
              row[d].no = 0
BY DEF IInv, TypeOK, Storage, Alone, LettersAlone

LEMMA ChangeBegins ==
  ASSUME IInv, NEW s \in Sessions, NEW d \in Docs, row[d] # None, ~row[d].archived,
         NEW tgt \in Rows, tgt.dir = row[d].dir, tgt.no = row[d].no,
         tgt.status \in Unregistered => row[d].status \in Unregistered,
         Change(s, d, tgt)
  PROVE  Begun(s)
<1> DEFINE p == Changing(d, tgt)
<1>1. row[d] \in Rows /\ d \in born
  BY Loaded
<1>2. /\ p \in Plan /\ p.op = "write" /\ p.doc = d /\ p.snap = row[d] /\ p.tgt = tgt
      /\ ~p.asks /\ p.add = {} /\ p.drop = {} /\ p.keys = {}
  BY <1>1, Shape
<1>3. Begin(s, p) /\ UNCHANGED <<disk, born, used>>
  BY DEF Change
<1> HIDE DEF p
<1>4. ~overlapped => PlanAlone(p)
  BY <1>1, <1>2, Loaded DEF PlanAlone, Numbered
<1>5. Starts(p)
  BY <1>2, <1>4 DEF Starts, Numbered
<1> QED
  BY <1>1, <1>2, <1>3, <1>5 DEF Begun, Reserves

LEMMA InsertBegins ==
  ASSUME IInv, NEW s \in Sessions, NEW new \in Rows, NEW registers \in BOOLEAN,
         NEW F \in SUBSET Files, NEW kind \in Kinds,
         new.no = 0,
         new.dir = "incoming" => F # {} /\ kind = "scan",
         registers => new.status \notin Unregistered,
         Insert(s, new, registers, F, kind)
  PROVE  Begun(s)
<1>1. PICK d \in Docs \ born :
        /\ F \cap used = {}
        /\ Begin(s, [Changing(d, new) EXCEPT !.op = "create", !.snap = new, !.asks = registers,
                                             !.add = F, !.kind = kind])
        /\ born' = born \cup {d} /\ used' = used \cup F
        /\ disk' = IF registers THEN disk ELSE disk \cup F
  BY DEF Insert
<1> DEFINE p == [Changing(d, new) EXCEPT !.op = "create", !.snap = new, !.asks = registers,
                                         !.add = F, !.kind = kind]
<1>2. /\ p \in Plan /\ p.op = "create" /\ p.doc = d /\ p.snap = new /\ p.tgt = new
      /\ p.asks = registers /\ p.add = F /\ p.kind = kind /\ p.drop = {} /\ p.keys = {}
  BY DEF Changing, Plan, Kinds
<1>3. Begin(s, p)
  BY <1>1
<1> HIDE DEF p
<1>4. PlanAlone(p)
  BY <1>2 DEF PlanAlone, Numbered
<1>5. Starts(p)
  BY <1>1, <1>2, <1>4 DEF Starts, Numbered
<1> QED
  BY <1>1, <1>2, <1>3, <1>5 DEF Begun, Reserves

LEMMA CreatesBegin ==
  ASSUME IInv, NEW s \in Sessions, NEW u \in Users, Creates(s, u)
  PROVE  Begun(s)
<1>1. ASSUME NEW dir \in Directions, NEW st \in Statuses, NEW p \in Partners \cup {None}
      PROVE  /\ Letter(dir, st, u, p) \in Rows
             /\ Letter(dir, st, u, p).no = 0 /\ Letter(dir, st, u, p).dir = dir
             /\ Letter(dir, st, u, p).status = st
  BY CorrespondenceAssumption DEF Letter, Rows
<1>2. {"draft", "new", "progress"} \subseteq Statuses /\ {"scan", "attachment"} \subseteq Kinds
  BY DEF Statuses, Unregistered, Kinds
<1>3. {"new", "progress"} \cap Unregistered = {} /\ Directions = {"incoming", "outgoing"}
  BY DEF Unregistered, Directions
<1> PICK F \in SUBSET Files :
      \/ \E p \in Partners : RegisterIncoming(s, u, p, F)
      \/ RegisterOutgoing(s, u, F)
      \/ \E p \in Partners \cup {None} : CreateDraft(s, u, p, F)
  BY DEF Creates
<1>4. ASSUME NEW p \in Partners, RegisterIncoming(s, u, p, F) PROVE Begun(s)
  <2>1. F # {} /\ Insert(s, Letter("incoming", "new", u, p), TRUE, F, "scan")
    BY <1>4 DEF RegisterIncoming
  <2> DEFINE new == Letter("incoming", "new", u, p)
  <2>2. new \in Rows /\ new.no = 0 /\ new.dir = "incoming" /\ new.status = "new"
    BY <1>1, <1>2, <1>3
  <2>3. ("incoming" = "incoming" => F # {} /\ "scan" = "scan") /\ (TRUE => "new" \notin Unregistered)
    BY <1>3, <2>1
  <2> HIDE DEF new
  <2> QED
    BY <1>2, <2>1, <2>2, <2>3, InsertBegins DEF new
<1>5. CASE RegisterOutgoing(s, u, F)
  <2>1. Insert(s, Letter("outgoing", "progress", u, None), TRUE, F, "attachment")
    BY <1>5 DEF RegisterOutgoing
  <2> DEFINE new == Letter("outgoing", "progress", u, None)
  <2>2. new \in Rows /\ new.no = 0 /\ new.dir = "outgoing" /\ new.status = "progress"
    BY <1>1, <1>2, <1>3
  <2>3. ("outgoing" = "incoming" => F # {} /\ "attachment" = "scan") /\ (TRUE => "progress" \notin Unregistered)
    BY <1>3, <2>1
  <2> HIDE DEF new
  <2> QED
    BY <1>2, <2>1, <2>2, <2>3, InsertBegins DEF new
<1>6. ASSUME NEW p \in Partners \cup {None}, CreateDraft(s, u, p, F) PROVE Begun(s)
  <2>1. Insert(s, Letter("outgoing", "draft", u, p), FALSE, F, "attachment")
    BY <1>6 DEF CreateDraft
  <2> DEFINE new == Letter("outgoing", "draft", u, p)
  <2>2. new \in Rows /\ new.no = 0 /\ new.dir = "outgoing" /\ new.status = "draft"
    BY <1>1, <1>2, <1>3
  <2>3. ("outgoing" = "incoming" => F # {} /\ "attachment" = "scan") /\ (FALSE => "draft" \notin Unregistered)
    BY <1>3, <2>1
  <2> HIDE DEF new
  <2> QED
    BY <1>2, <2>1, <2>2, <2>3, InsertBegins DEF new
<1> QED
  BY <1>4, <1>5, <1>6

LEMMA SetStatusBegins ==
  ASSUME IInv, NEW s \in Sessions, NEW d \in Docs, Open(d),
         NEW st \in Statuses, NEW p \in Partners \cup {None},
         st \in Unregistered => row[d].status \in Unregistered,
         Change(s, d, [row[d] EXCEPT !.status = st, !.partner = p])
  PROVE  Begun(s)
<1> DEFINE new == [row[d] EXCEPT !.status = st, !.partner = p]
<1>1. row[d] # None /\ ~row[d].archived /\ row[d] \in Rows
  BY Loaded DEF Open
<1>2. new \in Rows /\ new.dir = row[d].dir /\ new.no = row[d].no /\ new.status = st
  BY <1>1 DEF Rows
<1> QED
  BY <1>1, <1>2, ChangeBegins

LEMMA ApproveBegins ==
  ASSUME IInv, NEW s \in Sessions, NEW u \in Users, NEW d \in Docs, Approve(s, u, d)
  PROVE  Begun(s)
<1> DEFINE new == [row[d] EXCEPT !.status = "awaiting_signature"]
           c == Changing(d, new)
           p == [c EXCEPT !.asks = TRUE]
<1>1. /\ row[d] # None /\ ~row[d].archived /\ row[d].dir = "outgoing"
      /\ row[d].status = "pending_review" /\ row[d] \in Rows /\ d \in born
  BY Loaded DEF Approve, OpenOutgoing, Open
<1>2. "awaiting_signature" \in Statuses \ Unregistered /\ "pending_review" \in Unregistered
  BY DEF Statuses, Unregistered
<1>3. new \in Rows /\ new.dir = row[d].dir /\ new.no = row[d].no /\ new.status = "awaiting_signature"
  BY <1>1, <1>2 DEF Rows
<1>4. Begin(s, p) /\ UNCHANGED <<disk, born, used>>
  BY DEF Approve
<1> HIDE DEF new
<1>5. /\ c \in Plan /\ c.op = "write" /\ c.doc = d /\ c.snap = row[d] /\ c.tgt = new
      /\ c.add = {} /\ c.drop = {} /\ c.keys = {}
  BY <1>1, <1>3, Shape
<1> HIDE DEF c
<1>6. /\ p \in Plan /\ p.op = "write" /\ p.doc = d /\ p.snap = row[d] /\ p.tgt = new
      /\ p.asks /\ p.add = {} /\ p.drop = {} /\ p.keys = {}
  BY <1>5 DEF Plan
<1> HIDE DEF p
<1>7. ~overlapped => PlanAlone(p)
  BY <1>1, <1>2, <1>3, <1>6, Loaded DEF PlanAlone
<1>8. Starts(p)
  BY <1>3, <1>6, <1>7 DEF Starts, Numbered
<1> QED
  BY <1>1, <1>4, <1>6, <1>8 DEF Begun, Reserves

LEMMA PatchBegins ==
  ASSUME IInv, NEW s \in Sessions, NEW u \in Users, NEW d \in Docs,
         NEW st \in Statuses, NEW v \in Users, NEW p \in Partners \cup {None},
         Patch(s, u, d, st, v, p)
  PROVE  Begun(s)
<1> DEFINE new == [row[d] EXCEPT !.status = st, !.resp = v, !.partner = p]
<1>1. row[d] # None /\ ~row[d].archived /\ row[d] \in Rows
  BY Loaded DEF Patch, Open
<1>2. new \in Rows /\ new.dir = row[d].dir /\ new.no = row[d].no /\ new.status = st
  BY <1>1 DEF Rows
<1>3. st \in Unregistered => row[d].status \in Unregistered
  BY DEF Patch, Unregistered
<1>4. Change(s, d, new)
  BY DEF Patch
<1> HIDE DEF new
<1> QED
  BY <1>1, <1>2, <1>3, <1>4, ChangeBegins

LEMMA DeleteBegins ==
  ASSUME IInv, NEW s \in Sessions, NEW u \in Users, NEW d \in Docs, Delete(s, u, d)
  PROVE  Begun(s)
<1> DEFINE c == Changing(d, row[d])
           p == [c EXCEPT !.op = "delete", !.keys = AttachedTo(d)]
<1>1. row[d] # None /\ row[d] \in Rows /\ d \in born
  BY Loaded DEF Delete
<1>2. Begin(s, p) /\ UNCHANGED <<disk, born, used>>
  BY DEF Delete
<1>3. /\ c \in Plan /\ c.doc = d /\ c.snap = row[d] /\ c.tgt = row[d]
      /\ ~c.asks /\ c.add = {} /\ c.drop = {}
  BY <1>1, Shape
<1> HIDE DEF c
<1>4. AttachedTo(d) \in SUBSET Files
  BY DEF AttachedTo
<1>5. /\ p \in Plan /\ p.op = "delete" /\ p.doc = d /\ p.snap = row[d] /\ p.tgt = row[d]
      /\ ~p.asks /\ p.add = {} /\ p.drop = {} /\ p.keys = AttachedTo(d)
  BY <1>3, <1>4 DEF Plan
<1> HIDE DEF p
<1>6. PlanAlone(p)
  BY <1>5 DEF PlanAlone, Numbered
<1>7. Starts(p)
  BY <1>5, <1>6 DEF Starts, Numbered
<1> QED
  BY <1>1, <1>2, <1>5, <1>7 DEF Begun, Reserves

LEMMA UploadBegins ==
  ASSUME IInv, NEW s \in Sessions, NEW u \in Users, NEW d \in Docs,
         NEW F \in SUBSET Files, NEW kind \in Kinds, Upload(s, u, d, F, kind)
  PROVE  Begun(s)
<1> DEFINE new == IF kind = "signed" THEN [row[d] EXCEPT !.status = "done"] ELSE row[d]
           c == Changing(d, new)
           p == [c EXCEPT !.add = F, !.kind = kind]
<1>1. /\ row[d] # None /\ ~row[d].archived /\ row[d] \in Rows /\ d \in born
      /\ F \cap used = {}
  BY Loaded DEF Upload, Open
<1>2. "done" \in Statuses \ Unregistered
  BY DEF Statuses, Unregistered
<1>3. /\ new \in Rows /\ new.dir = row[d].dir /\ new.no = row[d].no
      /\ new.status \in Unregistered => row[d].status \in Unregistered
  BY <1>1, <1>2 DEF Rows
<1>4. Begin(s, p) /\ disk' = disk \cup F /\ used' = used \cup F /\ UNCHANGED born
  BY DEF Upload
<1> HIDE DEF new
<1>5. /\ c \in Plan /\ c.op = "write" /\ c.doc = d /\ c.snap = row[d] /\ c.tgt = new
      /\ ~c.asks /\ c.drop = {} /\ c.keys = {}
  BY <1>1, <1>3, Shape
<1> HIDE DEF c
<1>6. /\ p \in Plan /\ p.op = "write" /\ p.doc = d /\ p.snap = row[d] /\ p.tgt = new
      /\ ~p.asks /\ p.add = F /\ p.drop = {} /\ p.keys = {}
  BY <1>5 DEF Plan
<1> HIDE DEF p
<1>7. ~overlapped => PlanAlone(p)
  BY <1>1, <1>3, <1>6, Loaded DEF PlanAlone, Numbered
<1>8. Starts(p)
  BY <1>1, <1>3, <1>6, <1>7 DEF Starts, Numbered
<1> QED
  BY <1>1, <1>4, <1>6, <1>8 DEF Begun, Reserves

LEMMA DetachBegins ==
  ASSUME IInv, NEW s \in Sessions, NEW u \in Users, NEW f \in Files, DeleteAttachment(s, u, f)
  PROVE  Begun(s)
<1> DEFINE d == att[f].doc
           c == Changing(d, row[d])
           p == [c EXCEPT !.op = "detach", !.drop = {f}]
<1>1. d \in Docs /\ f \in AttachedTo(d) /\ att[f] # None
  BY DEF DeleteAttachment, IInv, TypeOK, Attachments, AttachedTo
<1>2. row[d] # None /\ ~row[d].archived /\ row[d] \in Rows /\ d \in born
  BY <1>1, Loaded DEF DeleteAttachment, Open
<1>3. Begin(s, p) /\ UNCHANGED <<disk, born, used>>
  BY DEF DeleteAttachment
<1>4. row[d].dir = "incoming" /\ att[f].kind = "scan" => Cardinality(Scans(d)) > 1
  BY DEF DeleteAttachment
<1> HIDE DEF d
<1>5. /\ c \in Plan /\ c.doc = d /\ c.snap = row[d] /\ c.tgt = row[d]
      /\ ~c.asks /\ c.add = {} /\ c.keys = {}
  BY <1>1, <1>2, Shape
<1> HIDE DEF c
<1>6. /\ p \in Plan /\ p.op = "detach" /\ p.doc = d /\ p.snap = row[d] /\ p.tgt = row[d]
      /\ ~p.asks /\ p.add = {} /\ p.drop = {f} /\ p.keys = {}
  BY <1>5 DEF Plan
<1> HIDE DEF p
<1>7. ~overlapped /\ row[d].dir = "incoming" => \E g \in Scans(d) : g # f
  <2> SUFFICES ASSUME ~overlapped, row[d].dir = "incoming", \A g \in Scans(d) : g = f
               PROVE  FALSE
    OBVIOUS
  <2>1. Scans(d) # {}
    BY <1>1, <1>2 DEF IInv, Alone, LettersAlone
  <2>2. Scans(d) = {f} /\ att[f].kind = "scan"
    BY <2>1 DEF Scans
  <2>3. Cardinality(Scans(d)) = 1
    BY <2>2, FS_Singleton
  <2> QED
    BY <1>4, <2>2, <2>3
<1>8. ~overlapped => PlanAlone(p)
  BY <1>2, <1>6, <1>7 DEF PlanAlone, Numbered
<1>9. Starts(p)
  BY <1>1, <1>6, <1>8 DEF Starts, Numbered
<1> QED
  BY <1>2, <1>3, <1>6, <1>9 DEF Begun, Reserves

LEMMA HandlesBegin ==
  ASSUME IInv, NEW s \in Sessions, NEW u \in Users, Handles(s, u)
  PROVE  Begun(s)
<1>1. CASE \E f \in Files : DeleteAttachment(s, u, f)
  BY <1>1, DetachBegins
<1>2. ASSUME NEW d \in Docs, NEW p \in Partners, SubmitForReview(s, u, d, p) PROVE Begun(s)
  <2>1. /\ Open(d) /\ row[d].status \in Unregistered /\ "pending_review" \in Statuses
        /\ Change(s, d, [row[d] EXCEPT !.status = "pending_review", !.partner = p])
    BY <1>2 DEF SubmitForReview, OpenOutgoing, ReviewEditable, Unregistered, Statuses
  <2> QED
    BY <2>1, SetStatusBegins
<1>3. ASSUME NEW d \in Docs, Approve(s, u, d) PROVE Begun(s)
  BY <1>3, ApproveBegins
<1>4. ASSUME NEW d \in Docs, Reject(s, u, d) PROVE Begun(s)
  <2> DEFINE new == [row[d] EXCEPT !.status = "rejected"]
  <2>1. /\ Open(d) /\ row[d].status \in Unregistered /\ "rejected" \in Statuses
        /\ Change(s, d, new)
    BY <1>4 DEF Reject, OpenOutgoing, Unregistered, Statuses
  <2>2. row[d] # None /\ ~row[d].archived /\ row[d] \in Rows
    BY <2>1, Loaded DEF Open
  <2>3. new \in Rows /\ new.dir = row[d].dir /\ new.no = row[d].no
    BY <2>1, <2>2 DEF Rows
  <2> HIDE DEF new
  <2> QED
    BY <2>1, <2>2, <2>3, ChangeBegins
<1>5. ASSUME NEW d \in Docs, Acknowledge(s, u, d) PROVE Begun(s)
  <2> DEFINE new == [row[d] EXCEPT !.status = "received"]
  <2>1. /\ Open(d) /\ "received" \in Statuses \ Unregistered
        /\ Change(s, d, new)
    BY <1>5 DEF Acknowledge, Unregistered, Statuses
  <2>2. row[d] # None /\ ~row[d].archived /\ row[d] \in Rows
    BY <2>1, Loaded DEF Open
  <2>3. new \in Rows /\ new.dir = row[d].dir /\ new.no = row[d].no /\ new.status = "received"
    BY <2>1, <2>2 DEF Rows
  <2> HIDE DEF new
  <2> QED
    BY <2>1, <2>2, <2>3, ChangeBegins
<1>6. ASSUME NEW d \in Docs, NEW st \in Statuses, NEW v \in Users, NEW p \in Partners \cup {None},
             Patch(s, u, d, st, v, p)
      PROVE  Begun(s)
  BY <1>6, PatchBegins
<1>7. ASSUME NEW d \in Docs, Archive(s, u, d) PROVE Begun(s)
  <2> DEFINE new == [row[d] EXCEPT !.archived = TRUE]
  <2>1. Open(d) /\ Change(s, d, new)
    BY <1>7 DEF Archive
  <2>2. row[d] # None /\ ~row[d].archived /\ row[d] \in Rows
    BY <2>1, Loaded DEF Open
  <2>3. new \in Rows /\ new.dir = row[d].dir /\ new.no = row[d].no /\ new.status = row[d].status
    BY <2>2 DEF Rows
  <2> HIDE DEF new
  <2> QED
    BY <2>1, <2>2, <2>3, ChangeBegins
<1>8. ASSUME NEW d \in Docs, Delete(s, u, d) PROVE Begun(s)
  BY <1>8, DeleteBegins
<1>9. ASSUME NEW d \in Docs, NEW F \in SUBSET Files, NEW kind \in Kinds, Upload(s, u, d, F, kind)
      PROVE  Begun(s)
  BY <1>9, UploadBegins
<1> QED
  BY <1>1, <1>2, <1>3, <1>4, <1>5, <1>6, <1>7, <1>8, <1>9 DEF Handles

-----------------------------------------------------------------------------
(* A handler takes a number, cleans up or fails *)

LEMMA TakeNumberKeeps ==
  ASSUME IInv, NEW s \in Sessions, TakeNumber(s)
  PROVE  IInv'
<1>p. \E p \in Plan : p = session[s]
  BY DEF TakeNumber, IInv, TypeOK
<1> PICK p \in Plan : p = session[s]
  BY <1>p
<1>q. \E q : q = [p EXCEPT !.asks = FALSE, !.tgt.no = counter[p.tgt.dir] + 1]
  OBVIOUS
<1> PICK q : q = [p EXCEPT !.asks = FALSE, !.tgt.no = counter[p.tgt.dir] + 1]
  BY <1>q
<1>1. /\ p \in Plan /\ p.asks /\ PlanOK(s) /\ ~Numbered(p)
      /\ p.tgt.dir \in Directions /\ p.op \in {"create", "write"}
  BY DEF TakeNumber, IInv, TypeOK, PlanOK, Plan, Rows
<1>2. /\ lock[p.tgt.dir] = None /\ lock' = [lock EXCEPT ![p.tgt.dir] = s]
      /\ session' = [session EXCEPT ![s] = q]
      /\ disk' = disk \cup p.add
      /\ UNCHANGED <<row, att, counter, issued, born, used, overlapped>>
      /\ counter[p.tgt.dir] < MaxNo /\ counter[p.tgt.dir] \in 0..MaxNo
  BY <1>1 DEF TakeNumber, tables, IInv, TypeOK
<1>3. counter[p.tgt.dir] + 1 \in 0..MaxNo
  BY <1>2, CorrespondenceAssumption
<1>4. /\ q \in Plan /\ ~q.asks /\ q.tgt.dir = p.tgt.dir /\ q.tgt.no = counter[p.tgt.dir] + 1
      /\ q.tgt.status = p.tgt.status /\ q.op = p.op /\ q.doc = p.doc /\ q.snap = p.snap
      /\ q.add = p.add /\ q.kind = p.kind /\ q.drop = p.drop /\ q.keys = p.keys
  BY <1>1, <1>3 DEF Plan, Rows
<1>5. \A t \in Sessions : session'[t] = IF t = s THEN q ELSE session[t]
  BY <1>2 DEF IInv, TypeOK
<1>6. TypeOK'
  BY <1>1, <1>2, <1>4 DEF IInv, TypeOK, Plan
<1>7. RegisterHasNoGaps'
  BY <1>2 DEF IInv, RegisterHasNoGaps, Numbers
<1>8. Storage'
  <2>1. p.add \subseteq used
    BY <1>1 DEF PlanOK
  <2> QED
    BY <1>2, <2>1 DEF IInv, Storage
<1>9. ASSUME NEW t \in Sessions, session'[t] # None
      PROVE  PlanOK(t)'
  <2>1. CASE t = s
    <3>1. lock'[q.tgt.dir] = s
      BY <1>1, <1>2, <1>4 DEF IInv, TypeOK
    <3>2. session'[s] = q
      BY <1>5
    <3> QED
      BY <1>1, <1>2, <1>4, <2>1, <3>1, <3>2 DEF PlanOK
  <2>2. CASE t # s
    <3>1. session'[t] = session[t] /\ PlanOK(t)
      BY <1>5, <1>9, <2>2 DEF IInv
    <3>2. Numbered(session[t]) => lock'[session[t].tgt.dir] = t
      BY <1>1, <1>2, <3>1, CorrespondenceAssumption DEF PlanOK, IInv, TypeOK
    <3>3. ~session[t].asks => session[t].add \subseteq disk'
      BY <1>2, <3>1 DEF PlanOK
    <3>4. row' = row /\ att' = att /\ counter' = counter /\ born' = born /\ used' = used
      BY <1>2
    <3> QED
      BY <3>1, <3>2, <3>3, <3>4 DEF PlanOK, Numbered
  <2> QED
    BY <2>1, <2>2
<1>10. ASSUME NEW t \in Sessions, NEW u \in Sessions, t # u, session'[t] # None, session'[u] # None
       PROVE  Apart(session'[t], session'[u])
  <2>1. session[t] # None /\ session[u] # None
    BY <1>1, <1>5, <1>10, NoneIsNoRecord
  <2>2. Apart(session[t], session[u])
    BY <1>10, <2>1 DEF IInv
  <2> QED
    <3>1. \A v \in Sessions : session'[v] # None =>
            /\ session'[v].add = session[v].add /\ session'[v].drop = session[v].drop
            /\ session'[v].keys = session[v].keys /\ session'[v].op = session[v].op
            /\ session'[v].doc = session[v].doc
      BY <1>4, <1>5
    <3> QED
      BY <1>10, <2>2, <3>1 DEF Apart
<1>11. ASSUME ~overlapped'
       PROVE  Alone'
  <2>1. Alone /\ PlanAlone(p)
    BY <1>1, <1>2, <1>11, NoneIsNoRecord DEF IInv, Alone
  <2>2. PlanAlone(q)'
    BY <1>1, <1>2, <1>4, <2>1 DEF PlanAlone, Scans, AttachedTo
  <2>3. LettersAlone'
    BY <1>2, <2>1 DEF Alone, LettersAlone, Scans, AttachedTo
  <2>4. \A t \in Sessions : session'[t] # None => t = s
    BY <1>1, <1>5, <2>1, NoneIsNoRecord DEF Alone
  <2> QED
    BY <1>5, <2>2, <2>3, <2>4 DEF Alone, PlanAlone
<1> QED
  BY <1>6, <1>7, <1>8, <1>9, <1>10, <1>11 DEF IInv, Apart

\* A handler that ends leaves the others' plans as they are.
LEMMA LeavesPlans ==
  ASSUME IInv, NEW s \in Sessions,
         session' = [session EXCEPT ![s] = None],
         \A t \in Sessions \ {s}, dir \in Directions : lock[dir] = t => lock'[dir] = t,
         disk' \subseteq disk,
         \A t \in Sessions \ {s} : session[t] # None =>
           (~session[t].asks => session[t].add \subseteq disk'),
         UNCHANGED <<row, att, counter, issued, born, used, overlapped>>,
         \A f \in Files : att[f] # None => f \in disk',
         lock' \in [Directions -> Sessions \cup {None}]
  PROVE  IInv'
<1>1. \A t \in Sessions : session'[t] = IF t = s THEN None ELSE session[t]
  BY DEF IInv, TypeOK
<1>2. TypeOK'
  BY DEF IInv, TypeOK
<1>3. RegisterHasNoGaps'
  BY DEF IInv, RegisterHasNoGaps, Numbers
<1>4. Storage'
  BY DEF IInv, Storage
<1>5. ASSUME NEW t \in Sessions, session'[t] # None
      PROVE  PlanOK(t)'
  <2>1. t # s /\ session'[t] = session[t] /\ PlanOK(t) /\ session[t] \in Plan
    BY <1>1, <1>5 DEF IInv, TypeOK
  <2>2. session[t].tgt.dir \in Directions
    BY <2>1 DEF Plan, Rows
  <2>3. Numbered(session[t]) => lock'[session[t].tgt.dir] = t
    BY <2>1, <2>2 DEF PlanOK
  <2>4. ~session[t].asks => session[t].add \subseteq disk'
    BY <1>5, <2>1
  <2> QED
    BY <1>5, <2>1, <2>3, <2>4 DEF PlanOK, Numbered
<1>6. ASSUME NEW t \in Sessions, NEW u \in Sessions, t # u, session'[t] # None, session'[u] # None
      PROVE  Apart(session'[t], session'[u])
  BY <1>1, <1>6 DEF IInv
<1>7. ASSUME ~overlapped'
      PROVE  Alone'
  <2>1. Alone
    BY <1>7 DEF IInv
  <2>2. LettersAlone'
    BY <2>1 DEF Alone, LettersAlone, Scans, AttachedTo
  <2>3. ASSUME NEW t \in Sessions, session'[t] # None
        PROVE  PlanAlone(session[t]) /\ session'[t] = session[t]
    BY <1>1, <2>1, <2>3 DEF Alone
  <2>4. ASSUME NEW t \in Sessions, session'[t] # None
        PROVE  PlanAlone(session[t])'
    BY <2>3, <2>4 DEF PlanAlone, Scans, AttachedTo, Numbered
  <2> QED
    BY <1>1, <2>1, <2>2, <2>4 DEF Alone, PlanAlone
<1> QED
  BY <1>2, <1>3, <1>4, <1>5, <1>6, <1>7 DEF IInv, Apart

LEMMA CleanKeeps ==
  ASSUME IInv, NEW s \in Sessions, Clean(s)
  PROVE  IInv'
<1>1. /\ session[s] # None /\ session[s].op = "clean" /\ PlanOK(s)
      /\ session' = [session EXCEPT ![s] = None]
      /\ UNCHANGED <<row, att, counter, issued, lock, born, used, overlapped>>
  BY DEF Clean, tables, IInv
<1>2. disk' \subseteq disk /\ disk \ session[s].keys \subseteq disk'
  BY DEF Clean
<1>3. ASSUME NEW t \in Sessions \ {s}, session[t] # None, ~session[t].asks
      PROVE  session[t].add \subseteq disk'
  <2>1. PlanOK(t) /\ Apart(session[t], session[s])
    BY <1>1, <1>3 DEF IInv
  <2> QED
    BY <1>2, <1>3, <2>1 DEF PlanOK, Apart
<1>4. \A f \in Files : att[f] # None => f \in disk'
  BY <1>1, <1>2 DEF IInv, Storage, PlanOK
<1>5. lock' \in [Directions -> Sessions \cup {None}]
  BY <1>1 DEF IInv, TypeOK
<1> QED
  BY <1>1, <1>2, <1>3, <1>4, <1>5, LeavesPlans

LEMMA AbortKeeps ==
  ASSUME IInv, NEW s \in Sessions, Abort(s)
  PROVE  IInv'
<1>1. /\ session' = [session EXCEPT ![s] = None] /\ lock' = Released(s)
      /\ UNCHANGED <<row, att, counter, issued, disk, born, used, overlapped>>
  BY DEF Abort, tables
<1>2. lock' \in [Directions -> Sessions \cup {None}]
  BY <1>1 DEF Released, IInv, TypeOK
<1>3. \A t \in Sessions \ {s}, dir \in Directions : lock[dir] = t => lock'[dir] = t
  BY <1>1 DEF Released
<1>4. \A t \in Sessions \ {s} : session[t] # None =>
        (~session[t].asks => session[t].add \subseteq disk')
  BY <1>1 DEF IInv, PlanOK
<1>5. (\A f \in Files : att[f] # None => f \in disk') /\ disk' \subseteq disk
  BY <1>1 DEF IInv, Storage
<1> QED
  BY <1>1, <1>2, <1>3, <1>4, <1>5, LeavesPlans

-----------------------------------------------------------------------------
(* A handler commits *)

LEMMA Effects ==
  ASSUME IInv, NEW s \in Sessions, Commit(s), NEW p \in Plan, p = session[s]
  PROVE  /\ p.op # "clean" /\ ~p.asks /\ Accepted(p) /\ PlanOK(s)
         /\ p.doc \in Docs /\ p.snap \in Rows /\ p.tgt \in Rows
         /\ \A d \in Docs \ {p.doc} : row'[d] = row[d]
         /\ p.op = "create" => row'[p.doc] = p.tgt
         /\ p.op = "write" => row[p.doc] \in Rows /\ row'[p.doc] = Merge(row[p.doc], p)
         /\ p.op = "detach" => row'[p.doc] = row[p.doc]
         /\ p.op = "delete" => row'[p.doc] = None
         /\ \A f \in Files : att'[f] =
              IF f \in p.add THEN [doc |-> p.doc, kind |-> p.kind]
              ELSE IF f \in p.drop \/ (p.op = "delete" /\ f \in AttachedTo(p.doc)) THEN None
              ELSE att[f]
<1>1. p.op # "clean" /\ ~p.asks /\ Accepted(p) /\ PlanOK(s)
  BY NoneIsNoRecord DEF Commit, IInv
<1>2. p.doc \in Docs /\ p.snap \in Rows /\ p.tgt \in Rows
      /\ p.op \in {"create", "write", "detach", "delete", "clean"}
  BY DEF Plan
<1>3. row' = [row EXCEPT ![p.doc] =
         CASE p.op = "create" -> p.tgt
           [] p.op = "write" -> Merge(@, p)
           [] p.op = "detach" -> @
           [] p.op = "delete" -> None]
  BY DEF Commit
<1>4. /\ \A d \in Docs \ {p.doc} : row'[d] = row[d]
      /\ row'[p.doc] = CASE p.op = "create" -> p.tgt
                         [] p.op = "write" -> Merge(row[p.doc], p)
                         [] p.op = "detach" -> row[p.doc]
                         [] p.op = "delete" -> None
  BY <1>2, <1>3 DEF IInv, TypeOK
<1>5. p.op = "write" => row[p.doc] \in Rows
  BY <1>1, <1>2 DEF Accepted, IInv, TypeOK
<1>6. \A f \in Files : att'[f] =
        IF f \in p.add THEN [doc |-> p.doc, kind |-> p.kind]
        ELSE IF f \in p.drop \/ (p.op = "delete" /\ f \in AttachedTo(p.doc)) THEN None
        ELSE att[f]
  BY DEF Commit
<1> QED
  BY <1>1, <1>2, <1>4, <1>5, <1>6

\* A letter after the commit was there before, in the same register, unless the
\* commit creates it.
LEMMA RowsAfter ==
  ASSUME IInv, NEW s \in Sessions, Commit(s), NEW p \in Plan, p = session[s], NEW d \in Docs
  PROVE  /\ row'[d] \in Rows \cup {None}
         /\ row'[d] # None =>
              \/ row[d] # None /\ row'[d].dir = row[d].dir
              \/ d = p.doc /\ p.op = "create"
         /\ row'[d] # None /\ ~(d = p.doc /\ Numbered(p)) =>
              \/ row[d] # None /\ row'[d].no = row[d].no
              \/ row'[d].no = 0
         /\ row'[d] # None /\ d = p.doc /\ Numbered(p) =>
              row'[d].no = p.tgt.no /\ row'[d].dir = p.tgt.dir
<1>1. /\ p.snap \in Rows /\ p.tgt \in Rows /\ PlanOK(s)
      /\ \A e \in Docs \ {p.doc} : row'[e] = row[e]
      /\ p.op = "create" => row'[p.doc] = p.tgt
      /\ p.op = "write" => row[p.doc] \in Rows /\ row'[p.doc] = Merge(row[p.doc], p)
      /\ p.op = "detach" => row'[p.doc] = row[p.doc]
      /\ p.op = "delete" => row'[p.doc] = None
      /\ p.op \in {"create", "write", "detach", "delete"}
  BY Effects DEF Plan
<1>2. row[d] \in Rows \cup {None}
  BY DEF IInv, TypeOK
<1>3. /\ p.op = "create" => p.snap.no = 0
      /\ Numbered(p) => p.op \in {"create", "write"}
      /\ row[p.doc] # None => row[p.doc].dir = p.tgt.dir
  BY <1>1 DEF PlanOK
<1>4. ASSUME p.op = "write"
      PROVE  LET m == Merge(row[p.doc], p) IN
             /\ m \in Rows /\ m.dir = row[p.doc].dir
             /\ m.no = IF Numbered(p) THEN p.tgt.no ELSE row[p.doc].no
  BY <1>1, <1>4 DEF Merge, Changed, Rows, Numbered
<1>5. CASE d # p.doc
  BY <1>1, <1>2, <1>5
<1>6. CASE d = p.doc /\ p.op = "write"
  BY <1>1, <1>3, <1>4, <1>6, NoneIsNoRecord
<1>7. CASE d = p.doc /\ p.op # "write"
  BY <1>1, <1>2, <1>3, <1>7 DEF Numbered
<1> QED
  BY <1>5, <1>6, <1>7

\* The other letters keep their attachments.
LEMMA OthersAttached ==
  ASSUME IInv, NEW s \in Sessions, Commit(s), NEW p \in Plan, p = session[s],
         NEW d \in Docs, d # p.doc
  PROVE  AttachedTo(d)' = AttachedTo(d) /\ Scans(d)' = Scans(d)
<1>1. /\ \A f \in p.add : att[f] = None
      /\ \A f \in p.drop : att[f] # None => att[f].doc = p.doc
  BY Effects DEF PlanOK
<1>2. \A f \in Files : att'[f] =
        IF f \in p.add THEN [doc |-> p.doc, kind |-> p.kind]
        ELSE IF f \in p.drop \/ (p.op = "delete" /\ f \in AttachedTo(p.doc)) THEN None
        ELSE att[f]
  BY Effects
<1>3. \A f \in p.add : att'[f] # None /\ att'[f].doc = p.doc
  BY <1>2, NoneIsNoRecord DEF Plan, Attachments
<1>4. ASSUME NEW f \in Files
      PROVE  /\ att'[f] # None /\ att'[f].doc = d <=> att[f] # None /\ att[f].doc = d
             /\ att[f] # None /\ att[f].doc = d => att'[f] = att[f]
  <2>1. CASE f \in p.add
    BY <1>1, <1>3, <2>1
  <2>2. CASE f \notin p.add
    BY <1>1, <1>2, <2>2 DEF AttachedTo
  <2> QED
    BY <2>1, <2>2
<1> QED
  BY <1>4 DEF AttachedTo, Scans

\* The commit of a numbered plan gives the next number of its register.
LEMMA CommitRegister ==
  ASSUME IInv, NEW s \in Sessions, Commit(s)
  PROVE  RegisterHasNoGaps' /\ counter' \in [Directions -> 0..MaxNo]
         /\ issued' \subseteq Directions \X (0..MaxNo) \X Docs
<1>p. \E p \in Plan : p = session[s]
  BY DEF Commit, IInv, TypeOK
<1> PICK p \in Plan : p = session[s]
  BY <1>p
<1>1. /\ p.doc \in Docs /\ p.tgt.dir \in Directions /\ p.tgt.no \in 0..MaxNo
      /\ Numbered(p) => p.tgt.no = counter[p.tgt.dir] + 1
  BY Effects DEF PlanOK, Rows
<1>2. /\ counter' = IF Numbered(p) THEN [counter EXCEPT ![p.tgt.dir] = p.tgt.no] ELSE counter
      /\ issued' = IF Numbered(p) THEN issued \cup {<<p.tgt.dir, p.tgt.no, p.doc>>} ELSE issued
  BY DEF Commit
<1>3. /\ counter \in [Directions -> 0..MaxNo] /\ issued \subseteq Directions \X (0..MaxNo) \X Docs
      /\ \A dir \in Directions : Numbers(dir) = 1..counter[dir]
      /\ \A x, y \in issued : x[1] = y[1] /\ x[2] = y[2] => x[3] = y[3]
      /\ \A d \in Docs : row[d] # None /\ row[d].no # 0 => <<row[d].dir, row[d].no, d>> \in issued
  BY DEF IInv, TypeOK, RegisterHasNoGaps
<1>4. counter' \in [Directions -> 0..MaxNo] /\ issued' \subseteq Directions \X (0..MaxNo) \X Docs
  BY <1>1, <1>2, <1>3
<1>5. ASSUME NEW dir \in Directions
      PROVE  Numbers(dir)' = 1..counter'[dir]
  <2>1. CASE Numbered(p) /\ dir = p.tgt.dir
    <3>1. Numbers(dir)' = Numbers(dir) \cup {p.tgt.no}
      <4> DEFINE new == <<dir, p.tgt.no, p.doc>>
      <4>1. issued' = issued \cup {new} /\ new[1] = dir /\ new[2] = p.tgt.no
        BY <1>2, <2>1
      <4> HIDE DEF new
      <4>2. {y \in issued' : y[1] = dir} = {y \in issued : y[1] = dir} \cup {new}
        BY <4>1
      <4> QED
        BY <4>1, <4>2 DEF Numbers
    <3>2. counter'[dir] = counter[dir] + 1 /\ p.tgt.no = counter[dir] + 1 /\ counter[dir] \in Nat
      BY <1>1, <1>2, <1>3, <2>1
    <3>3. 1..(counter[dir] + 1) = (1..counter[dir]) \cup {counter[dir] + 1}
      BY <3>2
    <3> QED
      BY <1>3, <3>1, <3>2, <3>3
  <2>2. CASE ~(Numbered(p) /\ dir = p.tgt.dir)
    <3>1. Numbers(dir)' = Numbers(dir)
      BY <1>2, <2>2 DEF Numbers
    <3>2. counter'[dir] = counter[dir]
      BY <1>2, <1>3, <2>2
    <3> QED
      BY <1>3, <3>1, <3>2
  <2> QED
    BY <2>1, <2>2
<1>6. ASSUME NEW x \in issued', NEW y \in issued', x[1] = y[1], x[2] = y[2]
      PROVE  x[3] = y[3]
  <2>1. CASE ~Numbered(p)
    BY <1>2, <1>3, <1>6, <2>1
  <2>2. CASE Numbered(p)
    <3> DEFINE new == <<p.tgt.dir, p.tgt.no, p.doc>>
    <3>1. ASSUME NEW z \in issued, z[1] = p.tgt.dir, z[2] = p.tgt.no PROVE FALSE
      <4>1. p.tgt.no \in Numbers(p.tgt.dir)
        BY <3>1 DEF Numbers
      <4>2. p.tgt.no \in 1..counter[p.tgt.dir] /\ counter[p.tgt.dir] \in Nat
        BY <1>1, <1>3, <4>1
      <4> QED
        BY <1>1, <2>2, <4>2
    <3>2. new[1] = p.tgt.dir /\ new[2] = p.tgt.no /\ issued' = issued \cup {new}
      BY <1>2, <2>2
    <3>3. (x \in issued \/ x = new) /\ (y \in issued \/ y = new)
      BY <1>6, <3>2
    <3> HIDE DEF new
    <3> QED
      BY <1>3, <1>6, <3>1, <3>2, <3>3
  <2> QED
    BY <2>1, <2>2
<1>7. ASSUME NEW d \in Docs, row'[d] # None, row'[d].no # 0
      PROVE  <<row'[d].dir, row'[d].no, d>> \in issued'
  <2>1. CASE d = p.doc /\ Numbered(p)
    BY <1>2, <1>7, <2>1, RowsAfter
  <2>2. CASE ~(d = p.doc /\ Numbered(p))
    <3>1. row[d] # None /\ row'[d].no = row[d].no
      BY <1>7, <2>2, RowsAfter
    <3>2. row'[d].dir = row[d].dir
      <4>1. d = p.doc /\ p.op = "create" => row[d] = None
        BY Effects DEF PlanOK
      <4> QED
        BY <1>7, <3>1, <4>1, RowsAfter
    <3>3. issued \subseteq issued'
      BY <1>2
    <3> QED
      BY <1>3, <1>7, <3>1, <3>2, <3>3
  <2> QED
    BY <2>1, <2>2
<1>8. RegisterHasNoGaps'
  BY <1>5, <1>6, <1>7 DEF RegisterHasNoGaps
<1> QED
  BY <1>4, <1>8

\* What the committing handler leaves: nothing, or the files to remove.
LEMMA AfterCommit ==
  ASSUME IInv, NEW s \in Sessions, Commit(s), NEW p \in Plan, p = session[s]
  PROVE  /\ \A t \in Sessions \ {s} : session'[t] = session[t]
         /\ session'[s] # None =>
              LET c == session'[s] IN
              /\ p.op = "delete" /\ c \in Plan /\ c.op = "clean" /\ ~c.asks
              /\ c.doc = p.doc /\ c.snap = p.snap /\ c.tgt = p.tgt /\ c.add = p.add
              /\ c.kind = p.kind /\ c.drop = p.drop /\ c.keys = p.keys
         /\ session'[s] \in Plan \cup {None}
<1> DEFINE c == [p EXCEPT !.op = "clean"]
<1>1. session' = [session EXCEPT ![s] = IF p.op = "delete" THEN c ELSE None]
  BY DEF Commit
<1>2. /\ c \in Plan /\ c.op = "clean" /\ c.asks = p.asks
      /\ c.doc = p.doc /\ c.snap = p.snap /\ c.tgt = p.tgt /\ c.add = p.add
      /\ c.kind = p.kind /\ c.drop = p.drop /\ c.keys = p.keys
  BY DEF Plan
<1>3. ~p.asks
  BY Effects
<1> HIDE DEF c
<1>4. /\ \A t \in Sessions \ {s} : session'[t] = session[t]
      /\ session'[s] = IF p.op = "delete" THEN c ELSE None
  BY <1>1 DEF IInv, TypeOK
<1> QED
  BY <1>2, <1>3, <1>4

LEMMA CommitPlans ==
  ASSUME IInv, NEW s \in Sessions, Commit(s), NEW t \in Sessions, session'[t] # None
  PROVE  PlanOK(t)'
<1>p. \E p \in Plan : p = session[s]
  BY DEF Commit, IInv, TypeOK
<1> PICK p \in Plan : p = session[s]
  BY <1>p
<1>1. /\ PlanOK(s) /\ p.doc \in Docs
      /\ p.op = "delete" => row'[p.doc] = None
      /\ \A d \in Docs \ {p.doc} : row'[d] = row[d]
      /\ \A f \in Files : att'[f] =
           IF f \in p.add THEN [doc |-> p.doc, kind |-> p.kind]
           ELSE IF f \in p.drop \/ (p.op = "delete" /\ f \in AttachedTo(p.doc)) THEN None
           ELSE att[f]
  BY Effects
<1>2. disk' = disk /\ born' = born /\ used' = used
  BY DEF Commit
<1>3. lock' = Released(s)
      /\ counter' = IF Numbered(p) THEN [counter EXCEPT ![p.tgt.dir] = p.tgt.no] ELSE counter
  BY DEF Commit
<1>4. CASE t = s
  <2>c. \E c : c = session'[s]
    OBVIOUS
  <2> PICK c : c = session'[s]
    BY <2>c
  <2>1. /\ p.op = "delete" /\ c.op = "clean" /\ ~c.asks
        /\ c.doc = p.doc /\ c.snap = p.snap /\ c.tgt = p.tgt /\ c.add = p.add
        /\ c.drop = p.drop /\ c.keys = p.keys
    BY <1>4, AfterCommit
  <2>2. /\ p.add = {} /\ p.drop = {} /\ ~Numbered(p) /\ p.doc \in born /\ p.keys \subseteq used
        /\ p.tgt.dir = p.snap.dir
        /\ \A f \in p.keys : att[f] # None => att[f].doc = p.doc
    BY <1>1, <2>1 DEF PlanOK
  <2>3. \A f \in p.keys : att'[f] = None
    BY <1>1, <2>1, <2>2 DEF AttachedTo, Plan
  <2>4. ~Numbered(c) /\ c = session'[t]
    BY <1>4, <2>1, <2>2 DEF Numbered
  <2> QED
    BY <1>1, <1>2, <2>1, <2>2, <2>3, <2>4 DEF PlanOK, Numbered
<1>5. CASE t # s
  <2>q. \E q \in Plan : q = session[t]
    BY <1>5, AfterCommit DEF IInv, TypeOK
  <2> PICK q \in Plan : q = session[t]
    BY <2>q
  <2>1. session[t] # None /\ session'[t] = q /\ PlanOK(t) /\ q.doc \in Docs /\ q.tgt.dir \in Directions
    BY <1>5, AfterCommit DEF IInv, Plan, Rows
  <2>2. Apart(p, q) /\ Apart(q, p)
    BY <1>5, <2>1, NoneIsNoRecord DEF IInv
  <2>3. row'[q.doc] # None => row'[q.doc].dir = q.snap.dir
    BY <2>1, <2>2, RowsAfter DEF Apart, PlanOK
  <2>4. q.op = "create" => row'[q.doc] = None
    BY <1>1, <2>1, <2>2 DEF Apart, PlanOK
  <2>5. Numbered(q) => lock'[q.tgt.dir] = t /\ q.tgt.no = counter'[q.tgt.dir] + 1
    <3> SUFFICES ASSUME Numbered(q) PROVE lock'[q.tgt.dir] = t /\ q.tgt.no = counter'[q.tgt.dir] + 1
      OBVIOUS
    <3>1. lock[q.tgt.dir] = t /\ q.tgt.no = counter[q.tgt.dir] + 1
      BY <2>1 DEF PlanOK
    <3>2. Numbered(p) => p.tgt.dir # q.tgt.dir
      BY <1>1, <1>5, <3>1 DEF PlanOK
    <3>3. counter'[q.tgt.dir] = counter[q.tgt.dir]
      BY <1>3, <2>1, <3>2 DEF IInv, TypeOK
    <3> QED
      BY <1>3, <1>5, <2>1, <3>1, <3>3 DEF Released
  <2>6. ASSUME NEW f \in q.add \cup q.drop \cup q.keys
        PROVE  /\ att'[f] # None => att'[f] = att[f]
               /\ att[f] = None => att'[f] = None
    BY <1>1, <2>2 DEF Apart, Plan
  <2>7. /\ \A f \in q.add : att'[f] = None
        /\ \A f \in q.drop \cup q.keys : att'[f] # None => att'[f].doc = q.doc
        /\ q.op = "clean" => \A f \in q.keys : att'[f] = None
    BY <2>1, <2>6 DEF PlanOK
  <2> QED
    BY <1>2, <2>1, <2>3, <2>4, <2>5, <2>7 DEF PlanOK, Numbered
<1> QED
  BY <1>4, <1>5

LEMMA CommitApart ==
  ASSUME IInv, NEW s \in Sessions, Commit(s),
         NEW t \in Sessions, NEW u \in Sessions, t # u, session'[t] # None, session'[u] # None
  PROVE  Apart(session'[t], session'[u])
<1>p. \E p \in Plan : p = session[s]
  BY DEF Commit, IInv, TypeOK
<1> PICK p \in Plan : p = session[s]
  BY <1>p
<1>1. ASSUME NEW v \in Sessions, session'[v] # None
      PROVE  /\ session[v] # None
             /\ session'[v].add = session[v].add /\ session'[v].drop = session[v].drop
             /\ session'[v].keys = session[v].keys /\ session'[v].doc = session[v].doc
             /\ session'[v].op = "create" => session[v].op = "create"
  BY <1>1, AfterCommit, NoneIsNoRecord
<1>2. Apart(session[t], session[u])
  BY <1>1 DEF IInv
<1> QED
  BY <1>1, <1>2 DEF Apart

LEMMA CommitAlone ==
  ASSUME IInv, NEW s \in Sessions, Commit(s), ~overlapped
  PROVE  Alone'
<1>p. \E p \in Plan : p = session[s]
  BY DEF Commit, IInv, TypeOK
<1> PICK p \in Plan : p = session[s]
  BY <1>p
<1>1. Alone /\ PlanAlone(p) /\ PlanOK(s)
  BY Effects, NoneIsNoRecord DEF IInv, Alone
<1>2. \A t \in Sessions : session'[t] # None => t = s
  BY <1>1, AfterCommit, NoneIsNoRecord DEF Alone
<1>3. ASSUME session'[s] # None
      PROVE  PlanAlone(session[s])'
  <2>1. LET c == session'[s] IN
        c.op = "clean" /\ ~c.asks /\ c.snap = p.snap /\ c.tgt = p.tgt /\ p.op = "delete"
    BY <1>3, AfterCommit
  <2>2. ~Numbered(p)
    BY <1>1, <2>1 DEF PlanOK
  <2> QED
    BY <2>1, <2>2 DEF PlanAlone, Numbered
<1>4. ASSUME NEW d \in Docs, row'[d] # None
      PROVE  /\ row'[d].dir = "outgoing" /\ row'[d].status \in Unregistered => row'[d].no = 0
             /\ row'[d].dir = "incoming" => Scans(d)' # {}
  <2>1. /\ p.doc \in Docs /\ p.tgt \in Rows /\ p.snap \in Rows /\ ~p.asks
        /\ \A e \in Docs \ {p.doc} : row'[e] = row[e]
        /\ p.op = "create" => row'[p.doc] = p.tgt
        /\ p.op = "write" => row[p.doc] \in Rows /\ row'[p.doc] = Merge(row[p.doc], p)
        /\ p.op = "detach" => row'[p.doc] = row[p.doc]
        /\ p.op = "delete" => row'[p.doc] = None
        /\ p.op \in {"create", "write", "detach", "delete"}
    BY Effects DEF Plan
  <2>2. \A f \in Files : att'[f] =
          IF f \in p.add THEN [doc |-> p.doc, kind |-> p.kind]
          ELSE IF f \in p.drop \/ (p.op = "delete" /\ f \in AttachedTo(p.doc)) THEN None
          ELSE att[f]
    BY Effects
  <2>3. CASE d # p.doc
    BY <1>1, <1>4, <2>1, <2>3, OthersAttached DEF Alone, LettersAlone
  <2>4. CASE d = p.doc /\ p.op = "create"
    <3>1. ASSUME NEW f \in p.add
          PROVE  f \in Files /\ att'[f] # None /\ att'[f].doc = d /\ att'[f].kind = p.kind
      BY <2>2, <2>4, NoneIsNoRecord DEF Plan, Attachments
    <3>2. p.tgt.dir = "incoming" => p.add # {} /\ p.kind = "scan"
      BY <1>1, <2>4 DEF PlanAlone
    <3>3. p.tgt.dir = "incoming" => Scans(d)' # {}
      BY <3>1, <3>2 DEF Scans, AttachedTo
    <3>4. p.tgt.dir = "outgoing" /\ p.tgt.status \in Unregistered => p.tgt.no = 0
      BY <1>1, <2>4 DEF PlanAlone
    <3> QED
      BY <2>1, <2>4, <3>3, <3>4
  <2>5. CASE d = p.doc /\ p.op = "write"
    <3>1. row[d] = p.snap /\ row[d] # None
      BY <1>1, <2>1, <2>5, NoneIsNoRecord DEF PlanAlone
    <3>2. row'[d].dir = row[d].dir /\ row'[d].status = p.tgt.status /\ row'[d].no = p.tgt.no
      BY <2>1, <2>5, <3>1 DEF Merge, Changed
    <3>3. p.tgt.dir = row[d].dir
      BY <1>1, <3>1 DEF PlanOK
    <3>4. p.tgt.dir = "outgoing" /\ p.tgt.status \in Unregistered => p.tgt.no = 0
      BY <1>1, <2>5 DEF PlanAlone
    <3>5. \A f \in Files : att[f] # None => att'[f] = att[f]
      BY <1>1, <2>2, <2>5 DEF PlanOK
    <3>6. row[d].dir = "incoming" => Scans(d)' # {}
      BY <1>1, <3>1, <3>5 DEF Alone, LettersAlone, Scans, AttachedTo
    <3> QED
      BY <3>2, <3>3, <3>4, <3>6
  <2>6. CASE d = p.doc /\ p.op = "detach"
    <3>1. row[d] = p.snap /\ row'[d] = row[d]
      BY <1>1, <2>1, <2>6 DEF PlanAlone
    <3>2. ASSUME row[d].dir = "incoming"
          PROVE  Scans(d)' # {}
      <4>1. PICK g \in Scans(d) : g \notin p.drop
        BY <1>1, <2>6, <3>1, <3>2 DEF PlanAlone
      <4>2. g \in Files /\ att[g] # None /\ att[g].doc = d /\ att[g].kind = "scan"
        BY DEF Scans, AttachedTo
      <4>3. att'[g] = att[g]
        BY <1>1, <2>2, <2>6, <4>1, <4>2 DEF PlanOK
      <4> QED
        BY <4>2, <4>3 DEF Scans, AttachedTo
    <3> QED
      BY <1>1, <1>4, <3>1, <3>2 DEF Alone, LettersAlone
  <2>7. CASE d = p.doc /\ p.op = "delete"
    BY <1>4, <2>1, <2>7
  <2> QED
    BY <2>1, <2>3, <2>4, <2>5, <2>6, <2>7
<1>5. LettersAlone'
  BY <1>4 DEF LettersAlone
<1> QED
  BY <1>2, <1>3, <1>5 DEF Alone, PlanAlone

LEMMA CommitKeeps ==
  ASSUME IInv, NEW s \in Sessions, Commit(s)
  PROVE  IInv'
<1>p. \E p \in Plan : p = session[s]
  BY DEF Commit, IInv, TypeOK
<1> PICK p \in Plan : p = session[s]
  BY <1>p
<1>1. /\ p.add \subseteq disk /\ p.doc \in born /\ p.doc \in Docs
      /\ \A f \in Files : att'[f] =
           IF f \in p.add THEN [doc |-> p.doc, kind |-> p.kind]
           ELSE IF f \in p.drop \/ (p.op = "delete" /\ f \in AttachedTo(p.doc)) THEN None
           ELSE att[f]
  BY Effects DEF PlanOK
<1>2. /\ disk' = disk /\ born' = born /\ used' = used /\ overlapped' = overlapped
      /\ lock' = Released(s)
  BY DEF Commit
<1>3. TypeOK'
  <2>1. row' \in [Docs -> Rows \cup {None}]
    <3>1. \A d \in Docs : row'[d] \in Rows \cup {None}
      BY RowsAfter
    <3>2. row' = [d \in Docs |-> row'[d]]
      <4>1. \E e : row' = [row EXCEPT ![p.doc] = e]
        BY DEF Commit
      <4> QED
        BY <4>1 DEF IInv, TypeOK
    <3> QED
      BY <3>1, <3>2
  <2>2. att' \in [Files -> Attachments \cup {None}]
    <3>1. \A f \in Files : att'[f] \in Attachments \cup {None}
      BY <1>1 DEF IInv, TypeOK, Attachments, Plan
    <3>2. att' = [f \in Files |-> att'[f]]
      BY DEF Commit
    <3> QED
      BY <3>1, <3>2
  <2>3. session' \in [Sessions -> Plan \cup {None}]
    <3>1. \A t \in Sessions : session'[t] \in Plan \cup {None}
      BY AfterCommit DEF IInv, TypeOK
    <3>2. session' = [t \in Sessions |-> session'[t]]
      BY DEF Commit, IInv, TypeOK
    <3> QED
      BY <3>1, <3>2
  <2>4. lock' \in [Directions -> Sessions \cup {None}]
    BY <1>2 DEF Released, IInv, TypeOK
  <2> QED
    BY <1>2, <2>1, <2>2, <2>3, <2>4, CommitRegister DEF IInv, TypeOK
<1>4. Storage'
  <2>1. \A d \in Docs : row'[d] # None => d \in born
    BY <1>1, RowsAfter DEF IInv, Storage
  <2>2. \A f \in Files : att'[f] # None => f \in disk
    BY <1>1 DEF IInv, Storage
  <2> QED
    BY <1>2, <2>1, <2>2 DEF IInv, Storage
<1>5. ~overlapped' => Alone'
  BY <1>2, CommitAlone
<1> QED
  BY <1>3, <1>4, <1>5, CommitRegister, CommitPlans, CommitApart DEF IInv, Apart

-----------------------------------------------------------------------------
(* The theorems *)

LEMMA StutterKeeps ==
  ASSUME IInv, UNCHANGED vars
  PROVE  IInv'
<1>1. UNCHANGED <<row, att, counter, lock, disk, born, used, session, issued, overlapped>>
  BY DEF vars
<1>2. RegisterHasNoGaps'
  BY <1>1 DEF IInv, RegisterHasNoGaps, Numbers
<1>3. \A s \in Sessions : session'[s] # None => PlanOK(s)'
  BY <1>1 DEF IInv, PlanOK, Numbered
<1>4. ~overlapped' => Alone'
  BY <1>1 DEF IInv, Alone, LettersAlone, PlanAlone, Scans, AttachedTo, Numbered
<1> QED
  BY <1>1, <1>2, <1>3, <1>4 DEF IInv, TypeOK, Storage, Apart

LEMMA NextIInv == IInv /\ [Next]_vars => IInv'
<1> SUFFICES ASSUME IInv, [Next]_vars PROVE IInv'
  OBVIOUS
<1>1. CASE Next
  <2> PICK s \in Sessions :
        \/ \E u \in Users : Creates(s, u) \/ Handles(s, u)
        \/ TakeNumber(s) \/ Commit(s) \/ Clean(s) \/ Abort(s)
    BY <1>1 DEF Next
  <2>1. CASE \E u \in Users : Creates(s, u) \/ Handles(s, u)
    BY <2>1, CreatesBegin, HandlesBegin, BegunKeeps
  <2>2. CASE TakeNumber(s)
    BY <2>2, TakeNumberKeeps
  <2>3. CASE Commit(s)
    BY <2>3, CommitKeeps
  <2>4. CASE Clean(s)
    BY <2>4, CleanKeeps
  <2>5. CASE Abort(s)
    BY <2>5, AbortKeeps
  <2> QED
    BY <2>1, <2>2, <2>3, <2>4, <2>5
<1>2. CASE UNCHANGED vars
  BY <1>2, StutterKeeps
<1> QED
  BY <1>1, <1>2

\* The invariant holds in every reachable state.
THEOREM Inductive == Spec => []IInv
<1> QED
  BY InitIInv, NextIInv, PTL DEF Spec

\* The numbers of a register run from one to its counter, none is given twice and
\* letters bear what they were given, for any number of handlers, in any order,
\* failing or killed anywhere.
THEOREM RegisterWithoutGaps == Spec => []RegisterHasNoGaps
<1>1. IInv => RegisterHasNoGaps
  BY DEF IInv
<1> QED
  BY <1>1, Inductive, PTL

\* An attachment has its file, whatever overlaps or fails; an incoming letter has a
\* scan, as long as no handlers overlapped.
THEOREM FilesAreKept == Spec => []ScansAreThere
<1>1. IInv => ScansAreThere
  BY DEF IInv, Storage, Alone, LettersAlone, ScansAreThere
<1> QED
  BY <1>1, Inductive, PTL

\* As long as no handlers overlapped, a letter keeps its number, and an archived
\* one rests.
THEOREM NumberIsKept == Spec => RegisteredIsKept
<1> DEFINE Kept == ~overlapped' => \A d \in Docs : row[d] # None /\ row'[d] # None =>
                     /\ row[d].no # 0 => row'[d].no = row[d].no
                     /\ row[d].archived => row'[d] = row[d] /\ AttachedTo(d)' = AttachedTo(d)
<1>1. ASSUME IInv, row' = row, att' = att PROVE Kept
  BY <1>1 DEF AttachedTo
<1>2. ASSUME IInv, NEW s \in Sessions, Commit(s), ~overlapped',
             NEW d \in Docs, row[d] # None, row'[d] # None
      PROVE  /\ row[d].no # 0 => row'[d].no = row[d].no
             /\ row[d].archived => row'[d] = row[d] /\ AttachedTo(d)' = AttachedTo(d)
  <2>p. \E p \in Plan : p = session[s]
    BY <1>2 DEF Commit, IInv, TypeOK
  <2> PICK p \in Plan : p = session[s]
    BY <2>p
  <2>1. Alone /\ PlanAlone(p) /\ PlanOK(s)
    BY <1>2, Effects, NoneIsNoRecord DEF IInv, Alone, Commit
  <2>2. CASE d # p.doc
    BY <1>2, <2>2, Effects, OthersAttached
  <2>3. CASE d = p.doc
    <3>1. p.op \in {"write", "detach"} /\ (p.op = "detach" => row'[d] = row[d])
      BY <1>2, <2>1, <2>3, Effects DEF PlanOK, Plan
    <3>2. row[d] = p.snap /\ ~row[d].archived
      BY <2>1, <2>3, <3>1 DEF PlanAlone
    <3>3. p.op = "write" => row'[d] = Merge(row[d], p)
      BY <1>2, <2>3, Effects
    <3>4. p.op = "write" => row'[d].no = p.tgt.no /\ (Numbered(p) => row[d].no = 0)
      BY <2>1, <3>2, <3>3 DEF Merge, Changed, PlanAlone
    <3> QED
      BY <3>1, <3>2, <3>4 DEF Numbered
  <2> QED
    BY <2>2, <2>3
<1>3. ASSUME IInv, NEW s \in Sessions, Begun(s) PROVE row' = row /\ att' = att
  BY <1>3 DEF Begun, Begin, tables
<1>4. IInv /\ [Next]_vars => Kept
  <2> SUFFICES ASSUME IInv, [Next]_vars PROVE Kept
    OBVIOUS
  <2>1. CASE \E s \in Sessions : Commit(s)
    BY <1>2, <2>1
  <2>2. CASE UNCHANGED vars
    BY <1>1, <2>2 DEF vars
  <2>3. CASE \E s \in Sessions : \E u \in Users : Creates(s, u) \/ Handles(s, u)
    BY <1>1, <1>3, <2>3, CreatesBegin, HandlesBegin
  <2>4. CASE \E s \in Sessions : TakeNumber(s) \/ Clean(s) \/ Abort(s)
    BY <1>1, <2>4 DEF TakeNumber, Clean, Abort, tables
  <2> HIDE DEF Kept
  <2> QED
    BY <2>1, <2>2, <2>3, <2>4 DEF Next
<1>5. IInv /\ [Next]_vars => [Kept]_vars
  BY <1>4
<1> HIDE DEF Kept
<1>6. [][Kept]_vars => RegisteredIsKept
  BY PTL DEF Kept, RegisteredIsKept
<1> QED
  BY <1>5, <1>6, Inductive, PTL DEF Spec
=============================================================================
