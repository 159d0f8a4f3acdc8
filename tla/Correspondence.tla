---------------------------- MODULE Correspondence ----------------------------
(***************************************************************************)
(* Registers of incoming and outgoing letters, one year of each.           *)
(*                                                                         *)
(* A handler loads its letter without a lock, checks it and plans on what  *)
(* it loaded; Commit applies the plan, column by column.  Only the counter *)
(* of the register is locked: whoever registers a letter holds it from     *)
(* TakeNumber to the commit.  Files are written before the rows that name  *)
(* them are committed, and removed after the commit that deleted those.    *)
(* The year has had its first numbers, so the rows of the counters exist.  *)
(***************************************************************************)
EXTENDS Integers, FiniteSets

CONSTANTS
  Docs,      \* ids of letters
  Files,     \* ids of attachments, each with its file
  Users, Partners, Managers,
  MaxNo,     \* bound on the numbers taken in a register
  Sessions,
  None

ASSUME CorrespondenceAssumption ==
  /\ Partners \subseteq Users /\ Managers \subseteq Users
  /\ None \notin Users /\ None \notin Sessions
  /\ MaxNo \in Nat
  /\ IsFiniteSet(Files)

VARIABLES
  row,     \* letters
  att,     \* rows of attachments
  counter, \* last number of each register
  lock,    \* who has locked the counter
  disk,    \* files written and not removed
  born,    \* ids of letters handed out, also those deleted
  used,    \* ids of attachments handed out, also those deleted
  session, \* what each running handler is about to commit
  \* history, read by no handler
  issued,     \* numbers committed: register, number, letter
  overlapped  \* two handlers have run at the same time

tables == <<row, att, counter, issued>>
vars == <<row, att, counter, lock, disk, born, used, session, issued, overlapped>>

Directions == {"incoming", "outgoing"}
Unregistered == {"draft", "pending_review", "rejected"}
Statuses == Unregistered \cup {"new", "received", "progress", "approval", "awaiting_signature", "done"}
ReviewEditable == {"draft", "rejected"}
Kinds == {"scan", "attachment", "signed"}

\* A letter; no = 0 stands for no number yet.
Rows == [dir: Directions, status: Statuses, no: 0..MaxNo, partner: Partners \cup {None},
         resp: Users, archived: BOOLEAN]
Attachments == [doc: Docs, kind: Kinds]

\* What a handler will commit.  op: what is done to the letter (detach: nothing);
\* snap and tgt: the letter as loaded and as wanted; asks: a number is still to be
\* taken; add, kind: attachments to insert; drop: one to delete; keys: files to
\* remove once the letter is deleted.
Plan == [op: {"create", "write", "detach", "delete", "clean"}, doc: Docs,
         snap: Rows, tgt: Rows, asks: BOOLEAN,
         add: SUBSET Files, kind: Kinds, drop: SUBSET Files, keys: SUBSET Files]

ASSUME NoneIsNoRecord == None \notin Rows /\ None \notin Attachments /\ None \notin Plan

TypeOK ==
  /\ row \in [Docs -> Rows \cup {None}]
  /\ att \in [Files -> Attachments \cup {None}]
  /\ counter \in [Directions -> 0..MaxNo]
  /\ lock \in [Directions -> Sessions \cup {None}]
  /\ disk \subseteq Files
  /\ born \subseteq Docs
  /\ used \subseteq Files
  /\ session \in [Sessions -> Plan \cup {None}]
  /\ issued \subseteq Directions \X (0..MaxNo) \X Docs
  /\ overlapped \in BOOLEAN

Init ==
  /\ row = [d \in Docs |-> None]
  /\ att = [f \in Files |-> None]
  /\ counter = [dir \in Directions |-> 0]
  /\ lock = [dir \in Directions |-> None]
  /\ disk = {} /\ born = {} /\ used = {}
  /\ session = [s \in Sessions |-> None]
  /\ issued = {}
  /\ overlapped = FALSE

-----------------------------------------------------------------------------
(* What handlers read *)

AttachedTo(d) == {f \in Files : att[f] # None /\ att[f].doc = d}
Scans(d) == {f \in AttachedTo(d) : att[f].kind = "scan"}

\* The author of a letter under preparation, or whoever manages the register.
AuthorOrManager(u, d) == row[d].resp = u \/ u \in Managers
Assigned(u, d) == row[d].partner = u /\ u \in Partners

\* _assert_not_archived, after the letter was found.
Open(d) == row[d] # None /\ ~row[d].archived
OpenOutgoing(d) == Open(d) /\ row[d].dir = "outgoing"
MayAttach(u, d) ==
  row[d].dir = "outgoing" /\ row[d].status \in ReviewEditable => AuthorOrManager(u, d)

-----------------------------------------------------------------------------
(* Planning, numbering and committing *)

Begin(s, p) ==
  /\ session[s] = None
  /\ session' = [session EXCEPT ![s] = p]
  /\ overlapped' = (overlapped \/ \E t \in Sessions : session[t] # None)
  /\ UNCHANGED <<tables, lock>>

Changing(d, tgt) ==
  [op |-> "write", doc |-> d, snap |-> row[d], tgt |-> tgt, asks |-> FALSE,
   add |-> {}, kind |-> "attachment", drop |-> {}, keys |-> {}]

\* A handler that writes the letter and no attachment.
Change(s, d, tgt) == Begin(s, Changing(d, tgt)) /\ UNCHANGED <<disk, born, used>>

\* A new letter with attachments.  One that is registered at once takes its
\* number before it saves the files.
Insert(s, new, registers, F, kind) ==
  \E d \in Docs \ born :
    /\ F \cap used = {}
    /\ Begin(s, [Changing(d, new) EXCEPT !.op = "create", !.snap = new, !.asks = registers,
                                         !.add = F, !.kind = kind])
    /\ born' = born \cup {d} /\ used' = used \cup F
    /\ disk' = IF registers THEN disk ELSE disk \cup F

Numbered(p) == p.tgt.no # p.snap.no

\* Mutant: the counter is read without FOR UPDATE.
TakeNumberUnlocked(s) ==
  LET p == session[s]
      dir == p.tgt.dir
  IN
  /\ p # None /\ p.asks
  /\ counter[dir] < MaxNo
  /\ session' = [session EXCEPT ![s] = [p EXCEPT !.asks = FALSE, !.tgt.no = counter[dir] + 1]]
  /\ disk' = disk \cup p.add
  /\ UNCHANGED <<tables, lock, born, used, overlapped>>

\* next_registry_number, SELECT ... FOR UPDATE on the counter: others wait until
\* the transaction ends.
TakeNumber(s) ==
  LET p == session[s]
      dir == p.tgt.dir
  IN
  /\ p # None /\ p.asks
  /\ lock[dir] = None /\ counter[dir] < MaxNo
  /\ lock' = [lock EXCEPT ![dir] = s]
  /\ session' = [session EXCEPT ![s] = [p EXCEPT !.asks = FALSE, !.tgt.no = counter[dir] + 1]]
  /\ disk' = disk \cup p.add
  /\ UNCHANGED <<tables, born, used, overlapped>>

Released(s) == [dir \in Directions |-> IF lock[dir] = s THEN None ELSE lock[dir]]

Changed(cur, snap, tgt) == IF tgt = snap THEN cur ELSE tgt
Merge(cur, p) ==
  [dir |-> cur.dir,
   status |-> Changed(cur.status, p.snap.status, p.tgt.status),
   no |-> Changed(cur.no, p.snap.no, p.tgt.no),
   partner |-> Changed(cur.partner, p.snap.partner, p.tgt.partner),
   resp |-> Changed(cur.resp, p.snap.resp, p.tgt.resp),
   archived |-> Changed(cur.archived, p.snap.archived, p.tgt.archived)]

\* A letter that is written must still be there, and the foreign key of an
\* attachment asks for it, too.  Registry numbers are unique.
Accepted(p) ==
  /\ p.op = "write" => row[p.doc] # None
  /\ Numbered(p) =>
       \A d \in Docs \ {p.doc} : row[d] # None => row[d].dir # p.tgt.dir \/ row[d].no # p.tgt.no

Commit(s) ==
  LET p == session[s] IN
  /\ p # None /\ p.op # "clean" /\ ~p.asks
  /\ Accepted(p)
  /\ row' = [row EXCEPT ![p.doc] =
       CASE p.op = "create" -> p.tgt
         [] p.op = "write" -> Merge(@, p)
         [] p.op = "detach" -> @
         [] p.op = "delete" -> None]
  /\ att' = [f \in Files |->
       IF f \in p.add THEN [doc |-> p.doc, kind |-> p.kind]
       ELSE IF f \in p.drop \/ (p.op = "delete" /\ f \in AttachedTo(p.doc)) THEN None
       ELSE att[f]]
  /\ counter' = IF Numbered(p) THEN [counter EXCEPT ![p.tgt.dir] = p.tgt.no] ELSE counter
  /\ issued' = IF Numbered(p) THEN issued \cup {<<p.tgt.dir, p.tgt.no, p.doc>>} ELSE issued
  /\ lock' = Released(s)
  /\ session' = [session EXCEPT ![s] = IF p.op = "delete" THEN [p EXCEPT !.op = "clean"] ELSE None]
  /\ UNCHANGED <<disk, born, used, overlapped>>

\* delete_correspondence_storage: the files the handler saw when it began, but for
\* those that cannot be removed.
Clean(s) ==
  /\ session[s] # None /\ session[s].op = "clean"
  /\ \E removed \in SUBSET session[s].keys : disk' = disk \ removed
  /\ session' = [session EXCEPT ![s] = None]
  /\ UNCHANGED <<tables, lock, born, used, overlapped>>

\* The handler fails, or its process does: the transaction is rolled back, what
\* it wrote to the disk stays.
Abort(s) ==
  /\ session[s] # None
  /\ session' = [session EXCEPT ![s] = None]
  /\ lock' = Released(s)
  /\ UNCHANGED <<tables, disk, born, used, overlapped>>

-----------------------------------------------------------------------------
(* The handlers, each up to its commit *)

Letter(dir, status, u, p) ==
  [dir |-> dir, status |-> status, no |-> 0, partner |-> p, resp |-> u, archived |-> FALSE]

RegisterIncoming(s, u, p, F) ==
  F # {} /\ Insert(s, Letter("incoming", "new", u, p), TRUE, F, "scan")

RegisterOutgoing(s, u, F) ==
  Insert(s, Letter("outgoing", "progress", u, None), TRUE, F, "attachment")

CreateDraft(s, u, p, F) ==
  Insert(s, Letter("outgoing", "draft", u, p), FALSE, F, "attachment")

\* Mutant: a registered letter may be sent to be reviewed again.
SubmitAgain(s, u, d, p) ==
  /\ OpenOutgoing(d) /\ AuthorOrManager(u, d)
  /\ row[d].status \in ReviewEditable \cup {"awaiting_signature"}
  /\ Change(s, d, [row[d] EXCEPT !.status = "pending_review", !.partner = p])

SubmitForReview(s, u, d, p) ==
  /\ OpenOutgoing(d) /\ AuthorOrManager(u, d)
  /\ row[d].status \in ReviewEditable
  /\ Change(s, d, [row[d] EXCEPT !.status = "pending_review", !.partner = p])

\* The partner's approval takes the number of the letter.
Approve(s, u, d) ==
  /\ OpenOutgoing(d) /\ row[d].status = "pending_review" /\ Assigned(u, d)
  /\ Begin(s, [Changing(d, [row[d] EXCEPT !.status = "awaiting_signature"]) EXCEPT !.asks = TRUE])
  /\ UNCHANGED <<disk, born, used>>

Reject(s, u, d) ==
  /\ OpenOutgoing(d) /\ row[d].status = "pending_review" /\ Assigned(u, d)
  /\ Change(s, d, [row[d] EXCEPT !.status = "rejected"])

Acknowledge(s, u, d) ==
  /\ Open(d) /\ row[d].dir = "incoming" /\ Assigned(u, d)
  /\ row[d].status \in {"new", "progress"}
  /\ Change(s, d, [row[d] EXCEPT !.status = "received"])

\* patch_correspondence: managers set some statuses, the responsible user and the
\* partner; the author sets the partner of a letter under preparation.
Patch(s, u, d, status, resp, partner) ==
  /\ Open(d)
  /\ status # row[d].status => status \in {"new", "progress", "approval", "done"}
  /\ partner # row[d].partner => partner \in Partners
  /\ \/ u \in Managers
     \/ /\ row[d].dir = "outgoing" /\ row[d].status \in ReviewEditable /\ row[d].resp = u
        /\ status = row[d].status /\ resp = row[d].resp
  /\ Change(s, d, [row[d] EXCEPT !.status = status, !.resp = resp, !.partner = partner])

Archive(s, u, d) ==
  /\ Open(d) /\ u \in Managers
  /\ Change(s, d, [row[d] EXCEPT !.archived = TRUE])

\* Mutant: the files go before the rows do.
DeleteFilesFirst(s, u, d) ==
  /\ row[d] # None /\ u \in Managers
  /\ Begin(s, [Changing(d, row[d]) EXCEPT !.op = "delete"])
  /\ disk' = disk \ AttachedTo(d)
  /\ UNCHANGED <<born, used>>

\* An archived letter may be deleted, too.
Delete(s, u, d) ==
  /\ row[d] # None /\ u \in Managers
  /\ Begin(s, [Changing(d, row[d]) EXCEPT !.op = "delete", !.keys = AttachedTo(d)])
  /\ UNCHANGED <<disk, born, used>>

\* One file, or an office document with the PDF that is stored beside it.  The
\* signed scan of a letter ends the wait for it.
Upload(s, u, d, F, kind) ==
  LET signs == kind = "signed" IN
  /\ Open(d) /\ MayAttach(u, d)
  /\ Cardinality(F) \in 1..2 /\ F \cap used = {}
  /\ signs => /\ row[d].dir = "outgoing" /\ row[d].status = "awaiting_signature"
              /\ AuthorOrManager(u, d)
              /\ Cardinality(F) = 1
  /\ Begin(s, [Changing(d, IF signs THEN [row[d] EXCEPT !.status = "done"] ELSE row[d])
                 EXCEPT !.add = F, !.kind = kind])
  /\ disk' = disk \cup F
  /\ used' = used \cup F
  /\ UNCHANGED born

\* The row goes, the file stays; the last scan of an incoming letter does not.
DeleteAttachment(s, u, f) ==
  LET d == att[f].doc IN
  /\ att[f] # None
  /\ Open(d) /\ MayAttach(u, d)
  /\ row[d].dir = "incoming" /\ att[f].kind = "scan" => Cardinality(Scans(d)) > 1
  /\ Begin(s, [Changing(d, row[d]) EXCEPT !.op = "detach", !.drop = {f}])
  /\ UNCHANGED <<disk, born, used>>

-----------------------------------------------------------------------------

Creates(s, u) ==
  \E F \in SUBSET Files :
    \/ \E p \in Partners : RegisterIncoming(s, u, p, F)
    \/ RegisterOutgoing(s, u, F)
    \/ \E p \in Partners \cup {None} : CreateDraft(s, u, p, F)

Handles(s, u) ==
  \/ \E d \in Docs :
       \/ \E p \in Partners : SubmitForReview(s, u, d, p)
       \/ Approve(s, u, d) \/ Reject(s, u, d) \/ Acknowledge(s, u, d)
       \/ \E status \in Statuses, resp \in Users, partner \in Partners \cup {None} :
            Patch(s, u, d, status, resp, partner)
       \/ Archive(s, u, d) \/ Delete(s, u, d)
       \/ \E F \in SUBSET Files, kind \in Kinds : Upload(s, u, d, F, kind)
  \/ \E f \in Files : DeleteAttachment(s, u, f)

Next ==
  \E s \in Sessions :
    \/ \E u \in Users : Creates(s, u) \/ Handles(s, u)
    \/ TakeNumber(s) \/ Commit(s) \/ Clean(s) \/ Abort(s)

Spec == Init /\ [][Next]_vars

-----------------------------------------------------------------------------
(* Properties *)

Numbers(dir) == {x[2] : x \in {y \in issued : y[1] = dir}}

\* Whatever overlaps, fails or is rolled back, the numbers given in a register
\* run from one to its counter without a gap, none was given twice, and a letter
\* bears one that it was given.
RegisterHasNoGaps ==
  /\ \A dir \in Directions : Numbers(dir) = 1..counter[dir]
  /\ \A x, y \in issued : x[1] = y[1] /\ x[2] = y[2] => x[3] = y[3]
  /\ \A d \in Docs : row[d] # None /\ row[d].no # 0 => <<row[d].dir, row[d].no, d>> \in issued

\* Whatever overlaps or fails, an attachment has its file; and as long as no
\* handlers overlapped, an incoming letter has a scan.
ScansAreThere ==
  /\ \A f \in Files : att[f] # None => f \in disk
  /\ ~overlapped => \A d \in Docs :
       row[d] # None /\ row[d].dir = "incoming" => Scans(d) # {}

\* As long as no handlers overlapped, a letter keeps its number, and nothing of
\* an archived letter changes until it is deleted.
RegisteredIsKept ==
  [][~overlapped' => \A d \in Docs : row[d] # None /\ row'[d] # None =>
       /\ row[d].no # 0 => row'[d].no = row[d].no
       /\ row[d].archived => row'[d] = row[d] /\ AttachedTo(d)' = AttachedTo(d)]_vars

-----------------------------------------------------------------------------
(* The inductive invariant *)

Storage ==
  /\ disk \subseteq used
  /\ \A f \in Files : att[f] # None => f \in disk
  /\ \A d \in Docs : row[d] # None => d \in born

\* What a plan promises until it is committed: its number is the next of the
\* register it has locked, its files are new and, once it asks for no number, on
\* the disk; what it drops or removes belongs to its letter.
PlanOK(s) ==
  LET p == session[s] IN
  /\ p.doc \in born /\ p.tgt.dir = p.snap.dir
  /\ row[p.doc] # None => row[p.doc].dir = p.snap.dir
  /\ p.op = "create" => row[p.doc] = None /\ p.snap.no = 0
  /\ p.asks => ~Numbered(p)
  /\ p.asks \/ Numbered(p) => p.op \in {"create", "write"}
  /\ Numbered(p) => lock[p.tgt.dir] = s /\ p.tgt.no = counter[p.tgt.dir] + 1
  /\ p.add \subseteq used /\ (~p.asks => p.add \subseteq disk)
  /\ \A f \in p.add : att[f] = None
  /\ p.add # {} => p.op \in {"create", "write"}
  /\ p.drop \cup p.keys \subseteq used
  /\ \A f \in p.drop \cup p.keys : att[f] # None => att[f].doc = p.doc
  /\ p.op = "clean" => \A f \in p.keys : att[f] = None
  /\ p.drop # {} => p.op = "detach"

\* The files of one plan are none of the other's; a letter that is created is its own.
Apart(p, q) ==
  /\ p.add \cap (q.add \cup q.drop \cup q.keys) = {}
  /\ p.op = "create" => q.doc # p.doc

\* What a plan promises when no handler has overlapped another.
PlanAlone(p) ==
  /\ p.op \in {"write", "detach", "delete"} => row[p.doc] = p.snap
  /\ p.op \in {"write", "detach"} => ~p.snap.archived
  /\ p.op \in {"create", "write"} /\ p.tgt.dir = "outgoing" /\ p.tgt.status \in Unregistered =>
       p.tgt.no = 0 /\ ~p.asks
  /\ p.asks \/ Numbered(p) => p.snap.no = 0
  /\ p.op = "create" /\ p.tgt.dir = "incoming" => p.add # {} /\ p.kind = "scan"
  /\ p.op = "detach" /\ p.snap.dir = "incoming" => \E g \in Scans(p.doc) : g \notin p.drop

LettersAlone ==
  \A d \in Docs : row[d] # None =>
    /\ row[d].dir = "outgoing" /\ row[d].status \in Unregistered => row[d].no = 0
    /\ row[d].dir = "incoming" => Scans(d) # {}

Alone ==
  /\ \A s, t \in Sessions : session[s] # None /\ session[t] # None => s = t
  /\ LettersAlone
  /\ \A s \in Sessions : session[s] # None => PlanAlone(session[s])

IInv ==
  /\ TypeOK
  /\ RegisterHasNoGaps
  /\ Storage
  /\ \A s \in Sessions : session[s] # None => PlanOK(s)
  /\ \A s, t \in Sessions : s # t /\ session[s] # None /\ session[t] # None =>
       Apart(session[s], session[t])
  /\ ~overlapped => Alone

=============================================================================
