------------------------ MODULE PartnerConfirmations ------------------------
(***************************************************************************)
(* Reports of one project that its partners confirm, and the time entries  *)
(* that may be billed once they have.                                      *)
(*                                                                         *)
(* A request to confirm collects signatures.  Whether it is complete is    *)
(* decided by the handler that adds a signature, from the signatures it    *)
(* can see, and again, at most once a minute, by whoever opens a list.     *)
(* The partners of a project are worked out with the help of the auth      *)
(* service and remembered for a while; when auth does not answer, those    *)
(* only auth knows to be partners are missing from the list.               *)
(*                                                                         *)
(* A handler plans on what it read without a lock, and Commit applies the  *)
(* plan.  The time entries are copies of the same work: the confirmation   *)
(* archives all but the first.  All requests cover the period that is      *)
(* billed.                                                                 *)
(***************************************************************************)
EXTENDS Integers, FiniteSets

CONSTANTS
  Requests,   \* ids of requests
  Partners,   \* users who may be partners of the project
  Teams,      \* the sets of partners the project may have
  AuthOnly,   \* partners by their role or position in auth only
  Outages,    \* whether the auth service may fail to answer
  Entries,    \* time entries, numbered in the order they were logged
  MayDefer,   \* whether an invoice may ask not to wait for the signatures
  Sessions,
  None

ASSUME ConfirmationAssumption ==
  /\ Teams \subseteq SUBSET Partners
  /\ AuthOnly \subseteq Partners
  /\ Outages \in BOOLEAN /\ MayDefer \in BOOLEAN
  /\ Entries \subseteq Nat

VARIABLES
  team,     \* partners of the project
  known,    \* remembered lists of partners, one for each token and set of projects
  due,      \* a minute has passed since a list was last reconciled
  request,  \* status of each request
  sig,      \* signatures: pairs of a request and a partner
  entry,    \* state of each time entry
  bill,     \* whether an invoice bills the entry, or did before it was canceled
  session,  \* what each running handler is about to commit
  \* history, read by no handler
  basis,    \* the list of partners the last confirmation was decided on
  signed,   \* every signature a request ever had
  passed,   \* entries last billed through the gate, without asking to be early
  overlapped \* two handlers have run at the same time

data == <<request, sig, entry, bill>>
history == <<basis, signed, passed>>
vars == <<team, known, due, request, sig, entry, bill, session, basis, signed, passed, overlapped>>

Statuses == {"new", "pending_partners", "fully_confirmed", "deleted"}
EntryStates == {"none", "active", "rejected", "duplicate", "deleted"}

\* open, ok, back, close: requests to insert, to confirm, to put back and to
\* delete; touch: requests whose row is written at all; add, del: signatures to
\* insert and delete; strict: del must still be there; list: the partners the
\* handler reckoned with; hush, void, drop, wake: entries to archive as
\* duplicates, reject, delete and restore; free, charge: entries to take off
\* their invoice and to bill; gated: billed through the gate; clears: the
\* remembered lists are forgotten after the commit.
Plan == [open: SUBSET Requests, ok: SUBSET Requests, back: SUBSET Requests,
         close: SUBSET Requests, touch: SUBSET Requests,
         add: SUBSET (Requests \X Partners), del: SUBSET (Requests \X Partners),
         strict: BOOLEAN, list: SUBSET Partners,
         hush: SUBSET Entries, void: SUBSET Entries, drop: SUBSET Entries,
         wake: SUBSET Entries, free: SUBSET Entries, charge: SUBSET Entries,
         gated: BOOLEAN, clears: BOOLEAN]

ASSUME NoPlan == None \notin Plan /\ \A list \in SUBSET Partners : list # None

TypeOK ==
  /\ team \in Teams
  /\ known \subseteq SUBSET Partners
  /\ due \in BOOLEAN
  /\ request \in [Requests -> Statuses]
  /\ sig \subseteq Requests \X Partners
  /\ entry \in [Entries -> EntryStates]
  /\ bill \in [Entries -> {"no", "held", "shelved"}]
  /\ session \in [Sessions -> Plan \cup {None}]
  /\ basis \in [Requests -> {None} \cup SUBSET Partners]
  /\ signed \subseteq Requests \X Partners
  /\ passed \subseteq Entries
  /\ overlapped \in BOOLEAN

Init ==
  /\ team \in Teams
  /\ known = {}
  /\ due = TRUE
  /\ request = [r \in Requests |-> "new"]
  /\ sig = {}
  /\ entry = [e \in Entries |-> "none"]
  /\ bill = [e \in Entries |-> "no"]
  /\ session = [s \in Sessions |-> None]
  /\ basis = [r \in Requests |-> None]
  /\ signed = {}
  /\ passed = {}
  /\ overlapped = FALSE

-----------------------------------------------------------------------------
(* What handlers read *)

Signers(r) == {p \in Partners : <<r, p>> \in sig}
Pending == {r \in Requests : request[r] = "pending_partners"}
Submitted(r) == request[r] \in {"pending_partners", "fully_confirmed"}

\* Mutant: one of the partners is enough.
AnySigned(list, signers) == signers # {} /\ (list = {} \/ list \cap signers # {})

\* partners_confirmation_is_complete: no partners at all counts as complete
\* once somebody has signed.
Complete(list, signers) == signers # {} /\ list \subseteq signers

\* The list of partners as auth answers, or does not.
Recognised(answers) == IF answers THEN team ELSE team \ AuthOnly

\* The lists a handler may work with: a remembered one, or a new one.
Lists == known \cup {Recognised(TRUE)} \cup (IF Outages THEN {Recognised(FALSE)} ELSE {})

Copies == {e \in Entries : entry[e] = "active"}
Earliest(S) == CHOOSE e \in S : \A f \in S : e <= f

\* Mutant: no copy is kept for being the first.
SurplusAll == {e \in Copies : bill[e] # "held"}

\* auto_archive_duplicates_for_project_period keeps the first copy and those
\* that are billed.
Surplus ==
  {e \in Copies : e # Earliest(Copies) /\ bill[e] # "held"}

-----------------------------------------------------------------------------
(* Planning and committing *)

Nothing ==
  [open |-> {}, ok |-> {}, back |-> {}, close |-> {}, touch |-> {}, add |-> {}, del |-> {},
   strict |-> FALSE, list |-> {}, hush |-> {}, void |-> {}, drop |-> {}, wake |-> {},
   free |-> {}, charge |-> {}, gated |-> FALSE, clears |-> FALSE]

\* A handler may find another one under way.
Alongside == overlapped' = (overlapped \/ \E t \in Sessions : session[t] # None)

Begin(s, p) ==
  /\ session[s] = None
  /\ session' = [session EXCEPT ![s] = p]
  /\ Alongside
  /\ UNCHANGED <<team, data, history>>

Reads(list) == list \in Lists /\ known' = known \cup {list}
ReadsNoList == UNCHANGED known

Marked(p) ==
  [r \in Requests |->
     IF r \in p.close THEN "deleted"
     ELSE IF r \in p.ok THEN "fully_confirmed"
     ELSE IF r \in p.back \cup p.open THEN "pending_partners"
     ELSE request[r]]

\* What the database lets through: rows that are written still exist, a
\* partner signs once (uq_tt_report_partner_conf_sig).
Accepted(p) ==
  /\ \A r \in p.open : request[r] = "new"
  /\ \A r \in p.touch : Submitted(r)
  /\ p.add \cap sig = {}
  /\ p.strict => p.del \subseteq sig
  /\ \A e \in p.hush \cup p.void \cup p.wake : entry[e] # "deleted"

Commit(s) ==
  LET p == session[s] IN
  /\ p # None
  /\ Accepted(p)
  /\ request' = Marked(p)
  /\ sig' = {x \in (sig \ p.del) \cup p.add : x[1] \notin p.close}
  /\ entry' = [e \in Entries |->
       IF e \in p.drop THEN "deleted"
       ELSE IF e \in p.hush THEN "duplicate"
       ELSE IF e \in p.void THEN "rejected"
       ELSE IF e \in p.wake THEN "active" ELSE entry[e]]
  /\ bill' = [e \in Entries |->
       IF e \in p.charge THEN "held" ELSE IF e \in p.free THEN "no" ELSE bill[e]]
  /\ session' = [session EXCEPT ![s] = None]
  /\ known' = IF p.clears THEN {} ELSE known
  /\ basis' = [r \in Requests |-> IF r \in p.ok THEN p.list ELSE basis[r]]
  /\ signed' = signed \cup p.add
  /\ passed' = (passed \ (p.free \cup p.charge)) \cup (IF p.gated THEN p.charge ELSE {})
  /\ UNCHANGED <<team, due, overlapped>>

\* The handler fails, or its process does: nothing of it remains.
Abort(s) ==
  /\ session[s] # None
  /\ session' = [session EXCEPT ![s] = None]
  /\ UNCHANGED <<team, known, due, data, history, overlapped>>

-----------------------------------------------------------------------------
(* The handlers, each up to its commit *)

\* submit_partner_report_confirmation: the first request of a snapshot, or the
\* same one again, which loses its signatures.
Submit(s, r, list) ==
  /\ list # {} /\ Reads(list)
  /\ \/ /\ request[r] = "new"
        /\ Begin(s, [Nothing EXCEPT !.open = {r}, !.clears = TRUE])
     \/ /\ Submitted(r)
        /\ Begin(s, [Nothing EXCEPT !.touch = {r}, !.back = {r} \cap {q \in Requests : request[q] = "fully_confirmed"},
                                    !.del = {x \in sig : x[1] = r}, !.clears = TRUE])
  /\ UNCHANGED due

\* A partner who is awaited signs; the last one confirms the report, unless it
\* was confirmed already, and archives the surplus copies of its entries.
Confirm(s, r, p, list) ==
  /\ Submitted(r)
  /\ p \in list \ Signers(r) /\ Reads(list)
  /\ LET done == Complete(list, Signers(r) \cup {p}) IN
     Begin(s, [Nothing EXCEPT
       !.touch = {r}, !.add = {<<r, p>>}, !.list = list, !.clears = TRUE,
       !.ok = IF done THEN {r} \cap Pending ELSE {},
       !.hush = IF done THEN Surplus ELSE {}])
  /\ UNCHANGED due

Delete(s, r) ==
  /\ Submitted(r) /\ ReadsNoList
  /\ Begin(s, [Nothing EXCEPT !.close = {r}, !.clears = TRUE])
  /\ UNCHANGED due

\* Mutant: only the signature goes.
RevokeOnly(s, r, p) ==
  /\ <<r, p>> \in sig /\ ReadsNoList
  /\ Begin(s, [Nothing EXCEPT !.touch = {r}, !.del = {<<r, p>>}, !.strict = TRUE, !.clears = TRUE])
  /\ UNCHANGED due

\* The status is written only if it is not pending already.
Revoke(s, r, p) ==
  /\ <<r, p>> \in sig /\ ReadsNoList
  /\ Begin(s, [Nothing EXCEPT
       !.touch = {r}, !.del = {<<r, p>>}, !.strict = TRUE, !.clears = TRUE,
       !.back = {r} \cap {q \in Requests : request[q] = "fully_confirmed"}])
  /\ UNCHANGED due

\* invalidate_confirmations_after_row_edit: an edited row of the snapshot
\* takes the signatures with it.
EditRow(s, r) ==
  /\ Submitted(r) /\ ReadsNoList
  /\ Begin(s, [Nothing EXCEPT
       !.touch = {r}, !.del = {x \in sig : x[1] = r},
       !.back = {r} \cap {q \in Requests : request[q] = "fully_confirmed"}])
  /\ UNCHANGED due

\* What the lists mark among the pending requests C they loaded.
Reconcile(s, C, list) ==
  LET done == {r \in C : Complete(list, Signers(r))} IN
  IF done = {} THEN UNCHANGED <<team, data, session, history, overlapped>>
  ELSE Begin(s, [Nothing EXCEPT !.touch = done, !.ok = done, !.list = list])

\* Submitting from the preview finds the pending request of the period.
Preview(s, r, list) ==
  /\ session[s] = None
  /\ r \in Pending /\ list # {} /\ Reads(list)
  /\ Reconcile(s, {r}, list)
  /\ UNCHANGED due

\* The lists reckon with the partners of the requests they loaded, and reconcile
\* once a minute.
Looks(C, list) == IF C = {} THEN ReadsNoList ELSE Reads(list)
NotDue == ~due /\ UNCHANGED <<due, team, data, session, history, overlapped>>

\* Mutant: the list leaves the pending requests as they are.
ListOnly(s, list) ==
  /\ session[s] = None /\ Looks(Pending, list)
  /\ due' = FALSE /\ UNCHANGED <<team, data, session, history, overlapped>>

\* The list of pending requests, and the badge that counts them.
ListPending(s, list) ==
  /\ session[s] = None /\ Looks(Pending, list)
  /\ \/ due /\ due' = FALSE /\ Reconcile(s, Pending, list)
     \/ NotDue

\* The list of confirmed requests also holds the pending ones its reader may see.
ListConfirmed(s, C, list) ==
  /\ session[s] = None /\ C \subseteq Pending /\ C # {} /\ Reads(list)
  /\ \/ due /\ due' = FALSE /\ Reconcile(s, C, list)
     \/ NotDue

\* _append_time_line looks for the entry and for another invoice that bills it,
\* and not whether the entry still counts.
Chargeable(e) == entry[e] \notin {"none", "deleted"} /\ bill[e] # "held"

\* Mutant: any submitted request opens the gate.
BillEarly(s, E, defer) ==
  /\ E # {} /\ \A e \in E : Chargeable(e)
  /\ \E r \in Requests : Submitted(r)
  /\ ReadsNoList
  /\ Begin(s, [Nothing EXCEPT !.charge = E, !.gated = TRUE])
  /\ UNCHANGED due

\* The gate of create_invoice: a confirmed request covers the period.  An invoice
\* that asks not to wait needs a submitted one, and none if it combines projects.
Bill(s, E, defer) ==
  /\ E # {} /\ \A e \in E : Chargeable(e)
  /\ \/ defer /\ MayDefer
     \/ ~defer /\ \E r \in Requests : request[r] = "fully_confirmed"
  /\ ReadsNoList
  /\ Begin(s, [Nothing EXCEPT !.charge = E, !.gated = ~defer])
  /\ UNCHANGED due

\* patch_invoice_draft: new lines for a draft, or none any more if the draft is
\* deleted.  Entries that are lines no more are free, and no partner is asked
\* about those that become lines.
Relines(s, E, F) ==
  /\ E \cup F # {}
  /\ \A e \in E : Chargeable(e)
  /\ \A e \in F : bill[e] = "held"
  /\ ReadsNoList
  /\ Begin(s, [Nothing EXCEPT !.charge = E, !.free = F])
  /\ UNCHANGED due

\* delete_time_entry: a manager takes the entry out of the count, its owner
\* deletes it; not while it is billed.
Void(s, e) ==
  /\ entry[e] = "active" /\ bill[e] # "held" /\ ReadsNoList
  /\ Begin(s, [Nothing EXCEPT !.void = {e}])
  /\ UNCHANGED due

\* Mutant: what invoices bill is not looked at.
RemoveBilled(s, e) ==
  /\ entry[e] = "active" /\ ReadsNoList
  /\ Begin(s, [Nothing EXCEPT !.drop = {e}])
  /\ UNCHANGED due

Remove(s, e) ==
  /\ entry[e] = "active" /\ bill[e] # "held" /\ ReadsNoList
  /\ Begin(s, [Nothing EXCEPT !.drop = {e}])
  /\ UNCHANGED due

\* archive_duplicate_entries: entries of the selection that cannot be archived
\* are skipped.
Archive(s, E) ==
  /\ E # {} /\ \A e \in E : entry[e] = "active" /\ bill[e] # "held"
  /\ ReadsNoList
  /\ Begin(s, [Nothing EXCEPT !.hush = E])
  /\ UNCHANGED due

RestoreEntry(s, e) ==
  /\ entry[e] = "duplicate" /\ ReadsNoList
  /\ Begin(s, [Nothing EXCEPT !.wake = {e}])
  /\ UNCHANGED due

-----------------------------------------------------------------------------
(* What changes by itself, or in one statement *)

\* The project gets or loses partners; the remembered lists are not told.
ChangeTeam ==
  /\ team' \in Teams \ {team}
  /\ UNCHANGED <<known, due, data, session, history, overlapped>>

Expire(list) ==
  /\ list \in known
  /\ known' = known \ {list}
  /\ UNCHANGED <<team, due, data, session, history, overlapped>>

Minute ==
  /\ ~due /\ due' = TRUE
  /\ UNCHANGED <<team, known, data, session, history, overlapped>>

Log(e) ==
  /\ entry[e] = "none"
  /\ \A f \in Entries : f < e => entry[f] # "none"
  /\ entry' = [entry EXCEPT ![e] = "active"]
  /\ Alongside
  /\ UNCHANGED <<team, known, due, request, sig, bill, session, history>>

\* An invoice is canceled, and restored without a look at its entries.
CancelInvoice(e) ==
  /\ bill[e] = "held"
  /\ bill' = [bill EXCEPT ![e] = "shelved"]
  /\ Alongside
  /\ UNCHANGED <<team, known, due, request, sig, entry, session, history>>

RestoreInvoice(e) ==
  /\ bill[e] = "shelved"
  /\ bill' = [bill EXCEPT ![e] = "held"]
  /\ Alongside
  /\ UNCHANGED <<team, known, due, request, sig, entry, session, history>>

-----------------------------------------------------------------------------

OnRequests(s) ==
  \E r \in Requests :
    \/ \E list \in Lists :
         \/ Submit(s, r, list)
         \/ \E p \in Partners : Confirm(s, r, p, list)
         \/ Preview(s, r, list)
    \/ Delete(s, r)
    \/ \E p \in Partners : Revoke(s, r, p)
    \/ EditRow(s, r)

OnLists(s) ==
  \E list \in Lists :
    \/ ListPending(s, list)
    \/ \E C \in SUBSET Requests : ListConfirmed(s, C, list)

OnEntries(s) ==
  \/ \E E \in SUBSET Entries, defer \in BOOLEAN : Bill(s, E, defer)
  \/ \E E, F \in SUBSET Entries : Relines(s, E, F)
  \/ \E E \in SUBSET Entries : Archive(s, E)
  \/ \E e \in Entries : Void(s, e) \/ Remove(s, e) \/ RestoreEntry(s, e)

Next ==
  \/ \E s \in Sessions : OnRequests(s) \/ OnLists(s) \/ OnEntries(s) \/ Commit(s) \/ Abort(s)
  \/ ChangeTeam \/ Minute
  \/ \E list \in known : Expire(list)
  \/ \E e \in Entries : Log(e) \/ CancelInvoice(e) \/ RestoreInvoice(e)

\* Time passes, a handler ends one way or the other, and not every commit of a
\* list fails; the front end keeps asking for the badge, so a due
\* reconciliation is not missed for ever.  Nothing else need happen.
Fairness ==
  /\ WF_vars(Minute)
  /\ \A list \in SUBSET Partners : WF_vars(Expire(list))
  /\ \A s \in Sessions :
       /\ WF_vars(Commit(s) \/ Abort(s))
       /\ SF_vars(\E list \in Lists : ListPending(s, list))
       /\ SF_vars(session[s] # None /\ session[s].ok # {} /\ Commit(s))

Spec == Init /\ [][Next]_vars
FairSpec == Spec /\ Fairness

-----------------------------------------------------------------------------
(* Properties *)

\* Partners who ever signed a request, still or no more.
Had(r) == {p \in Partners : <<r, p>> \in signed}

\* A request was confirmed, on signatures that had been given.
OnceConfirmed(r) == basis[r] # None /\ Had(r) # {} /\ basis[r] \subseteq Had(r)

\* However handlers overlap, a confirmed report once had the signature of
\* every partner the confirmation reckoned with, and of at least one.
ConfirmedOnSignatures ==
  \A r \in Requests : request[r] = "fully_confirmed" => OnceConfirmed(r)

\* As long as no two handlers overlapped, a confirmed report has those
\* signatures now: whatever takes one away takes the status, too.
ConfirmedIsSigned ==
  ~overlapped => \A r \in Requests : request[r] = "fully_confirmed" =>
    Signers(r) # {} /\ basis[r] \subseteq Signers(r)

\* What a new invoice bills without asking to be early rests on a report that its
\* partners once confirmed, however handlers overlap: the confirmation may have
\* been taken back since, and as long as no handlers overlapped it has not.
BilledWhenConfirmed ==
  [][\A e \in Entries : bill[e] = "no" /\ bill'[e] = "held" /\ e \in passed' =>
       /\ \E r \in Requests : OnceConfirmed(r)
       /\ ~overlapped => \E r \in Requests : request[r] = "fully_confirmed"]_vars

\* An entry that counts and is on an invoice goes on counting: without overlaps
\* it is neither deleted nor voided nor archived, be it as a surplus copy.
BilledCounts ==
  [][~overlapped => \A e \in Entries :
       entry[e] = "active" /\ bill'[e] = "held" => entry'[e] = "active"]_vars

\* The signature that confirms a report leaves one copy of the work to bill,
\* neither none nor two.
OneCopyLeft ==
  [][~overlapped /\ sig' # sig /\ Copies # {}
       /\ (\E r \in Requests : request'[r] = "fully_confirmed" /\ request[r] # "fully_confirmed")
     => /\ \E e \in Entries : entry'[e] = "active"
        /\ \A e, f \in Entries :
             entry'[e] = "active" /\ bill'[e] # "held" /\ entry'[f] = "active" /\ bill'[f] # "held"
               => e = f]_vars

\* Two partners who sign at the same time each miss the other's signature and
\* leave the request pending.  It does not stay so once its signatures suffice
\* for good: some list completes it.
CompleteIsFound ==
  \A r \in Requests :
    ~<>[](request[r] = "pending_partners" /\ Signers(r) # {} /\ team \subseteq Signers(r))

\* What a plan promises as long as it may be committed: a confirmation is backed
\* by signatures that were or are going to be given, and so is what passed the gate.
Backed(p) ==
  /\ \A r \in p.ok :
       LET had == {q \in Partners : <<r, q>> \in signed \cup p.add} IN had # {} /\ p.list \subseteq had
  /\ p.charge # {} /\ p.gated => \E r \in Requests : OnceConfirmed(r)

\* What a plan promises as long as nothing overlaps it.
UpToDate(p) ==
  /\ \A r \in p.ok :
       LET has == {q \in Partners : <<r, q>> \in (sig \ p.del) \cup p.add} IN
         has # {} /\ p.list \subseteq has
  /\ \A x \in p.del : request[x[1]] = "fully_confirmed" => x[1] \in p.back
  /\ p.charge # {} /\ p.gated => \E r \in Requests : request[r] = "fully_confirmed"
  /\ \A e \in p.hush \cup p.void \cup p.drop : bill[e] # "held" /\ e \notin p.charge
  /\ p.ok \cap p.back = {}

\* The inductive invariant: plans keep their promises, and as long as no two
\* handlers overlapped at most one runs, on what still is.
IInv ==
  /\ TypeOK
  /\ sig \subseteq signed
  /\ \A r \in Requests :
       (request[r] = "fully_confirmed" => basis[r] # None) /\ (basis[r] # None => OnceConfirmed(r))
  /\ \A s \in Sessions : session[s] # None => Backed(session[s])
  /\ ConfirmedIsSigned
  /\ ~overlapped =>
       /\ \A s, t \in Sessions : session[s] # None /\ session[t] # None => s = t
       /\ \A s \in Sessions : session[s] # None => UpToDate(session[s])

-----------------------------------------------------------------------------
(* What the source says and the code does not keep *)

\* "Wait for the signatures of all the partners of the project"
\* (ensure_fully_confirmed_partner_period_or_403): with one team that never
\* changes, a confirmed report has all their signatures.  It has not if auth
\* did not answer the handler that completed it.
ConfirmedByTheTeam ==
  ~overlapped => \A r \in Requests : request[r] = "fully_confirmed" => team \subseteq Signers(r)

\* "Keeps the database in sync with the confirmed report"
\* (auto_archive_duplicates_for_project_period): a report confirmed by a list
\* keeps its duplicates.
ConfirmedIsDeduplicated ==
  [][~overlapped =>
       \A r \in Requests : request[r] # "fully_confirmed" /\ request'[r] = "fully_confirmed" =>
         \A e, f \in Copies' : bill'[e] # "held" /\ bill'[f] # "held" => e = f]_vars
=============================================================================
