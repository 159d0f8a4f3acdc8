--------------------- MODULE PartnerConfirmations_proofs ---------------------
(* Proofs about PartnerConfirmations, for any number of requests, partners,  *)
(* entries and overlapping handlers.                                         *)
EXTENDS PartnerConfirmations, FiniteSetTheorems, TLAPS

\* The initial state satisfies the invariant.
LEMMA InitIInv == Init => IInv
<1> SUFFICES ASSUME Init PROVE IInv
  OBVIOUS
<1>1. TypeOK
  BY DEF Init, TypeOK, Statuses, EntryStates
<1> QED
  BY <1>1 DEF Init, IInv, ConfirmedIsSigned

\* What the invariant says of confirmations that were ever given.
Confirmations ==
  \A r \in Requests :
    (request[r] = "fully_confirmed" => basis[r] # None) /\ (basis[r] # None => OnceConfirmed(r))

\* Every list of partners a handler may work with is a set of partners.
LEMMA ListsOfPartners == TypeOK => Lists \subseteq SUBSET Partners
BY ConfirmationAssumption DEF TypeOK, Lists, Recognised

\* Planning what keeps its promises preserves the invariant.
LEMMA BeginIInv ==
  ASSUME IInv, NEW s \in Sessions, NEW p \in Plan, Backed(p), UpToDate(p), Begin(s, p),
         known' \subseteq SUBSET Partners, due' \in BOOLEAN
  PROVE  IInv'
<1>1. /\ UNCHANGED <<team, request, sig, entry, bill, basis, signed, passed>>
      /\ session[s] = None /\ session' = [session EXCEPT ![s] = p]
      /\ overlapped' = (overlapped \/ \E t \in Sessions : session[t] # None)
  BY DEF Begin, Alongside, data, history
<1>2. TypeOK'
  <2>1. session' \in [Sessions -> Plan \cup {None}] /\ overlapped' \in BOOLEAN
    BY <1>1 DEF IInv, TypeOK
  <2> QED
    BY <1>1, <2>1 DEF IInv, TypeOK
<1>3. \A t \in Sessions : session'[t] = IF t = s THEN p ELSE session[t]
  BY <1>1 DEF IInv, TypeOK
<1>4. (sig \subseteq signed)' /\ Confirmations'
  BY <1>1 DEF IInv, Confirmations, OnceConfirmed, Had
<1>5. ASSUME NEW t \in Sessions, session'[t] # None
      PROVE  Backed(session[t])'
  <2>1. Backed(session'[t])
    BY <1>3, <1>5 DEF IInv
  <2> QED
    BY <1>1, <2>1 DEF Backed, OnceConfirmed, Had
<1>6. ConfirmedIsSigned'
  BY <1>1 DEF IInv, ConfirmedIsSigned, Signers
<1>7. ASSUME ~overlapped', NEW t \in Sessions, session'[t] # None
      PROVE  t = s /\ UpToDate(session[t])'
  <2>1. t = s /\ session'[t] = p
    BY <1>1, <1>3, <1>7
  <2> QED
    BY <1>1, <2>1 DEF UpToDate
<1> QED
  BY <1>2, <1>4, <1>5, <1>6, <1>7 DEF IInv, Confirmations

\* So does a step that leaves requests, signatures and plans alone, and entries
\* and bills as long as a handler counts on them.
LEMMA QuietIInv ==
  ASSUME IInv, TypeOK', UNCHANGED <<request, sig, session, basis, signed>>,
         overlapped => overlapped',
         UNCHANGED <<entry, bill>> \/ overlapped' \/ \A t \in Sessions : session[t] = None
  PROVE  IInv'
<1>1. (sig \subseteq signed)' /\ Confirmations'
  BY DEF IInv, Confirmations, OnceConfirmed, Had
<1>2. \A t \in Sessions : session'[t] # None => Backed(session[t])'
  BY DEF IInv, Backed, OnceConfirmed, Had
<1>3. ConfirmedIsSigned'
  BY DEF IInv, ConfirmedIsSigned, Signers
<1>4. ASSUME ~overlapped', NEW t \in Sessions, session'[t] # None
      PROVE  UpToDate(session[t])'
  <2>1. UpToDate(session[t]) /\ UNCHANGED <<request, sig, entry, bill, session>>
    BY <1>4 DEF IInv
  <2> QED
    BY <2>1 DEF UpToDate
<1>5. ~overlapped' => \A s, t \in Sessions : session'[s] # None /\ session'[t] # None => s = t
  BY DEF IInv
<1> QED
  BY <1>1, <1>2, <1>3, <1>4, <1>5 DEF IInv, Confirmations

\* A plan that touches neither signatures nor the status of a request.
LEMMA EntryPlanIInv ==
  ASSUME IInv, NEW s \in Sessions, NEW p \in Plan, Begin(s, p), ReadsNoList, UNCHANGED due,
         p.ok = {}, p.del = {},
         p.charge # {} /\ p.gated => \E r \in Requests : request[r] = "fully_confirmed",
         \A e \in p.hush \cup p.void \cup p.drop : bill[e] # "held" /\ e \notin p.charge
  PROVE  IInv'
<1>1. Backed(p) /\ UpToDate(p)
  BY DEF Backed, UpToDate, IInv
<1>2. known' \subseteq SUBSET Partners /\ due' \in BOOLEAN
  BY DEF IInv, TypeOK, ReadsNoList
<1> QED
  BY <1>1, <1>2, BeginIInv

\* A plan that takes signatures away and the status with them.
LEMMA RevokingPlanIInv ==
  ASSUME IInv, NEW s \in Sessions, NEW p \in Plan, Begin(s, p),
         known' \subseteq SUBSET Partners, UNCHANGED due,
         p.ok = {}, p.charge = {}, p.hush = {}, p.void = {}, p.drop = {},
         \A x \in p.del : request[x[1]] = "fully_confirmed" => x[1] \in p.back
  PROVE  IInv'
<1>1. Backed(p) /\ UpToDate(p)
  BY DEF Backed, UpToDate
<1>2. due' \in BOOLEAN
  BY DEF IInv, TypeOK
<1> QED
  BY <1>1, <1>2, BeginIInv

\* A plan to confirm requests whose signatures are complete.
LEMMA ConfirmingPlanIInv ==
  ASSUME IInv, NEW s \in Sessions, NEW p \in Plan, Begin(s, p),
         known' \subseteq SUBSET Partners, due' \in BOOLEAN,
         p.del = {}, p.back = {}, p.charge = {}, p.void = {}, p.drop = {},
         \A e \in p.hush : bill[e] # "held",
         \A r \in p.ok :
           LET has == {q \in Partners : <<r, q>> \in sig \cup p.add} IN has # {} /\ p.list \subseteq has
  PROVE  IInv'
<1>1. sig \subseteq signed
  BY DEF IInv
<1>2. Backed(p)
  BY <1>1 DEF Backed
<1>3. UpToDate(p)
  BY DEF UpToDate
<1> QED
  BY <1>2, <1>3, BeginIInv

\* The plans of the handlers that need not touch a signature.
LEMMA OnEntriesIInv ==
  ASSUME IInv, NEW s \in Sessions, OnEntries(s)
  PROVE  IInv'
<1>1. CASE \E E \in SUBSET Entries, defer \in BOOLEAN : Bill(s, E, defer)
  <2> PICK E \in SUBSET Entries, defer \in BOOLEAN : Bill(s, E, defer)
    BY <1>1
  <2> DEFINE gated == ~defer
             p == [Nothing EXCEPT !.charge = E, !.gated = gated]
  <2>0. gated \in BOOLEAN
    OBVIOUS
  <2> HIDE DEF gated
  <2>1. /\ p \in Plan
        /\ p.charge = E /\ p.gated = gated
        /\ p.ok = {} /\ p.del = {} /\ p.hush = {} /\ p.void = {} /\ p.drop = {}
    BY <2>0 DEF Nothing, Plan
  <2>2. /\ ReadsNoList /\ UNCHANGED due /\ Begin(s, p)
        /\ gated => \E r \in Requests : request[r] = "fully_confirmed"
    BY DEF Bill, gated
  <2> HIDE DEF p
  <2> QED
    BY <2>1, <2>2, EntryPlanIInv
<1>2. CASE \E E \in SUBSET Entries : Archive(s, E)
  <2> PICK E \in SUBSET Entries : Archive(s, E)
    BY <1>2
  <2> DEFINE p == [Nothing EXCEPT !.hush = E]
  <2>1. p \in Plan /\ p.hush = E /\ p.ok = {} /\ p.del = {} /\ p.charge = {} /\ p.void = {} /\ p.drop = {}
    BY DEF Nothing, Plan
  <2>2. ReadsNoList /\ UNCHANGED due /\ Begin(s, p) /\ \A e \in E : bill[e] # "held"
    BY DEF Archive
  <2> QED
    BY <2>1, <2>2, EntryPlanIInv
<1>3. ASSUME NEW e \in Entries, Void(s, e)
      PROVE  IInv'
  <2> DEFINE p == [Nothing EXCEPT !.void = {e}]
  <2>1. p \in Plan /\ p.void = {e} /\ p.ok = {} /\ p.del = {} /\ p.charge = {} /\ p.hush = {} /\ p.drop = {}
    BY DEF Nothing, Plan
  <2>2. ReadsNoList /\ UNCHANGED due /\ Begin(s, p) /\ bill[e] # "held"
    BY <1>3 DEF Void
  <2> QED
    BY <2>1, <2>2, EntryPlanIInv
<1>4. ASSUME NEW e \in Entries, Remove(s, e)
      PROVE  IInv'
  <2> DEFINE p == [Nothing EXCEPT !.drop = {e}]
  <2>1. p \in Plan /\ p.drop = {e} /\ p.ok = {} /\ p.del = {} /\ p.charge = {} /\ p.hush = {} /\ p.void = {}
    BY DEF Nothing, Plan
  <2>2. ReadsNoList /\ UNCHANGED due /\ Begin(s, p) /\ bill[e] # "held"
    BY <1>4 DEF Remove
  <2> QED
    BY <2>1, <2>2, EntryPlanIInv
<1>5. ASSUME NEW e \in Entries, RestoreEntry(s, e)
      PROVE  IInv'
  <2> DEFINE p == [Nothing EXCEPT !.wake = {e}]
  <2>1. p \in Plan /\ p.ok = {} /\ p.del = {} /\ p.charge = {} /\ p.hush = {} /\ p.void = {} /\ p.drop = {}
    BY DEF Nothing, Plan
  <2>2. ReadsNoList /\ UNCHANGED due /\ Begin(s, p)
    BY <1>5 DEF RestoreEntry
  <2> QED
    BY <2>1, <2>2, EntryPlanIInv
<1>6. CASE \E E, F \in SUBSET Entries : Relines(s, E, F)
  <2> PICK E \in SUBSET Entries, F \in SUBSET Entries : Relines(s, E, F)
    BY <1>6
  <2> DEFINE p == [Nothing EXCEPT !.charge = E, !.free = F]
  <2>1. /\ p \in Plan /\ p.gated = FALSE
        /\ p.ok = {} /\ p.del = {} /\ p.hush = {} /\ p.void = {} /\ p.drop = {}
    BY DEF Nothing, Plan
  <2>2. ReadsNoList /\ UNCHANGED due /\ Begin(s, p)
    BY DEF Relines
  <2> HIDE DEF p
  <2> QED
    BY <2>1, <2>2, EntryPlanIInv
<1> QED
  BY <1>1, <1>2, <1>3, <1>4, <1>5, <1>6 DEF OnEntries

\* Whatever takes a signature away takes the status, too.
LEMMA RevokingIInv ==
  ASSUME IInv, NEW s \in Sessions, NEW r \in Requests,
         \/ \E list \in Lists : Submit(s, r, list)
         \/ Delete(s, r) \/ EditRow(s, r)
         \/ \E p \in Partners : Revoke(s, r, p)
  PROVE  IInv'
<1> DEFINE full == {q \in Requests : request[q] = "fully_confirmed"}
           own == {x \in sig : x[1] = r}
<1>1. TypeOK /\ sig \subseteq Requests \X Partners
  BY DEF IInv, TypeOK
<1>2. known \subseteq SUBSET Partners /\ \A list \in Lists : known \cup {list} \subseteq SUBSET Partners
  BY <1>1, ListsOfPartners DEF TypeOK
<1>3. own \in SUBSET (Requests \X Partners) /\ {r} \cap full \in SUBSET Requests
  BY <1>1
<1>4. \A x \in own : request[x[1]] = "fully_confirmed" => x[1] \in {r} \cap full
  OBVIOUS
<1>5. ASSUME NEW list \in Lists, Submit(s, r, list)
      PROVE  IInv'
  <2> DEFINE new == [Nothing EXCEPT !.open = {r}, !.clears = TRUE]
             again == [Nothing EXCEPT !.touch = {r}, !.back = {r} \cap full, !.del = own, !.clears = TRUE]
  <2>1. known' \subseteq SUBSET Partners /\ UNCHANGED due /\ (Begin(s, new) \/ Begin(s, again))
    BY <1>2, <1>5 DEF Submit, Reads
  <2> HIDE DEF full, own
  <2>2. /\ new \in Plan /\ new.ok = {} /\ new.del = {}
        /\ new.charge = {} /\ new.hush = {} /\ new.void = {} /\ new.drop = {}
    BY DEF Nothing, Plan
  <2>3. /\ again \in Plan /\ again.ok = {} /\ again.del = own /\ again.back = {r} \cap full
        /\ again.charge = {} /\ again.hush = {} /\ again.void = {} /\ again.drop = {}
    BY <1>3 DEF Nothing, Plan
  <2> HIDE DEF new, again
  <2>4. CASE Begin(s, new)
    BY <2>1, <2>2, <2>4, RevokingPlanIInv
  <2>5. CASE Begin(s, again)
    BY <1>4, <2>1, <2>3, <2>5, RevokingPlanIInv
  <2> QED
    BY <2>1, <2>4, <2>5
<1>6. ASSUME Delete(s, r)
      PROVE  IInv'
  <2> DEFINE p == [Nothing EXCEPT !.close = {r}, !.clears = TRUE]
  <2>1. known' \subseteq SUBSET Partners /\ UNCHANGED due /\ Begin(s, p)
    BY <1>2, <1>6 DEF Delete, ReadsNoList
  <2>2. /\ p \in Plan /\ p.ok = {} /\ p.del = {}
        /\ p.charge = {} /\ p.hush = {} /\ p.void = {} /\ p.drop = {}
    BY DEF Nothing, Plan
  <2> QED
    BY <2>1, <2>2, RevokingPlanIInv
<1>7. ASSUME EditRow(s, r)
      PROVE  IInv'
  <2> DEFINE p == [Nothing EXCEPT !.touch = {r}, !.del = own, !.back = {r} \cap full]
  <2>1. known' \subseteq SUBSET Partners /\ UNCHANGED due /\ Begin(s, p)
    BY <1>2, <1>7 DEF EditRow, ReadsNoList
  <2> HIDE DEF full, own
  <2>2. /\ p \in Plan /\ p.ok = {} /\ p.del = own /\ p.back = {r} \cap full
        /\ p.charge = {} /\ p.hush = {} /\ p.void = {} /\ p.drop = {}
    BY <1>3 DEF Nothing, Plan
  <2> HIDE DEF p
  <2> QED
    BY <1>4, <2>1, <2>2, RevokingPlanIInv
<1>8. ASSUME NEW q \in Partners, Revoke(s, r, q)
      PROVE  IInv'
  <2> DEFINE p == [Nothing EXCEPT !.touch = {r}, !.del = {<<r, q>>}, !.strict = TRUE, !.clears = TRUE,
                                  !.back = {r} \cap full]
  <2>1. known' \subseteq SUBSET Partners /\ UNCHANGED due /\ Begin(s, p)
    BY <1>2, <1>8 DEF Revoke, ReadsNoList
  <2>2. \A x \in {<<r, q>>} : request[x[1]] = "fully_confirmed" => x[1] \in {r} \cap full
    OBVIOUS
  <2>3. {<<r, q>>} \in SUBSET (Requests \X Partners)
    OBVIOUS
  <2> DEFINE one == {<<r, q>>}
  <2> HIDE DEF full, one
  <2>4. p = [Nothing EXCEPT !.touch = {r}, !.del = one, !.strict = TRUE, !.clears = TRUE,
                            !.back = {r} \cap full]
    BY DEF one
  <2>5. /\ p \in Plan /\ p.ok = {} /\ p.del = one /\ p.back = {r} \cap full
        /\ p.charge = {} /\ p.hush = {} /\ p.void = {} /\ p.drop = {}
    <3> HIDE DEF p
    <3> QED
      BY <1>3, <2>3, <2>4 DEF one, Nothing, Plan
  <2> HIDE DEF p
  <2> QED
    BY <2>1, <2>2, <2>5, RevokingPlanIInv DEF one
<1> QED
  BY <1>5, <1>6, <1>7, <1>8

\* A list, or a submission from the preview, that completes what it finds.
LEMMA ReconcileIInv ==
  ASSUME IInv, NEW s \in Sessions, NEW C \in SUBSET Requests, NEW list \in SUBSET Partners,
         Reconcile(s, C, list), known' \subseteq SUBSET Partners, due' \in BOOLEAN
  PROVE  IInv'
<1> DEFINE done == {r \in C : Complete(list, Signers(r))}
           p == [Nothing EXCEPT !.touch = done, !.ok = done, !.list = list]
<1>1. CASE done = {}
  <2>1. UNCHANGED <<team, request, sig, entry, bill, session, basis, signed, passed, overlapped>>
    BY <1>1 DEF Reconcile, data, history
  <2>2. TypeOK'
    BY <2>1 DEF IInv, TypeOK
  <2> QED
    BY <2>1, <2>2, QuietIInv
<1>2. CASE done # {}
  <2>1. Begin(s, p)
    BY <1>2 DEF Reconcile
  <2>2. \A r \in done : Signers(r) # {} /\ list \subseteq Signers(r)
    BY DEF Complete
  <2>3. done \in SUBSET Requests
    OBVIOUS
  <2> HIDE DEF done
  <2>4. /\ p \in Plan /\ p.ok = done /\ p.list = list /\ p.add = {} /\ p.del = {} /\ p.back = {}
        /\ p.charge = {} /\ p.hush = {} /\ p.void = {} /\ p.drop = {}
    BY <2>3 DEF Nothing, Plan
  <2> HIDE DEF p
  <2>5. \A r \in p.ok : LET has == {q \in Partners : <<r, q>> \in sig \cup p.add}
                        IN  has # {} /\ p.list \subseteq has
    BY <2>2, <2>4 DEF Signers
  <2> QED
    BY <2>1, <2>4, <2>5, ConfirmingPlanIInv
<1> QED
  BY <1>1, <1>2

LEMMA OnListsIInv ==
  ASSUME IInv, NEW s \in Sessions, OnLists(s)
  PROVE  IInv'
<1> PICK list \in Lists : ListPending(s, list) \/ \E C \in SUBSET Requests : ListConfirmed(s, C, list)
  BY DEF OnLists
<1>1. list \in SUBSET Partners /\ known \cup {list} \subseteq SUBSET Partners
  BY ListsOfPartners DEF IInv, TypeOK
<1>2. known' \subseteq SUBSET Partners
  BY <1>1 DEF ListPending, ListConfirmed, Looks, Reads, ReadsNoList, IInv, TypeOK
<1>3. CASE NotDue
  <2>1. UNCHANGED <<team, due, request, sig, entry, bill, session, basis, signed, passed, overlapped>>
    BY <1>3 DEF NotDue, data, history
  <2>2. TypeOK'
    BY <1>2, <2>1 DEF IInv, TypeOK
  <2> QED
    BY <2>1, <2>2, QuietIInv
<1>4. CASE ~NotDue
  <2>1. PICK C \in SUBSET Requests : Reconcile(s, C, list) /\ due' = FALSE
    BY <1>4 DEF ListPending, ListConfirmed, Pending
  <2> QED
    BY <1>1, <1>2, <2>1, ReconcileIInv
<1> QED
  BY <1>3, <1>4

LEMMA ConfirmIInv ==
  ASSUME IInv, NEW s \in Sessions, NEW r \in Requests, NEW q \in Partners,
         NEW list \in Lists, Confirm(s, r, q, list)
  PROVE  IInv'
<1> DEFINE done == Complete(list, Signers(r) \cup {q})
           sure == IF done THEN {r} \cap Pending ELSE {}
           surplus == IF done THEN Surplus ELSE {}
           one == {<<r, q>>}
           p == [Nothing EXCEPT !.touch = {r}, !.add = one, !.list = list, !.clears = TRUE,
                                !.ok = sure, !.hush = surplus]
<1>1. list \in SUBSET Partners /\ known \cup {list} \subseteq SUBSET Partners
  BY ListsOfPartners DEF IInv, TypeOK
<1>2. Begin(s, p) /\ known' = known \cup {list} /\ UNCHANGED due
  BY DEF Confirm, Reads
<1>3. known' \subseteq SUBSET Partners /\ due' \in BOOLEAN
  BY <1>1, <1>2 DEF IInv, TypeOK
<1>4. /\ one \in SUBSET (Requests \X Partners) /\ sure \in SUBSET Requests
      /\ surplus \in SUBSET Entries /\ \A e \in surplus : bill[e] # "held"
  BY DEF Surplus, Copies
<1>5. \A u \in sure : u = r /\ list \subseteq Signers(r) \cup {q}
  BY DEF Complete
<1>6. \A u \in sure : LET has == {v \in Partners : <<u, v>> \in sig \cup one}
                     IN  has # {} /\ list \subseteq has
  BY <1>1, <1>5 DEF Signers
<1> HIDE DEF one, sure, surplus
<1>7. /\ p \in Plan /\ p.ok = sure /\ p.list = list /\ p.add = one /\ p.hush = surplus
      /\ p.del = {} /\ p.back = {} /\ p.charge = {} /\ p.void = {} /\ p.drop = {}
  BY <1>1, <1>4 DEF Nothing, Plan
<1> HIDE DEF p
<1> QED
  BY <1>2, <1>3, <1>4, <1>6, <1>7, ConfirmingPlanIInv

LEMMA OnRequestsIInv ==
  ASSUME IInv, NEW s \in Sessions, OnRequests(s)
  PROVE  IInv'
<1>1. ASSUME NEW r \in Requests, NEW list \in Lists, Preview(s, r, list)
      PROVE  IInv'
  <2>1. list \in SUBSET Partners /\ known \cup {list} \subseteq SUBSET Partners
    BY ListsOfPartners DEF IInv, TypeOK
  <2>2. {r} \in SUBSET Requests /\ Reconcile(s, {r}, list) /\ known' = known \cup {list} /\ UNCHANGED due
    BY <1>1 DEF Preview, Reads
  <2>3. due' \in BOOLEAN
    BY <2>2 DEF IInv, TypeOK
  <2> QED
    BY <2>1, <2>2, <2>3, ReconcileIInv
<1> QED
  BY <1>1, RevokingIInv, ConfirmIInv DEF OnRequests

-----------------------------------------------------------------------------
(* Commits *)

\* What a commit does to one request, and to one signature.
LEMMA CommitType ==
  ASSUME IInv, NEW s \in Sessions, Commit(s)
  PROVE  TypeOK'
<1> DEFINE p == session[s]
<1>1. p \in Plan /\ p # None
  BY DEF IInv, TypeOK, Commit
<1>2. request' \in [Requests -> Statuses]
  BY DEF IInv, TypeOK, Commit, Marked, Statuses
<1>3. sig' \subseteq Requests \X Partners /\ signed' \subseteq Requests \X Partners
  BY <1>1 DEF IInv, TypeOK, Commit, Plan
<1>4. entry' \in [Entries -> EntryStates]
  BY DEF IInv, TypeOK, Commit, EntryStates
<1>5. bill' \in [Entries -> {"no", "held", "shelved"}]
  BY DEF IInv, TypeOK, Commit
<1>6. basis' \in [Requests -> {None} \cup SUBSET Partners]
  BY <1>1 DEF IInv, TypeOK, Commit, Plan
<1>7. passed' \subseteq Entries
  BY <1>1 DEF IInv, TypeOK, Commit, Plan
<1>8. /\ session' \in [Sessions -> Plan \cup {None}]
      /\ known' \subseteq SUBSET Partners /\ UNCHANGED <<team, due, overlapped>>
  BY DEF IInv, TypeOK, Commit
<1> QED
  BY <1>2, <1>3, <1>4, <1>5, <1>6, <1>7, <1>8 DEF IInv, TypeOK

\* Committing a plan that kept its promises preserves the invariant.
LEMMA CommitIInv ==
  ASSUME IInv, NEW s \in Sessions, Commit(s)
  PROVE  IInv'
<1> DEFINE p == session[s]
<1>1. p \in Plan /\ p # None /\ Backed(p)
  BY DEF IInv, TypeOK, Commit
<1>2. /\ request' = Marked(p)
      /\ sig' = {x \in (sig \ p.del) \cup p.add : x[1] \notin p.close}
      /\ session' = [session EXCEPT ![s] = None]
      /\ basis' = [r \in Requests |-> IF r \in p.ok THEN p.list ELSE basis[r]]
      /\ signed' = signed \cup p.add
      /\ UNCHANGED overlapped
  BY DEF Commit
<1>3. \A t \in Sessions : session'[t] = IF t = s THEN None ELSE session[t]
  BY <1>2 DEF IInv, TypeOK
<1>4. \A r \in Requests : request'[r] = "fully_confirmed" =>
        r \notin p.close /\ (r \in p.ok \/ (r \notin p.back /\ request[r] = "fully_confirmed"))
  BY <1>2 DEF Marked
<1>5. (sig \subseteq signed)'
  BY <1>2 DEF IInv
<1>0. \A r \in Requests : Had(r) \subseteq Had(r)' /\ basis'[r] = IF r \in p.ok THEN p.list ELSE basis[r]
  BY <1>2 DEF Had
<1>12. p.list # None
  BY <1>1, NoPlan DEF Plan
<1>6. ASSUME NEW r \in Requests
      PROVE  /\ request'[r] = "fully_confirmed" => basis'[r] # None
             /\ basis'[r] # None => OnceConfirmed(r)'
  <2>1. CASE r \in p.ok
    <3>1. Had(r)' = {q \in Partners : <<r, q>> \in signed \cup p.add}
      BY <1>2 DEF Had
    <3> QED
      BY <1>0, <1>1, <1>12, <2>1, <3>1 DEF Backed, OnceConfirmed
  <2>2. CASE r \notin p.ok
    <3>1. /\ request[r] = "fully_confirmed" => basis[r] # None
          /\ basis[r] # None => OnceConfirmed(r)
      BY DEF IInv
    <3> QED
      BY <1>0, <1>4, <2>2, <3>1 DEF OnceConfirmed
  <2> QED
    BY <2>1, <2>2
<1>13. \A r \in Requests : OnceConfirmed(r) => OnceConfirmed(r)'
  BY <1>0, <1>6, <1>12 DEF OnceConfirmed
<1>7. ASSUME NEW t \in Sessions, session'[t] # None
      PROVE  Backed(session[t])'
  <2>1. session'[t] = session[t] /\ Backed(session[t]) /\ signed \subseteq signed'
    BY <1>2, <1>3, <1>7 DEF IInv
  <2> QED
    BY <1>13, <2>1 DEF Backed
<1>8. ASSUME ~overlapped', NEW r \in Requests, request'[r] = "fully_confirmed"
      PROVE  LET has == {q \in Partners : <<r, q>> \in sig'} IN has # {} /\ basis'[r] \subseteq has
  <2>1. ~overlapped /\ UpToDate(p) /\ p.ok \cap p.back = {}
    BY <1>1, <1>2, <1>8 DEF IInv, UpToDate
  <2>2. \A q \in Partners : <<r, q>> \in sig' <=> <<r, q>> \in (sig \ p.del) \cup p.add
    BY <1>2, <1>4, <1>8
  <2>3. CASE r \in p.ok
    BY <1>2, <2>1, <2>2, <2>3 DEF UpToDate
  <2>4. CASE r \notin p.ok
    <3>1. request[r] = "fully_confirmed" /\ r \notin p.back
      BY <1>4, <1>8, <2>4
    <3>2. LET has == {q \in Partners : <<r, q>> \in sig} IN has # {} /\ basis[r] \subseteq has
      BY <2>1, <3>1 DEF IInv, ConfirmedIsSigned, Signers
    <3>3. \A q \in Partners : <<r, q>> \notin p.del
      BY <2>1, <3>1 DEF UpToDate
    <3> QED
      BY <1>2, <2>2, <2>4, <3>2, <3>3
  <2> QED
    BY <2>3, <2>4
<1>9. ~overlapped' => \A t \in Sessions : session'[t] = None
  BY <1>1, <1>2, <1>3 DEF IInv
<1>10. Confirmations'
  BY <1>6 DEF Confirmations
<1>11. ConfirmedIsSigned'
  BY <1>8 DEF ConfirmedIsSigned, Signers
<1> QED
  BY CommitType, <1>5, <1>7, <1>9, <1>10, <1>11 DEF IInv, Confirmations

\* Dropping a plan preserves the invariant.
LEMMA AbortIInv ==
  ASSUME IInv, NEW s \in Sessions, Abort(s)
  PROVE  IInv'
<1>1. /\ session' = [session EXCEPT ![s] = None]
      /\ UNCHANGED <<team, known, due, request, sig, entry, bill, basis, signed, passed, overlapped>>
  BY DEF Abort, data, history
<1>2. TypeOK'
  BY <1>1 DEF IInv, TypeOK
<1>3. \A t \in Sessions : session'[t] = IF t = s THEN None ELSE session[t]
  BY <1>1 DEF IInv, TypeOK
<1>4. (sig \subseteq signed)' /\ Confirmations' /\ ConfirmedIsSigned'
  BY <1>1 DEF IInv, Confirmations, OnceConfirmed, Had, ConfirmedIsSigned, Signers
<1>5. ASSUME NEW t \in Sessions, session'[t] # None
      PROVE  Backed(session[t])' /\ (~overlapped' => UpToDate(session[t])')
  <2>1. session'[t] = session[t] /\ Backed(session[t]) /\ (~overlapped => UpToDate(session[t]))
    BY <1>3, <1>5 DEF IInv
  <2> QED
    BY <1>1, <2>1 DEF Backed, UpToDate, OnceConfirmed, Had
<1>6. ~overlapped' => \A u, t \in Sessions : session'[u] # None /\ session'[t] # None => u = t
  BY <1>1, <1>3 DEF IInv
<1> QED
  BY <1>2, <1>4, <1>5, <1>6 DEF IInv, Confirmations

\* What changes by itself preserves the invariant.
LEMMA ElsewhereIInv ==
  ASSUME IInv,
         \/ ChangeTeam \/ Minute
         \/ \E list \in known : Expire(list)
         \/ \E e \in Entries : Log(e) \/ CancelInvoice(e) \/ RestoreInvoice(e)
  PROVE  IInv'
<1>1. CASE ChangeTeam \/ Minute \/ \E list \in known : Expire(list)
  <2>1. UNCHANGED <<request, sig, entry, bill, session, basis, signed, passed, overlapped>>
    BY <1>1 DEF ChangeTeam, Minute, Expire, data, history
  <2>2. TypeOK'
    BY <1>1, <2>1 DEF IInv, TypeOK, ChangeTeam, Minute, Expire
  <2> QED
    BY <2>1, <2>2, QuietIInv
<1>2. ASSUME NEW e \in Entries, Log(e) \/ CancelInvoice(e) \/ RestoreInvoice(e)
      PROVE  IInv'
  <2>1. /\ UNCHANGED <<team, known, due, request, sig, session, basis, signed, passed>>
        /\ overlapped' = (overlapped \/ \E t \in Sessions : session[t] # None)
    BY <1>2 DEF Log, CancelInvoice, RestoreInvoice, history, Alongside
  <2>2. TypeOK'
    BY <1>2, <2>1 DEF IInv, TypeOK, Log, CancelInvoice, RestoreInvoice, EntryStates
  <2> QED
    BY <2>1, <2>2, QuietIInv
<1> QED
  BY <1>1, <1>2

\* Every step preserves the invariant.
LEMMA NextIInv == IInv /\ [Next]_vars => IInv'
<1> SUFFICES ASSUME IInv, [Next]_vars
             PROVE  IInv'
  OBVIOUS
<1>1. CASE Next
  BY <1>1, OnRequestsIInv, OnListsIInv, OnEntriesIInv, CommitIInv, AbortIInv, ElsewhereIInv DEF Next
<1>2. CASE UNCHANGED vars
  <2>1. UNCHANGED <<request, sig, entry, bill, session, basis, signed, overlapped>>
    BY <1>2 DEF vars
  <2>2. TypeOK'
    BY <1>2 DEF vars, IInv, TypeOK
  <2> QED
    BY <2>1, <2>2, QuietIInv
<1> QED
  BY <1>1, <1>2

\* The invariant holds in every reachable state.
THEOREM Inductive == Spec => []IInv
<1> QED
  BY InitIInv, NextIInv, PTL DEF Spec

\* The tables and the plans of running handlers keep their types.
THEOREM TypeCorrect == Spec => []TypeOK
<1>1. IInv => TypeOK
  BY DEF IInv
<1> QED
  BY <1>1, Inductive, PTL

\* However handlers overlap, whatever auth answers and however the partners
\* change, a confirmed report once had the signatures its confirmation
\* reckoned with.
THEOREM ConfirmedOnce == Spec => []ConfirmedOnSignatures
<1>1. IInv => ConfirmedOnSignatures
  BY DEF IInv, ConfirmedOnSignatures
<1> QED
  BY <1>1, Inductive, PTL

\* As long as no two handlers overlapped it still has them.
THEOREM ConfirmedStaysSigned == Spec => []ConfirmedIsSigned
<1>1. IInv => ConfirmedIsSigned
  BY DEF IInv
<1> QED
  BY <1>1, Inductive, PTL

\* What a handler means to commit is up to date if nothing overlapped it.
LEMMA PlanUpToDate ==
  ASSUME IInv, ~overlapped, NEW s \in Sessions, Commit(s)
  PROVE  UpToDate(session[s])
BY DEF IInv, Commit

\* The steps that bill or change entries.
LEMMA BillingStep ==
  ASSUME IInv, [Next]_vars, NEW e \in Entries,
         bill'[e] # bill[e] \/ entry'[e] # entry[e]
  PROVE  \/ \E s \in Sessions : Commit(s)
         \/ entry[e] = "none" /\ entry'[e] = "active" /\ bill'[e] = bill[e]
         \/ bill[e] = "held" /\ bill'[e] = "shelved" /\ entry'[e] = entry[e]
         \/ bill[e] = "shelved" /\ entry'[e] = entry[e]
<1>1. ASSUME NEW s \in Sessions, OnRequests(s) \/ OnLists(s) \/ OnEntries(s)
      PROVE  UNCHANGED <<entry, bill>>
  <2>1. ASSUME NEW p, Begin(s, p)
        PROVE  UNCHANGED <<entry, bill>>
    BY <2>1 DEF Begin, data
  <2>2. ASSUME NEW C, NEW list, Reconcile(s, C, list)
        PROVE  UNCHANGED <<entry, bill>>
    BY <2>1, <2>2 DEF Reconcile, data
  <2>3. CASE OnRequests(s)
    BY <2>1, <2>2, <2>3 DEF OnRequests, Submit, Confirm, Preview, Delete, Revoke, EditRow
  <2>4. CASE OnLists(s)
    BY <2>2, <2>4 DEF OnLists, ListPending, ListConfirmed, NotDue, data
  <2>5. CASE OnEntries(s)
    BY <2>1, <2>5 DEF OnEntries, Bill, Relines, Archive, Void, Remove, RestoreEntry
  <2> QED
    BY <1>1, <2>3, <2>4, <2>5
<1>2. ASSUME NEW s \in Sessions, Abort(s)
      PROVE  UNCHANGED <<entry, bill>>
  BY <1>2 DEF Abort, data
<1>3. ASSUME ChangeTeam \/ Minute \/ \E list \in known : Expire(list)
      PROVE  UNCHANGED <<entry, bill>>
  BY <1>3 DEF ChangeTeam, Minute, Expire, data
<1>4. ASSUME NEW f \in Entries, Log(f)
      PROVE  entry[e] = "none" /\ entry'[e] = "active" /\ bill'[e] = bill[e]
  BY <1>4 DEF Log, IInv, TypeOK
<1>5. ASSUME NEW f \in Entries, CancelInvoice(f)
      PROVE  bill[e] = "held" /\ bill'[e] = "shelved" /\ entry'[e] = entry[e]
  BY <1>5 DEF CancelInvoice, IInv, TypeOK
<1>6. ASSUME NEW f \in Entries, RestoreInvoice(f)
      PROVE  bill[e] = "shelved" /\ entry'[e] = entry[e]
  BY <1>6 DEF RestoreInvoice, IInv, TypeOK
<1>7. ASSUME UNCHANGED vars
      PROVE  UNCHANGED <<entry, bill>>
  BY <1>7 DEF vars
<1> QED
  BY <1>1, <1>2, <1>3, <1>4, <1>5, <1>6, <1>7 DEF Next

\* An entry that counts is only changed by a commit.
LEMMA EntryStep ==
  ASSUME IInv, [Next]_vars, NEW e \in Entries, entry[e] = "active", entry'[e] # entry[e]
  PROVE  \E s \in Sessions : Commit(s)
BY BillingStep

\* However handlers overlap, what a new invoice bills through the gate rests on a
\* report that its partners once confirmed, and as long as none overlapped on one
\* that is confirmed at that moment.
THEOREM BilledOnConfirmation == Spec => BilledWhenConfirmed
<1> DEFINE A == \A e \in Entries : bill[e] = "no" /\ bill'[e] = "held" /\ e \in passed' =>
                  /\ \E r \in Requests : OnceConfirmed(r)
                  /\ ~overlapped => \E r \in Requests : request[r] = "fully_confirmed"
<1>1. IInv /\ [Next]_vars => A
  <2> SUFFICES ASSUME IInv, [Next]_vars, NEW e \in Entries,
                      bill[e] = "no", bill'[e] = "held", e \in passed'
               PROVE  /\ \E r \in Requests : OnceConfirmed(r)
                      /\ ~overlapped => \E r \in Requests : request[r] = "fully_confirmed"
    OBVIOUS
  <2>1. PICK s \in Sessions : Commit(s)
    BY BillingStep
  <2>2. e \in session[s].charge /\ session[s].gated
    BY <2>1 DEF Commit, IInv, TypeOK, Plan
  <2>3. Backed(session[s])
    BY <2>1 DEF Commit, IInv
  <2> QED
    BY <2>1, <2>2, <2>3, PlanUpToDate DEF Backed, UpToDate
<1> QED
  BY <1>1, Inductive, PTL DEF Spec, BilledWhenConfirmed

\* As long as no two handlers overlapped, no step takes an entry that counts out
\* of the count and leaves it on an invoice.
THEOREM BilledEntryCounts == Spec => BilledCounts
<1> DEFINE A == ~overlapped => \A e \in Entries :
                  entry[e] = "active" /\ bill'[e] = "held" => entry'[e] = "active"
<1>1. IInv /\ [Next]_vars => A
  <2> SUFFICES ASSUME IInv, [Next]_vars, ~overlapped, NEW e \in Entries,
                      entry[e] = "active", bill'[e] = "held", entry'[e] # entry[e]
               PROVE  FALSE
    OBVIOUS
  <2>1. PICK s \in Sessions : Commit(s)
    BY EntryStep
  <2> DEFINE p == session[s]
  <2>2. UpToDate(p)
    BY <2>1, PlanUpToDate
  <2>3. /\ bill'[e] = IF e \in p.charge THEN "held" ELSE IF e \in p.free THEN "no" ELSE bill[e]
        /\ entry'[e] = IF e \in p.drop THEN "deleted"
                       ELSE IF e \in p.hush THEN "duplicate"
                       ELSE IF e \in p.void THEN "rejected"
                       ELSE IF e \in p.wake THEN "active" ELSE entry[e]
    BY <2>1 DEF Commit
  <2>4. e \in p.hush \cup p.void \cup p.drop
    BY <2>3
  <2>5. bill[e] # "held" /\ e \notin p.charge
    BY <2>2, <2>4 DEF UpToDate
  <2> QED
    BY <2>3, <2>5
<1> QED
  BY <1>1, Inductive, PTL DEF Spec, BilledCounts

-----------------------------------------------------------------------------
(* One copy of the work is left to bill.                                     *)

\* A set of natural numbers that is not empty has a least one.
LEMMA NatLeast ==
  ASSUME NEW T \in SUBSET Nat, T # {}
  PROVE  \E m \in T : \A n \in T : m <= n
<1> DEFINE Up == {T \cap (0..n) : n \in T}
<1>1. Up \subseteq FiniteSubsetsOf(Nat)
  <2>1. \A n \in Nat : IsFiniteSet(0..n)
    BY FS_Interval
  <2> QED
    BY <2>1, FS_Subset DEF FiniteSubsetsOf
<1>2. Up # {}
  OBVIOUS
<1>3. PICK U \in Up : \A V \in Up : ~(<<V, U>> \in StrictSubsetOrdering(Nat))
  BY <1>1, <1>2, FS_StrictSubsetOrderingWellFounded, WFMin
<1>4. PICK m \in T : U = T \cap (0..m)
  OBVIOUS
<1>5. ASSUME NEW n \in T, n < m
      PROVE  FALSE
  <2> DEFINE V == T \cap (0..n)
  <2>1. ~(<<V, U>> \in StrictSubsetOrdering(Nat))
    BY <1>3
  <2>2. V \in SUBSET Nat /\ U \in SUBSET Nat /\ V \subseteq U /\ V # U
    BY <1>4, <1>5
  <2> HIDE DEF V
  <2> QED
    BY <2>1, <2>2 DEF StrictSubsetOrdering
<1> QED
  BY <1>5

LEMMA EarliestIsFirst ==
  ASSUME NEW S \in SUBSET Entries, S # {}
  PROVE  Earliest(S) \in S
<1>1. \E e \in S : \A f \in S : e <= f
  BY NatLeast, ConfirmationAssumption
<1> QED
  BY <1>1 DEF Earliest

\* What a plan that confirms a report on a new signature promises of the entries:
\* it archives what is surplus, and does nothing else to them.
Dedup(p) ==
  p.ok # {} =>
    \/ p.add = {} /\ p.del = {} /\ p.close = {}
    \/ p.hush = Surplus /\ p.drop = {} /\ p.void = {} /\ p.wake = {} /\ p.charge = {} /\ p.free = {}

DedupInv == ~overlapped => \A s \in Sessions : session[s] # None => Dedup(session[s])

\* Planning what keeps the promise preserves it.
LEMMA BeginDedup ==
  ASSUME IInv, NEW s \in Sessions, NEW p, Begin(s, p), Dedup(p)
  PROVE  DedupInv'
<1> SUFFICES ASSUME ~overlapped', NEW t \in Sessions, session'[t] # None
             PROVE  Dedup(session[t])'
  BY DEF DedupInv
<1>1. /\ UNCHANGED <<entry, bill>> /\ session' = [session EXCEPT ![s] = p]
      /\ overlapped' = (overlapped \/ \E q \in Sessions : session[q] # None)
  BY DEF Begin, Alongside, data
<1>2. session'[t] = p
  BY <1>1 DEF IInv, TypeOK
<1> QED
  BY <1>1, <1>2 DEF Dedup, Surplus, Copies

LEMMA ReconcileDedup ==
  ASSUME IInv, DedupInv, NEW s \in Sessions, NEW C, NEW list, Reconcile(s, C, list)
  PROVE  DedupInv'
<1> DEFINE done == {r \in C : Complete(list, Signers(r))}
           p == [Nothing EXCEPT !.touch = done, !.ok = done, !.list = list]
<1>1. CASE done = {}
  BY <1>1 DEF Reconcile, data, DedupInv, Dedup, Surplus, Copies
<1>2. CASE done # {}
  <2>1. Begin(s, p)
    BY <1>2 DEF Reconcile
  <2>2. p.add = {} /\ p.del = {} /\ p.close = {}
    BY DEF Nothing
  <2> HIDE DEF p
  <2> QED
    BY <2>1, <2>2, BeginDedup DEF Dedup
<1> QED
  BY <1>1, <1>2

\* A signature that completes a report archives the surplus.
LEMMA ConfirmDedup ==
  ASSUME IInv, NEW s \in Sessions, NEW r, NEW q, NEW list, Confirm(s, r, q, list)
  PROVE  DedupInv'
<1> DEFINE done == Complete(list, Signers(r) \cup {q})
           sure == IF done THEN {r} \cap Pending ELSE {}
           surplus == IF done THEN Surplus ELSE {}
           p == [Nothing EXCEPT !.touch = {r}, !.add = {<<r, q>>}, !.list = list, !.clears = TRUE,
                                !.ok = sure, !.hush = surplus]
<1>1. Begin(s, p)
  BY DEF Confirm
<1>2. sure # {} => surplus = Surplus
  OBVIOUS
<1> HIDE DEF sure, surplus
<1>3. p.ok = sure /\ p.hush = surplus /\ p.drop = {} /\ p.void = {} /\ p.wake = {} /\ p.charge = {} /\ p.free = {}
  BY DEF Nothing
<1> HIDE DEF p
<1> QED
  BY <1>1, <1>2, <1>3, BeginDedup DEF Dedup

\* The other handlers confirm nothing.
LEMMA OtherDedup ==
  ASSUME IInv, NEW s \in Sessions, NEW r, NEW q, NEW e, NEW E, NEW F, NEW defer, NEW list,
         \/ Submit(s, r, list) \/ Delete(s, r) \/ Revoke(s, r, q) \/ EditRow(s, r)
         \/ Bill(s, E, defer) \/ Relines(s, E, F) \/ Archive(s, E) \/ Void(s, e) \/ Remove(s, e) \/ RestoreEntry(s, e)
  PROVE  DedupInv'
<1>1. ASSUME NEW p, Begin(s, p), p.ok = {} PROVE DedupInv'
  BY <1>1, BeginDedup DEF Dedup
<1> DEFINE back == {r} \cap {u \in Requests : request[u] = "fully_confirmed"}
           own == {x \in sig : x[1] = r}
<1>2. CASE Submit(s, r, list)
  <2>1. [Nothing EXCEPT !.open = {r}, !.clears = TRUE].ok = {}
    BY DEF Nothing
  <2>2. [Nothing EXCEPT !.touch = {r}, !.back = back, !.del = own, !.clears = TRUE].ok = {}
    BY DEF Nothing
  <2> QED
    BY <1>1, <1>2, <2>1, <2>2 DEF Submit
<1>3. CASE Delete(s, r)
  BY <1>1, <1>3 DEF Delete, Nothing
<1>4. CASE Revoke(s, r, q)
  <2>1. [Nothing EXCEPT !.touch = {r}, !.del = {<<r, q>>}, !.strict = TRUE, !.clears = TRUE,
                        !.back = back].ok = {}
    BY DEF Nothing
  <2> QED
    BY <1>1, <1>4, <2>1 DEF Revoke
<1>5. CASE EditRow(s, r)
  <2>1. [Nothing EXCEPT !.touch = {r}, !.del = own, !.back = back].ok = {}
    BY DEF Nothing
  <2> QED
    BY <1>1, <1>5, <2>1 DEF EditRow
<1>6. CASE Bill(s, E, defer) \/ Relines(s, E, F) \/ Archive(s, E)
  BY <1>1, <1>6 DEF Bill, Relines, Archive, Nothing
<1>7. CASE Void(s, e) \/ Remove(s, e) \/ RestoreEntry(s, e)
  BY <1>1, <1>7 DEF Void, Remove, RestoreEntry, Nothing
<1> QED
  BY <1>2, <1>3, <1>4, <1>5, <1>6, <1>7

LEMMA StepDedup == IInv /\ DedupInv /\ [Next]_vars => DedupInv'
<1> SUFFICES ASSUME IInv, DedupInv, [Next]_vars PROVE DedupInv'
  OBVIOUS
<1>1. ASSUME UNCHANGED <<entry, bill, overlapped>>,
             \A t \in Sessions : session'[t] = session[t] \/ session'[t] = None
      PROVE  DedupInv'
  BY <1>1 DEF DedupInv, Dedup, Surplus, Copies
<1>2. ASSUME NEW s \in Sessions, OnRequests(s) PROVE DedupInv'
  BY <1>2, OtherDedup, ConfirmDedup, ReconcileDedup DEF OnRequests, Preview
<1>3. ASSUME NEW s \in Sessions, OnLists(s) PROVE DedupInv'
  <2>1. CASE NotDue
    BY <1>1, <2>1 DEF NotDue, data
  <2>2. CASE ~NotDue
    BY <1>3, <2>2, ReconcileDedup DEF OnLists, ListPending, ListConfirmed
  <2> QED
    BY <2>1, <2>2
<1>4. ASSUME NEW s \in Sessions, OnEntries(s) PROVE DedupInv'
  BY <1>4, OtherDedup DEF OnEntries
<1>5. ASSUME NEW s \in Sessions, Commit(s) PROVE DedupInv'
  <2>1. ~overlapped' => \A t \in Sessions : session'[t] = None
    BY <1>5 DEF Commit, IInv, TypeOK
  <2> QED
    BY <2>1 DEF DedupInv
<1>6. ASSUME NEW s \in Sessions, Abort(s) PROVE DedupInv'
  <2>1. UNCHANGED <<entry, bill, overlapped>> /\ session' = [session EXCEPT ![s] = None]
    BY <1>6 DEF Abort, data
  <2> QED
    BY <1>1, <2>1 DEF IInv, TypeOK
<1>7. CASE ChangeTeam \/ Minute \/ (\E list \in known : Expire(list)) \/ UNCHANGED vars
  BY <1>1, <1>7 DEF ChangeTeam, Minute, Expire, vars, data
<1>8. ASSUME NEW e \in Entries, Log(e) \/ CancelInvoice(e) \/ RestoreInvoice(e) PROVE DedupInv'
  <2>1. /\ session' = session
        /\ overlapped' = (overlapped \/ \E t \in Sessions : session[t] # None)
    BY <1>8 DEF Log, CancelInvoice, RestoreInvoice, Alongside
  <2> QED
    BY <2>1 DEF DedupInv
<1> QED
  BY <1>2, <1>3, <1>4, <1>5, <1>6, <1>7, <1>8 DEF Next

\* The steps that change signatures or confirm a request.
LEMMA SigningStep ==
  ASSUME IInv, [Next]_vars, sig' # sig
  PROVE  \E s \in Sessions : Commit(s)
<1>1. ASSUME NEW s \in Sessions, NEW p, Begin(s, p) PROVE UNCHANGED sig
  BY <1>1 DEF Begin, data
<1>2. ASSUME NEW s \in Sessions, NEW C, NEW list, Reconcile(s, C, list) PROVE UNCHANGED sig
  BY <1>1, <1>2 DEF Reconcile, data
<1>3. ASSUME NEW s \in Sessions, OnRequests(s) \/ OnLists(s) \/ OnEntries(s) \/ Abort(s)
      PROVE  UNCHANGED sig
  <2>1. CASE OnRequests(s)
    BY <1>1, <1>2, <2>1 DEF OnRequests, Submit, Confirm, Preview, Delete, Revoke, EditRow
  <2>2. CASE OnLists(s)
    BY <1>2, <2>2 DEF OnLists, ListPending, ListConfirmed, NotDue, data
  <2>3. CASE OnEntries(s)
    BY <1>1, <2>3 DEF OnEntries, Bill, Relines, Archive, Void, Remove, RestoreEntry
  <2>4. CASE Abort(s)
    BY <2>4 DEF Abort, data
  <2> QED
    BY <1>3, <2>1, <2>2, <2>3, <2>4
<1>4. ASSUME ChangeTeam \/ Minute \/ (\E list \in known : Expire(list))
               \/ \E e \in Entries : Log(e) \/ CancelInvoice(e) \/ RestoreInvoice(e)
      PROVE  UNCHANGED sig
  BY <1>4 DEF ChangeTeam, Minute, Expire, Log, CancelInvoice, RestoreInvoice, data
<1>5. UNCHANGED vars => UNCHANGED sig
  BY DEF vars
<1> QED
  BY <1>3, <1>4, <1>5 DEF Next

\* As long as no two handlers overlapped, the signature that confirms a report
\* leaves one copy of its work to bill, the first, and no other that is not
\* billed already.
THEOREM FirstCopyStays == Spec => OneCopyLeft
<1> DEFINE A == ~overlapped /\ sig' # sig /\ Copies # {}
                  /\ (\E r \in Requests : request'[r] = "fully_confirmed" /\ request[r] # "fully_confirmed")
                => /\ \E e \in Entries : entry'[e] = "active"
                   /\ \A e, f \in Entries :
                        entry'[e] = "active" /\ bill'[e] # "held" /\ entry'[f] = "active" /\ bill'[f] # "held"
                          => e = f
<1>1. IInv /\ DedupInv /\ [Next]_vars => A
  <2> SUFFICES ASSUME IInv, DedupInv, [Next]_vars, ~overlapped, sig' # sig, Copies # {},
                      NEW r \in Requests, request'[r] = "fully_confirmed", request[r] # "fully_confirmed"
               PROVE  /\ \E e \in Entries : entry'[e] = "active"
                      /\ \A e, f \in Entries :
                           entry'[e] = "active" /\ bill'[e] # "held" /\ entry'[f] = "active" /\ bill'[f] # "held"
                             => e = f
    OBVIOUS
  <2>1. PICK s \in Sessions : Commit(s)
    BY SigningStep
  <2> DEFINE p == session[s]
  <2>2. p # None /\ p \in Plan /\ Dedup(p) /\ sig' = {x \in (sig \ p.del) \cup p.add : x[1] \notin p.close}
        /\ request' = Marked(p)
    BY <2>1 DEF Commit, DedupInv, IInv, TypeOK
  <2>3. r \in p.ok
    BY <2>2 DEF Marked
  <2>4. ~(p.add = {} /\ p.del = {} /\ p.close = {})
    BY <2>2
  <2>5. p.hush = Surplus /\ p.drop = {} /\ p.void = {} /\ p.wake = {} /\ p.charge = {} /\ p.free = {}
    BY <2>2, <2>3, <2>4 DEF Dedup
  <2>6. \A e \in Entries : /\ entry'[e] = IF e \in Surplus THEN "duplicate" ELSE entry[e]
                           /\ bill'[e] = bill[e]
    BY <2>1, <2>5 DEF Commit
  <2>7. Earliest(Copies) \in Copies
    BY EarliestIsFirst DEF Copies
  <2>8. Earliest(Copies) \in Entries /\ entry'[Earliest(Copies)] = "active"
    BY <2>6, <2>7 DEF Surplus, Copies
  <2>9. \A e \in Entries : entry'[e] = "active" /\ bill'[e] # "held" => e = Earliest(Copies)
    BY <2>6 DEF Surplus, Copies
  <2> QED
    BY <2>8, <2>9
<1>2. Init => DedupInv
  BY DEF Init, DedupInv
<1>3. Spec => [](IInv /\ DedupInv)
  BY <1>2, InitIInv, NextIInv, StepDedup, PTL DEF Spec
<1> QED
  BY <1>1, <1>3, PTL DEF Spec, OneCopyLeft
=============================================================================
