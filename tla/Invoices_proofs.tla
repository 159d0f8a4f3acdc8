--------------------------- MODULE Invoices_proofs ---------------------------
(* Proofs about Invoices, for any number of invoices, entries and           *)
(* overlapping handlers, and any bound on the money.                        *)
EXTENDS Invoices, TLAPS

\* An invoice row the payments of i stand behind.
Backed(l, i) ==
  /\ l \in Invoice
  /\ l.paid <= received[i]
  /\ l.status \in Settled \/ l.doc => received[i] > 0

\* The initial state satisfies the invariant.
LEMMA InitIInv == Init => IInv
<1> SUFFICES ASSUME Init PROVE IInv
  OBVIOUS
<1> QED
  BY InvoiceAssumption DEF Init, IInv, TypeOK, PaidIsCovered, MoneyBehindStatus

\* What the invariant says of a row a handler has loaded.
LEMMA LoadedBacked ==
  ASSUME IInv, NEW i \in InvoiceIds, inv[i] # None
  PROVE  Backed(inv[i], i) /\ received[i] \in 0..MaxReceived
BY DEF IInv, TypeOK, PaidIsCovered, MoneyBehindStatus, Backed

\* Following the payments keeps a row backed, and so do the other ways a
\* handler changes the status of a row.
LEMMA SyncedBacked ==
  ASSUME NEW i, received[i] \in 0..MaxReceived, NEW l \in Invoice,
         l.paid <= received[i], l.doc => received[i] > 0,
         l.status \in Settled => received[i] > 0
  PROVE  Backed(Synced(l), i)
<1>1. l.paid \in 0..MaxReceived /\ l.total \in 0..MaxTotal /\ MaxTotal \in Nat /\ MaxReceived \in Nat
  BY InvoiceAssumption DEF Invoice
<1> QED
  BY <1>1 DEF Synced, Backed, Invoice, Statuses, Settled

LEMMA RestoredBacked ==
  ASSUME NEW i, received[i] \in 0..MaxReceived, NEW l, Backed(l, i)
  PROVE  Backed(Restored(l), i)
<1>1. l.paid \in 0..MaxReceived /\ l.total \in 0..MaxTotal /\ MaxTotal \in Nat /\ MaxReceived \in Nat
  BY InvoiceAssumption DEF Backed, Invoice
<1>2. /\ BeforeCancel(l) \in Statuses
      /\ BeforeCancel(l) \in Settled => received[i] > 0
  BY <1>1 DEF BeforeCancel, Backed, Statuses, Settled
<1> QED
  BY <1>2 DEF Restored, Backed, Invoice

LEMMA MarksBacked ==
  ASSUME NEW i, NEW l, Backed(l, i)
  PROVE  Backed(SentOnce(l), i) /\ Backed(Unsent(l), i) /\ Backed(Viewed(l), i)
BY DEF SentOnce, Unsent, Viewed, Backed, Invoice, Statuses, Settled

LEMMA StatusBacked ==
  ASSUME NEW i, NEW l, Backed(l, i), NEW st \in Statuses, st \in Settled => received[i] > 0
  PROVE  Backed([l EXCEPT !.status = st], i)
BY DEF Backed, Invoice

LEMMA PatchedBacked ==
  ASSUME NEW i, received[i] \in 0..MaxReceived, NEW l, Backed(l, i), NEW total \in 0..MaxTotal
  PROVE  Backed([l EXCEPT !.total = total, !.paid = received[i]], i)
<1> DEFINE k == [l EXCEPT !.total = total, !.paid = received[i]]
<1>1. l \in Invoice /\ (l.status \in Settled \/ l.doc => received[i] > 0)
  BY DEF Backed
<1>2. k \in Invoice /\ k.paid = received[i] /\ k.status = l.status /\ k.doc = l.doc
  BY <1>1 DEF Invoice
<1>3. k.paid <= received[i]
  BY <1>2, InvoiceAssumption
<1> HIDE DEF k
<1>4. Backed(k, i)
  BY <1>1, <1>2, <1>3 DEF Backed
<1> QED
  BY <1>4 DEF k

\* Planning what keeps its promises preserves the invariant.
LEMMA PutIInv ==
  ASSUME IInv, NEW s \in Sessions, NEW p \in Plan, PlanOK(p), Put(s, p)
  PROVE  IInv'
<1>1. TypeOK'
  BY DEF IInv, TypeOK, Put
<1>2. /\ PaidIsCovered' /\ MoneyBehindStatus'
      /\ \A i \in InvoiceIds : inv'[i] = None => received'[i] = 0
  BY DEF IInv, PaidIsCovered, MoneyBehindStatus, Put
<1>3. ASSUME NEW t \in Sessions, session'[t] # None
      PROVE  PlanOK(session[t])'
  <2>1. session'[t] = IF t = s THEN p ELSE session[t]
    BY DEF IInv, TypeOK, Put
  <2>2. PlanOK(session'[t])
    BY <1>3, <2>1 DEF IInv
  <2> QED
    BY <2>2 DEF PlanOK, Put
<1> QED
  BY <1>1, <1>2, <1>3 DEF IInv

\* A plan starts blank.
LEMMA BlankPlan ==
  ASSUME NEW i \in InvoiceIds \cup {None}, NEW tgt \in Invoice
  PROVE  /\ Blank(i, tgt) \in Plan
         /\ Blank(i, tgt).op = "write" /\ Blank(i, tgt).id = i
         /\ Blank(i, tgt).tgt = tgt /\ Blank(i, tgt).pay = 0
<1>1. MaxReceived \in Nat
  BY InvoiceAssumption
<1> QED
  BY <1>1 DEF Blank, Plan

\* The plan of a handler that works on an invoice it has loaded.
LEMMA PlanIInv ==
  ASSUME IInv, NEW s \in Sessions, NEW i \in InvoiceIds, inv[i] # None,
         NEW p \in Plan, p.op # "create", p.id = i,
         p.tgt.paid <= received[i] + p.pay,
         p.tgt.status \in Settled \/ p.tgt.doc => received[i] + p.pay > 0,
         Put(s, p)
  PROVE  IInv'
<1>1. PlanOK(p)
  BY DEF PlanOK
<1> QED
  BY <1>1, PutIInv

\* Writing a row that its payments stand behind.
LEMMA WriteIInv ==
  ASSUME IInv, NEW s \in Sessions, NEW i \in InvoiceIds, inv[i] # None,
         NEW tgt, Backed(tgt, i), Write(s, i, tgt) \/ WriteStatus(s, i, tgt)
  PROVE  IInv'
<1> DEFINE b == Blank(i, tgt)
           plain == [b EXCEPT !.snap = inv[i]]
           forced == [b EXCEPT !.snap = inv[i], !.force = TRUE]
<1>1. received[i] \in 0..MaxReceived /\ inv[i] \in Invoice
  BY LoadedBacked DEF IInv, TypeOK
<1>2. /\ tgt \in Invoice
      /\ tgt.paid <= received[i]
      /\ tgt.status \in Settled \/ tgt.doc => received[i] > 0
  BY DEF Backed
<1>3. received[i] + 0 = received[i]
  BY <1>1, InvoiceAssumption
<1>4. b \in Plan /\ b.op = "write" /\ b.id = i /\ b.tgt = tgt /\ b.pay = 0
  BY <1>2, BlankPlan
<1>5. Put(s, plain) \/ Put(s, forced)
  BY DEF Write, WriteStatus
<1> HIDE DEF b
<1>6. /\ plain \in Plan /\ plain.op = "write" /\ plain.id = i
      /\ plain.tgt = tgt /\ plain.pay = 0
  BY <1>1, <1>4 DEF Plan
<1>7. /\ forced \in Plan /\ forced.op = "write" /\ forced.id = i
      /\ forced.tgt = tgt /\ forced.pay = 0
  BY <1>1, <1>4 DEF Plan
<1> HIDE DEF plain, forced
<1>8. CASE Put(s, plain)
  BY <1>2, <1>3, <1>6, <1>8, PlanIInv
<1>9. CASE Put(s, forced)
  BY <1>2, <1>3, <1>7, <1>9, PlanIInv
<1> QED
  BY <1>5, <1>8, <1>9

\* Taking a payment.
LEMMA PaymentIInv ==
  ASSUME IInv, NEW s \in Sessions, NEW i \in InvoiceIds, inv[i] # None,
         NEW l \in Invoice, NEW amount \in Nat \ {0}, Payment(s, i, l, amount)
  PROVE  IInv'
<1> DEFINE row == [l EXCEPT !.paid = received[i] + amount]
           tgt == Synced(row)
           b == Blank(i, tgt)
           p == [b EXCEPT !.snap = inv[i], !.force = TRUE, !.pay = amount]
<1>1. /\ received[i] \in Nat /\ MaxReceived \in Nat /\ received[i] + amount <= MaxReceived
      /\ inv[i] \in Invoice
  BY LoadedBacked, InvoiceAssumption DEF Payment, IInv, TypeOK
<1>2. Put(s, p)
  BY DEF Payment
<1>3. row \in Invoice /\ row.paid = received[i] + amount
  BY <1>1 DEF Invoice
<1> HIDE DEF row
<1>4. tgt \in Invoice /\ tgt.paid = received[i] + amount
  BY <1>3 DEF Synced, Invoice, Statuses, Settled
<1> HIDE DEF tgt
<1>5. b \in Plan /\ b.op = "write" /\ b.id = i /\ b.tgt = tgt
  BY <1>4, BlankPlan
<1> HIDE DEF b
<1>6. amount \in 0..MaxReceived /\ tgt.paid <= received[i] + amount /\ received[i] + amount > 0
  BY <1>1, <1>4
<1>7. /\ p \in Plan /\ p.op = "write" /\ p.id = i
      /\ p.tgt = tgt /\ p.pay = amount
  BY <1>1, <1>5, <1>6 DEF Plan
<1> HIDE DEF p
<1> QED
  BY <1>2, <1>6, <1>7, PlanIInv

\* A status chosen in the registry, once the invoice is alive and sent.
LEMMA RegistryMoneyIInv ==
  ASSUME IInv, NEW s \in Sessions, NEW i \in InvoiceIds, inv[i] # None,
         NEW key, NEW l, Backed(l, i), RegistryMoney(s, i, key, l)
  PROVE  IInv'
<1> DEFINE left == l.total - l.paid
           overdue == IF l.status \in {"sent", "viewed", "partial_paid"} THEN l.status ELSE "sent"
<1>1. /\ l \in Invoice /\ l.paid \in Nat /\ l.total \in Nat /\ l.status \in Statuses
      /\ received[i] \in Nat /\ l.paid <= received[i]
      /\ l.status \in Settled => received[i] > 0
  BY LoadedBacked, InvoiceAssumption DEF Backed, Invoice
<1>2. CASE Write(s, i, l)
  BY <1>2, WriteIInv
<1>3. CASE l.total > received[i] /\ Payment(s, i, l, l.total - received[i])
  <2>1. l.total - received[i] \in Nat \ {0}
    BY <1>1, <1>3
  <2> QED
    BY <1>1, <1>3, <2>1, PaymentIInv
<1>4. CASE l.paid > 0 /\ WriteStatus(s, i, [l EXCEPT !.status = "partial_paid"])
  <2>1. received[i] > 0 /\ "partial_paid" \in Statuses
    BY <1>1, <1>4 DEF Statuses, Settled
  <2>2. Backed([l EXCEPT !.status = "partial_paid"], i)
    BY <2>1, StatusBacked
  <2> QED
    BY <1>4, <2>2, WriteIInv
<1>5. CASE WriteStatus(s, i, [l EXCEPT !.status = overdue])
  <2>1. overdue \in Statuses /\ (overdue \in Settled => received[i] > 0)
    BY <1>1 DEF Statuses, Settled
  <2> HIDE DEF overdue
  <2>2. Backed([l EXCEPT !.status = overdue], i)
    BY <2>1, StatusBacked
  <2> QED
    BY <1>5, <2>2, WriteIInv
<1>6. CASE WriteStatus(s, i, [l EXCEPT !.status = "sent", !.sent = TRUE, !.viewed = FALSE])
  <2>1. Backed([l EXCEPT !.status = "sent", !.sent = TRUE, !.viewed = FALSE], i)
    BY DEF Backed, Invoice, Statuses, Settled
  <2> QED
    BY <1>6, <2>1, WriteIInv
<1>7. CASE Write(s, i, Viewed(l))
  BY <1>7, MarksBacked, WriteIInv
<1> QED
  BY <1>2, <1>3, <1>4, <1>5, <1>6, <1>7 DEF RegistryMoney

\* Any status chosen in the registry.
LEMMA RegistryIInv ==
  ASSUME IInv, NEW s \in Sessions, NEW i \in InvoiceIds, NEW key \in Keys,
         NEW late \in BOOLEAN, Registry(s, i, key, late)
  PROVE  IInv'
<1> DEFINE row == inv[i]
           l == IF row.status = "canceled" /\ key # "canceled" THEN Restored(row) ELSE row
           alive == IF l.status = "draft" THEN SentOnce(l) ELSE l
<1>1. inv[i] # None
  BY DEF Registry, Loadable
<1>2. received[i] \in 0..MaxReceived /\ Backed(row, i)
  BY <1>1, LoadedBacked
<1>3. Backed(l, i)
  BY <1>2, RestoredBacked
<1>4. \/ WriteStatus(s, i, l)
      \/ key \in Notes /\ WriteStatus(s, i, [l EXCEPT !.status = key])
      \/ WriteStatus(s, i, [l EXCEPT !.status = "draft"])
      \/ WriteStatus(s, i, Unsent(l))
      \/ Write(s, i, [l EXCEPT !.status = "canceled"])
      \/ RegistryMoney(s, i, key, alive)
  BY DEF Registry
<1> HIDE DEF l
<1>5. CASE WriteStatus(s, i, l)
  BY <1>1, <1>3, <1>5, WriteIInv
<1>6. CASE key \in Notes /\ WriteStatus(s, i, [l EXCEPT !.status = key])
  <2>1. key \in Statuses /\ key \notin Settled
    BY <1>6, InvoiceAssumption DEF Statuses, Settled, AllNotes
  <2>2. Backed([l EXCEPT !.status = key], i)
    BY <1>3, <2>1, StatusBacked
  <2> QED
    BY <1>1, <1>6, <2>2, WriteIInv
<1>7. CASE WriteStatus(s, i, [l EXCEPT !.status = "draft"])
  <2>1. "draft" \in Statuses /\ "draft" \notin Settled
    BY DEF Statuses, Settled
  <2>2. Backed([l EXCEPT !.status = "draft"], i)
    BY <1>3, <2>1, StatusBacked
  <2> QED
    BY <1>1, <1>7, <2>2, WriteIInv
<1>8. CASE WriteStatus(s, i, Unsent(l))
  BY <1>1, <1>3, <1>8, MarksBacked, WriteIInv
<1>9. CASE Write(s, i, [l EXCEPT !.status = "canceled"])
  <2>1. "canceled" \in Statuses /\ "canceled" \notin Settled
    BY DEF Statuses, Settled
  <2>2. Backed([l EXCEPT !.status = "canceled"], i)
    BY <1>3, <2>1, StatusBacked
  <2> QED
    BY <1>1, <1>9, <2>2, WriteIInv
<1>10. CASE RegistryMoney(s, i, key, alive)
  <2>1. Backed(alive, i)
    BY <1>3, MarksBacked
  <2> HIDE DEF alive
  <2> QED
    BY <1>1, <1>10, <2>1, RegistryMoneyIInv
<1> QED
  BY <1>4, <1>5, <1>6, <1>7, <1>8, <1>9, <1>10

\* The handlers, each up to its commit, preserve the invariant.
LEMMA HandlerIInv ==
  ASSUME IInv, NEW s \in Sessions, Handler(s)
  PROVE  IInv'
<1>1. ASSUME NEW L \in SUBSET Billables, NEW total \in 0..MaxTotal,
             NEW cancels \in SUBSET InvoiceIds, Create(s, L, total, cancels)
      PROVE  IInv'
  <2> DEFINE l == [status |-> "draft", total |-> total, paid |-> 0, sent |-> FALSE,
                   viewed |-> FALSE, doc |-> FALSE]
             b == Blank(None, l)
             p == [b EXCEPT !.op = "create", !.relines = TRUE, !.new = L, !.cancels = cancels]
  <2>1. l \in Invoice
    BY InvoiceAssumption DEF Invoice, Statuses
  <2>2. l.paid = 0 /\ l.status = "draft" /\ ~l.doc
    OBVIOUS
  <2>3. Put(s, p)
    BY <1>1 DEF Create
  <2> HIDE DEF l
  <2>4. b \in Plan /\ b.tgt = l
    BY <2>1, BlankPlan
  <2> HIDE DEF b
  <2>5. p \in Plan /\ p.op = "create" /\ p.tgt = l
    BY <2>4 DEF Plan
  <2> HIDE DEF p
  <2>6. PlanOK(p)
    BY <2>2, <2>5 DEF PlanOK
  <2> QED
    BY <2>3, <2>5, <2>6, PutIInv
<1>2. ASSUME NEW i \in InvoiceIds, NEW total \in 0..MaxTotal, Patch(s, i, total)
      PROVE  IInv'
  <2> DEFINE l == [inv[i] EXCEPT !.total = total, !.paid = received[i]]
  <2>1. inv[i] # None /\ Write(s, i, l)
    BY <1>2 DEF Patch, Loadable
  <2>2. Backed(inv[i], i) /\ received[i] \in 0..MaxReceived
    BY <2>1, LoadedBacked
  <2>3. Backed(l, i)
    BY <2>2, PatchedBacked
  <2> QED
    BY <2>1, <2>3, WriteIInv
<1>3. ASSUME NEW i \in InvoiceIds, NEW L \in SUBSET Billables, NEW total \in 0..MaxTotal,
             PatchLines(s, i, L, total)
      PROVE  IInv'
  <2> DEFINE l == [inv[i] EXCEPT !.total = total, !.paid = received[i]]
             b == Blank(i, l)
             p == [b EXCEPT !.snap = inv[i], !.relines = TRUE, !.new = L]
  <2>1. inv[i] # None /\ Put(s, p)
    BY <1>3 DEF PatchLines, Loadable
  <2>2. Backed(inv[i], i) /\ received[i] \in 0..MaxReceived /\ inv[i] \in Invoice
    BY <2>1, LoadedBacked DEF Backed
  <2>3. Backed(l, i)
    BY <2>2, PatchedBacked
  <2> HIDE DEF l
  <2>4. /\ l \in Invoice /\ l.paid <= received[i] + 0
        /\ l.status \in Settled \/ l.doc => received[i] + 0 > 0
    BY <2>2, <2>3, InvoiceAssumption DEF Backed
  <2>5. b \in Plan /\ b.op = "write" /\ b.id = i /\ b.tgt = l /\ b.pay = 0
    BY <2>4, BlankPlan
  <2> HIDE DEF b
  <2>6. /\ p \in Plan /\ p.op = "write" /\ p.id = i
        /\ p.tgt = l /\ p.pay = 0
    BY <2>2, <2>5 DEF Plan
  <2> HIDE DEF p
  <2> QED
    BY <2>1, <2>4, <2>6, PlanIInv
<1>4. ASSUME NEW i \in InvoiceIds, Send(s, i) \/ Unsend(s, i) \/ MarkViewed(s, i)
      PROVE  IInv'
  <2>1. /\ inv[i] # None
        /\ \/ Write(s, i, SentOnce(inv[i])) \/ WriteStatus(s, i, Unsent(inv[i]))
           \/ Write(s, i, Viewed(inv[i]))
    BY <1>4 DEF Send, Unsend, MarkViewed, Loadable
  <2> QED
    BY <2>1, LoadedBacked, MarksBacked, WriteIInv
<1>5. ASSUME NEW i \in InvoiceIds, NEW amount \in 1..MaxReceived, RegisterPayment(s, i, amount)
      PROVE  IInv'
  <2>1. inv[i] # None /\ Payment(s, i, inv[i], amount)
    BY <1>5 DEF RegisterPayment, Loadable
  <2>2. inv[i] \in Invoice /\ amount \in Nat \ {0}
    BY <2>1, InvoiceAssumption DEF IInv, TypeOK
  <2> QED
    BY <2>1, <2>2, PaymentIInv
<1>6. ASSUME NEW i \in InvoiceIds, inv[i] # None
      PROVE  /\ Backed(Reconciled(i), i)
             /\ Reconciled(i) \in Invoice
             /\ \A late \in BOOLEAN : Effective(Reconciled(i), late) = "paid" => received[i] > 0
  <2> DEFINE row == [inv[i] EXCEPT !.paid = received[i]]
             l == Synced(row)
  <2>1. Backed(inv[i], i) /\ received[i] \in 0..MaxReceived
    BY <1>6, LoadedBacked
  <2>2. row \in Invoice /\ row.paid <= received[i] /\ row.paid = received[i]
        /\ (row.doc => received[i] > 0) /\ (row.status \in Settled => received[i] > 0)
    BY <2>1, InvoiceAssumption DEF Backed, Invoice
  <2>3. Reconciled(i) = l
    BY DEF Reconciled
  <2> HIDE DEF row
  <2>4. Backed(l, i)
    BY <2>1, <2>2, SyncedBacked
  <2>5. l.paid = received[i]
    BY <2>2 DEF Synced, Invoice
  <2> HIDE DEF l
  <2>6. ASSUME NEW late \in BOOLEAN, Effective(l, late) = "paid"
        PROVE  received[i] > 0
    <3>1. l \in Invoice /\ (l.status \in Settled => received[i] > 0)
      BY <2>4 DEF Backed
    <3>2. l.status = "paid" \/ (l.total > 0 /\ l.total <= l.paid)
      BY <2>6, <3>1 DEF Effective, AllNotes, Invoice, Statuses, Settled
    <3> QED
      BY <2>1, <2>5, <3>1, <3>2, InvoiceAssumption DEF Settled, Invoice
  <2> QED
    BY <2>3, <2>4, <2>6 DEF Backed
<1>7. ASSUME NEW i \in InvoiceIds, Confirm(s, i)
      PROVE  IInv'
  <2> DEFINE l == [Reconciled(i) EXCEPT !.doc = TRUE]
  <2>1. inv[i] # None /\ Write(s, i, l) /\ \E late \in BOOLEAN : Effective(Reconciled(i), late) = "paid"
    BY <1>7 DEF Confirm, Loadable
  <2>2. Backed(Reconciled(i), i) /\ received[i] > 0
    BY <1>6, <2>1
  <2>3. Backed(l, i)
    BY <2>2 DEF Backed, Invoice
  <2> QED
    BY <2>1, <2>3, WriteIInv
<1>8. ASSUME NEW i \in InvoiceIds, Get(s, i)
      PROVE  IInv'
  <2>1. inv[i] # None /\ Write(s, i, Reconciled(i))
    BY <1>8 DEF Get, Loadable
  <2> QED
    BY <1>6, <2>1, WriteIInv
<1>9. ASSUME NEW i \in InvoiceIds, Cancel(s, i)
      PROVE  IInv'
  <2>1. inv[i] # None /\ Write(s, i, [inv[i] EXCEPT !.status = "canceled"])
    BY <1>9 DEF Cancel, Loadable
  <2>2. "canceled" \in Statuses /\ "canceled" \notin Settled
    BY DEF Statuses, Settled
  <2>3. Backed([inv[i] EXCEPT !.status = "canceled"], i)
    BY <2>1, <2>2, LoadedBacked, StatusBacked
  <2> QED
    BY <2>1, <2>3, WriteIInv
<1>10. ASSUME NEW i \in InvoiceIds, Restore(s, i)
       PROVE  IInv'
  <2>1. inv[i] # None /\ WriteStatus(s, i, Restored(inv[i]))
    BY <1>10 DEF Restore, Loadable
  <2>2. Backed(Restored(inv[i]), i)
    BY <2>1, LoadedBacked, RestoredBacked
  <2> QED
    BY <2>1, <2>2, WriteIInv
<1>11. ASSUME NEW i \in InvoiceIds, Delete(s, i)
       PROVE  IInv'
  <2> DEFINE b == Blank(i, inv[i])
             p == [b EXCEPT !.op = "delete"]
  <2>1. inv[i] # None /\ Put(s, p)
    BY <1>11 DEF Delete, Loadable
  <2>2. /\ inv[i] \in Invoice /\ inv[i].paid <= received[i] + 0
        /\ inv[i].status \in Settled \/ inv[i].doc => received[i] + 0 > 0
    BY <2>1, LoadedBacked, InvoiceAssumption DEF Backed
  <2>3. b \in Plan /\ b.id = i /\ b.tgt = inv[i] /\ b.pay = 0
    BY <2>2, BlankPlan
  <2> HIDE DEF b
  <2>4. p \in Plan /\ p.op = "delete" /\ p.id = i /\ p.tgt = inv[i] /\ p.pay = 0
    BY <2>3 DEF Plan
  <2> HIDE DEF p
  <2> QED
    BY <2>1, <2>2, <2>4, PlanIInv
<1> QED
  BY <1>1, <1>2, <1>3, <1>4, <1>5, <1>7, <1>8, <1>9, <1>10, <1>11, RegistryIInv DEF Handler

\* Inserting a new invoice preserves the invariant: no plan names its id.
LEMMA CommitCreateIInv ==
  ASSUME IInv, NEW s \in Sessions, CommitCreate(s)
  PROVE  IInv'
<1> DEFINE p == session[s]
<1>1. p \in Plan /\ p.op = "create" /\ p.tgt \in Invoice
      /\ p.tgt.paid = 0 /\ p.tgt.status = "draft" /\ ~p.tgt.doc
  BY DEF CommitCreate, IInv, TypeOK, PlanOK, Plan
<1>2. PICK i \in InvoiceIds :
        /\ inv[i] = None /\ i \notin gone
        /\ inv' = [j \in InvoiceIds |->
             IF j = i THEN p.tgt
             ELSE IF j \in p.cancels THEN [inv[j] EXCEPT !.status = "canceled"] ELSE inv[j]]
        /\ lines' = [lines EXCEPT ![i] = p.new]
  BY DEF CommitCreate
<1>3. /\ session' = [session EXCEPT ![s] = None] /\ UNCHANGED <<received, gone>>
      /\ \A j \in p.cancels : inv[j] # None
      /\ p.new \in SUBSET Billables
  BY <1>1 DEF CommitCreate, Plan
<1> HIDE DEF p
<1>4. ASSUME NEW j \in InvoiceIds
      PROVE  /\ inv'[j] \in Invoice \cup {None}
             /\ inv'[j] # None => Backed(inv'[j], j)
             /\ inv'[j] = None => inv[j] = None
             /\ j # i => (inv'[j] = None <=> inv[j] = None)
  <2>1. received[j] \in 0..MaxReceived /\ (inv[j] = None => received[j] = 0)
    BY DEF IInv, TypeOK
  <2>2. CASE j = i
    <3>1. inv'[j] = p.tgt /\ received[j] = 0
      BY <1>2, <2>1, <2>2
    <3> QED
      BY <1>1, <1>2, <2>2, <3>1, NoneAssumption DEF Backed, Settled
  <2>3. CASE j # i /\ j \in p.cancels
    <3> DEFINE row == [inv[j] EXCEPT !.status = "canceled"]
    <3>1. inv'[j] = row /\ inv[j] # None
      BY <1>2, <1>3, <2>3
    <3>2. "canceled" \in Statuses /\ "canceled" \notin Settled
      BY DEF Statuses, Settled
    <3>3. Backed(row, j)
      BY <3>1, <3>2, LoadedBacked, StatusBacked
    <3>4. row \in Invoice
      BY <3>3 DEF Backed
    <3> HIDE DEF row
    <3> QED
      BY <2>3, <3>1, <3>3, <3>4, NoneAssumption
  <2>4. CASE j # i /\ j \notin p.cancels
    <3>1. inv'[j] = inv[j]
      BY <1>2, <2>4
    <3> QED
      BY <2>4, <3>1, LoadedBacked DEF IInv, TypeOK
  <2> QED
    BY <2>2, <2>3, <2>4
<1>5. TypeOK'
  BY <1>2, <1>3, <1>4 DEF IInv, TypeOK
<1>6. PaidIsCovered' /\ MoneyBehindStatus'
  <2>1. ASSUME NEW j \in InvoiceIds, inv'[j] # None
        PROVE  /\ inv'[j].paid <= received'[j]
               /\ inv'[j].status \in Settled \/ inv'[j].doc => received'[j] > 0
    BY <1>3, <1>4, <2>1 DEF Backed
  <2> QED
    BY <2>1 DEF PaidIsCovered, MoneyBehindStatus
<1>7. \A j \in InvoiceIds : inv'[j] = None => received'[j] = 0
  BY <1>3, <1>4 DEF IInv
<1>8. ASSUME NEW t \in Sessions, session'[t] # None
      PROVE  PlanOK(session[t])'
  <2>1. session'[t] = session[t] /\ PlanOK(session[t])
    BY <1>3, <1>8 DEF IInv, TypeOK
  <2> QED
    BY <1>2, <1>3, <1>4, <2>1 DEF PlanOK
<1> QED
  BY <1>5, <1>6, <1>7, <1>8 DEF IInv

\* A merged row takes each column from the table or from the plan.
LEMMA MergeRow ==
  ASSUME NEW cur \in Invoice, NEW p \in Plan
  PROVE  /\ Merge(cur, p) \in Invoice
         /\ Merge(cur, p).paid \in {cur.paid, p.tgt.paid}
         /\ Merge(cur, p).status \in {cur.status, p.tgt.status}
         /\ Merge(cur, p).doc \in {cur.doc, p.tgt.doc}
<1> DEFINE m == Merge(cur, p)
           tgt == p.tgt
           status == IF p.force THEN tgt.status ELSE Changed(cur.status, p.snap.status, tgt.status)
           total == Changed(cur.total, p.snap.total, tgt.total)
           paid == IF p.pay > 0 THEN tgt.paid ELSE Changed(cur.paid, p.snap.paid, tgt.paid)
           sent == Changed(cur.sent, p.snap.sent, tgt.sent)
           viewed == Changed(cur.viewed, p.snap.viewed, tgt.viewed)
           doc == Changed(cur.doc, p.snap.doc, tgt.doc)
<1>1. m = [cur EXCEPT !.status = status, !.total = total, !.paid = paid, !.sent = sent,
                      !.viewed = viewed, !.doc = doc]
  BY DEF Merge
<1>2. /\ status \in {cur.status, tgt.status} /\ total \in {cur.total, tgt.total}
      /\ paid \in {cur.paid, tgt.paid} /\ sent \in {cur.sent, tgt.sent}
      /\ viewed \in {cur.viewed, tgt.viewed} /\ doc \in {cur.doc, tgt.doc}
  BY DEF Changed
<1>3. tgt \in Invoice
  BY DEF Plan
<1> HIDE DEF m, tgt, status, total, paid, sent, viewed, doc
<1>4. /\ status \in Statuses /\ total \in 0..MaxTotal /\ paid \in 0..MaxReceived
      /\ sent \in BOOLEAN /\ viewed \in BOOLEAN /\ doc \in BOOLEAN
  BY <1>2, <1>3 DEF Invoice
<1>5. /\ m \in Invoice
      /\ m.paid = paid /\ m.status = status /\ m.doc = doc
  BY <1>1, <1>4 DEF Invoice
<1> QED
  BY <1>2, <1>5 DEF m, tgt

\* Committing a change, with its payment and its lines.
LEMMA CommitWriteIInv ==
  ASSUME IInv, NEW s \in Sessions, CommitWrite(s)
  PROVE  IInv'
<1> DEFINE p == session[s]
           i == p.id
           row == Merge(inv[i], p)
<1>1. /\ p \in Plan /\ p.op = "write" /\ inv[i] # None
      /\ received[i] + p.pay <= MaxReceived
  BY DEF CommitWrite, IInv, TypeOK
<1>2. /\ inv' = [inv EXCEPT ![i] = row]
      /\ received' = [received EXCEPT ![i] = @ + p.pay]
      /\ lines' = [lines EXCEPT ![i] =
           IF p.relines THEN p.new \cup (IF p.fresh THEN {} ELSE @) ELSE @]
      /\ session' = [t \in Sessions |->
           IF t = s THEN None
           ELSE IF session[t] # None /\ session[t].id = i /\ p.relines /\ session[t].relines
           THEN [session[t] EXCEPT !.fresh = FALSE] ELSE session[t]]
      /\ gone' = gone
  BY DEF CommitWrite
<1>3. /\ i \in InvoiceIds /\ inv[i] \in Invoice /\ p.pay \in Nat /\ received[i] \in Nat
      /\ p.tgt \in Invoice /\ p.snap \in Invoice /\ p.new \in SUBSET Billables
      /\ p.tgt.paid <= received[i] + p.pay
      /\ p.tgt.status \in Settled \/ p.tgt.doc => received[i] + p.pay > 0
  <2>1. PlanOK(p)
    BY <1>1, NoneAssumption DEF IInv
  <2>2. /\ i \in InvoiceIds
        /\ p.tgt.paid <= received[i] + p.pay
        /\ p.tgt.status \in Settled \/ p.tgt.doc => received[i] + p.pay > 0
    BY <1>1, <2>1 DEF PlanOK
  <2>3. /\ p.tgt \in Invoice /\ p.snap \in Invoice /\ p.new \in SUBSET Billables
        /\ p.pay \in Nat
    BY <1>1, InvoiceAssumption DEF Plan
  <2>4. inv[i] \in Invoice /\ received[i] \in Nat
    BY <1>1, <2>2, InvoiceAssumption DEF IInv, TypeOK
  <2> QED
    BY <2>2, <2>3, <2>4
<1>4. Backed(inv[i], i)
  BY <1>1, <1>3, LoadedBacked
<1>5. /\ row \in Invoice
      /\ row.paid \in {inv[i].paid, p.tgt.paid}
      /\ row.status \in {inv[i].status, p.tgt.status}
      /\ row.doc \in {inv[i].doc, p.tgt.doc}
  BY <1>1, <1>3, MergeRow
<1> HIDE DEF row
<1>6. row.paid <= received[i] + p.pay
  BY <1>3, <1>4, <1>5, InvoiceAssumption DEF Backed, Invoice
<1>7. row.status \in Settled \/ row.doc => received[i] + p.pay > 0
  <2>1. inv[i].status \in Settled \/ inv[i].doc => received[i] + p.pay > 0
    BY <1>3, <1>4 DEF Backed
  <2> QED
    BY <1>3, <1>5, <2>1
<1>8. received'[i] = received[i] + p.pay /\ received'[i] \in 0..MaxReceived
  BY <1>1, <1>2, <1>3, InvoiceAssumption DEF IInv, TypeOK
<1>9. /\ inv'[i] = row
      /\ \A j \in InvoiceIds : j # i => inv'[j] = inv[j] /\ received'[j] = received[j]
  BY <1>2, <1>3 DEF IInv, TypeOK
<1>10. row # None
  BY <1>5, NoneAssumption
<1>11. ASSUME NEW t \in Sessions
       PROVE  /\ session'[t] \in Plan \cup {None}
              /\ session'[t] # None =>
                   /\ session[t] # None
                   /\ session'[t].op = session[t].op /\ session'[t].id = session[t].id
                   /\ session'[t].tgt = session[t].tgt /\ session'[t].pay = session[t].pay
  <2>1. session[t] \in Plan \cup {None}
    BY DEF IInv, TypeOK
  <2>2. session'[t] \in {None, session[t]}
        \/ (session[t] # None /\ session'[t] = [session[t] EXCEPT !.fresh = FALSE])
    BY <1>2
  <2>3. CASE session'[t] \in {None, session[t]}
    BY <2>1, <2>3
  <2>4. CASE session[t] # None /\ session'[t] = [session[t] EXCEPT !.fresh = FALSE]
    BY <2>1, <2>4 DEF Plan
  <2> QED
    BY <2>2, <2>3, <2>4
<1>12. TypeOK'
  <2>1. lines' \in [InvoiceIds -> SUBSET Billables]
    BY <1>2, <1>3 DEF IInv, TypeOK
  <2>2. session' \in [Sessions -> Plan \cup {None}]
    BY <1>2, <1>11
  <2>3. inv' \in [InvoiceIds -> Invoice \cup {None}]
    BY <1>2, <1>3, <1>5 DEF IInv, TypeOK
  <2>4. received' \in [InvoiceIds -> 0..MaxReceived]
    BY <1>2, <1>8, <1>9 DEF IInv, TypeOK
  <2> QED
    BY <1>2, <2>1, <2>2, <2>3, <2>4 DEF IInv, TypeOK
<1>13. ASSUME NEW j \in InvoiceIds, inv'[j] # None
       PROVE  /\ inv'[j].paid <= received'[j]
              /\ inv'[j].status \in Settled \/ inv'[j].doc => received'[j] > 0
  <2>1. CASE j = i
    BY <1>6, <1>7, <1>8, <1>9, <2>1
  <2>2. CASE j # i
    BY <1>9, <1>13, <2>2 DEF IInv, PaidIsCovered, MoneyBehindStatus
  <2> QED
    BY <2>1, <2>2
<1>14. \A j \in InvoiceIds : inv'[j] = None => received'[j] = 0
  BY <1>9, <1>10 DEF IInv
<1>15. ASSUME NEW t \in Sessions, session'[t] # None
       PROVE  PlanOK(session[t])'
  <2> DEFINE q == session[t]
             r == session'[t]
             k == q.id
  <2>1. /\ q # None /\ q \in Plan /\ r \in Plan
        /\ r.op = q.op /\ r.id = k /\ r.tgt = q.tgt /\ r.pay = q.pay
    BY <1>11, <1>15 DEF IInv, TypeOK
  <2>2. PlanOK(q)
    BY <2>1 DEF IInv
  <2>3. q.pay \in Nat /\ q.tgt \in Invoice /\ q.tgt.paid \in Nat
    BY <2>1, InvoiceAssumption DEF Plan, Invoice
  <2> HIDE DEF q, r
  <2>4. CASE q.op = "create"
    BY <2>1, <2>2, <2>4 DEF PlanOK, r
  <2>5. CASE q.op # "create"
    <3>1. /\ k \in InvoiceIds
          /\ inv[k] # None \/ k \in gone
          /\ inv[k] # None =>
               /\ q.tgt.paid <= received[k] + q.pay
               /\ q.tgt.status \in Settled \/ q.tgt.doc => received[k] + q.pay > 0
      BY <2>2, <2>5 DEF PlanOK
    <3>2. received[k] \in Nat /\ received'[k] \in Nat /\ received[k] <= received'[k]
          /\ (inv'[k] = None <=> inv[k] = None)
      BY <1>1, <1>3, <1>8, <1>9, <1>10, <3>1, InvoiceAssumption DEF IInv, TypeOK
    <3> HIDE DEF k
    <3>3. received[k] + q.pay <= received'[k] + q.pay
      BY <2>3, <3>2
    <3>4. q.tgt.paid <= received[k] + q.pay => q.tgt.paid <= received'[k] + q.pay
      BY <2>3, <3>2, <3>3
    <3>5. received[k] + q.pay > 0 => received'[k] + q.pay > 0
      BY <2>3, <3>2, <3>3
    <3>6. /\ inv'[k] # None \/ k \in gone'
          /\ inv'[k] # None =>
               /\ q.tgt.paid <= received'[k] + q.pay
               /\ q.tgt.status \in Settled \/ q.tgt.doc => received'[k] + q.pay > 0
      BY <1>2, <3>1, <3>2, <3>4, <3>5
    <3> QED
      BY <2>1, <2>5, <3>1, <3>6 DEF PlanOK, r
  <2> QED
    BY <2>4, <2>5
<1>16. PaidIsCovered' /\ MoneyBehindStatus'
  BY <1>13 DEF PaidIsCovered, MoneyBehindStatus
<1> QED
  BY <1>12, <1>14, <1>15, <1>16 DEF IInv

\* Deleting an invoice: the plans that name it can no longer be committed.
LEMMA CommitDeleteIInv ==
  ASSUME IInv, NEW s \in Sessions, CommitDelete(s)
  PROVE  IInv'
<1> DEFINE i == session[s].id
<1>1. /\ session[s] # None /\ session[s].op = "delete" /\ inv[i] # None
      /\ inv' = [inv EXCEPT ![i] = None]
      /\ lines' = [lines EXCEPT ![i] = {}]
      /\ received' = [received EXCEPT ![i] = 0]
      /\ gone' = gone \cup {i}
      /\ session' = [session EXCEPT ![s] = None]
  BY DEF CommitDelete
<1>2. i \in InvoiceIds
  BY <1>1 DEF IInv, PlanOK
<1> HIDE DEF i
<1>3. TypeOK'
  <2>1. 0 \in 0..MaxReceived
    BY InvoiceAssumption
  <2> QED
    BY <1>1, <1>2, <2>1 DEF IInv, TypeOK
<1>4. /\ inv'[i] = None /\ received'[i] = 0
      /\ \A j \in InvoiceIds : j # i => inv'[j] = inv[j] /\ received'[j] = received[j]
  BY <1>1, <1>2 DEF IInv, TypeOK
<1>5. PaidIsCovered' /\ MoneyBehindStatus'
  BY <1>4 DEF IInv, PaidIsCovered, MoneyBehindStatus
<1>6. \A j \in InvoiceIds : inv'[j] = None => received'[j] = 0
  BY <1>4 DEF IInv
<1>7. ASSUME NEW t \in Sessions, session'[t] # None
      PROVE  PlanOK(session[t])'
  <2>1. session'[t] = session[t] /\ PlanOK(session[t])
    BY <1>1, <1>7 DEF IInv, TypeOK
  <2> DEFINE q == session[t]
             r == session'[t]
             k == q.id
  <2>2. q = r /\ PlanOK(q)
    BY <2>1
  <2> HIDE DEF q
  <2>3. CASE q.op = "create"
    BY <2>2, <2>3 DEF PlanOK, q
  <2>4. CASE q.op # "create"
    <3>1. /\ k \in InvoiceIds
          /\ inv[k] # None \/ k \in gone
          /\ inv[k] # None =>
               /\ q.tgt.paid <= received[k] + q.pay
               /\ q.tgt.status \in Settled \/ q.tgt.doc => received[k] + q.pay > 0
      BY <2>2, <2>4 DEF PlanOK
    <3>2. /\ inv'[k] # None \/ k \in gone'
          /\ inv'[k] # None =>
               /\ q.tgt.paid <= received'[k] + q.pay
               /\ q.tgt.status \in Settled \/ q.tgt.doc => received'[k] + q.pay > 0
      BY <1>1, <1>4, <3>1
    <3> HIDE DEF r
    <3> QED
      BY <2>2, <2>4, <3>1, <3>2 DEF PlanOK, r
  <2> QED
    BY <2>3, <2>4
<1> QED
  BY <1>3, <1>5, <1>6, <1>7 DEF IInv

\* Dropping a plan preserves the invariant.
LEMMA AbortIInv ==
  ASSUME IInv, NEW s \in Sessions, Abort(s)
  PROVE  IInv'
<1>1. session' = [session EXCEPT ![s] = None] /\ UNCHANGED <<inv, lines, received, gone>>
  BY DEF Abort
<1>2. TypeOK'
  BY <1>1 DEF IInv, TypeOK
<1>3. /\ PaidIsCovered' /\ MoneyBehindStatus'
      /\ \A i \in InvoiceIds : inv'[i] = None => received'[i] = 0
  BY <1>1 DEF IInv, PaidIsCovered, MoneyBehindStatus
<1>4. ASSUME NEW t \in Sessions, session'[t] # None
      PROVE  PlanOK(session[t])'
  <2>1. session'[t] = session[t] /\ PlanOK(session[t])
    BY <1>1, <1>4 DEF IInv, TypeOK
  <2> QED
    BY <1>1, <2>1 DEF PlanOK
<1> QED
  BY <1>2, <1>3, <1>4 DEF IInv

\* Every step preserves the invariant.
LEMMA NextIInv == IInv /\ [Next]_vars => IInv'
<1> SUFFICES ASSUME IInv, [Next]_vars
             PROVE  IInv'
  OBVIOUS
<1>1. CASE Next
  BY <1>1, HandlerIInv, CommitCreateIInv, CommitWriteIInv, CommitDeleteIInv, AbortIInv DEF Next
<1>2. CASE UNCHANGED vars
  BY <1>2 DEF vars, IInv, TypeOK, PaidIsCovered, MoneyBehindStatus, PlanOK
<1> QED
  BY <1>1, <1>2

\* The invariant holds in every reachable state.
THEOREM Inductive == Spec => []IInv
<1> QED
  BY InitIInv, NextIInv, PTL DEF Spec

\* An invoice never says more was paid than its payments amount to, and is called
\* paid or has a payment document only if there was one, for any number of
\* overlapping payments, reconciliations and registry changes.
THEOREM MoneyWasPaid == Spec => []MoneyIsBacked
<1>1. IInv => MoneyIsBacked
  BY DEF IInv, MoneyIsBacked
<1> QED
  BY <1>1, Inductive, PTL

\* The tables and the planned changes keep the types of their columns.
THEOREM TypeCorrect == Spec => []TypeOK
<1>1. IInv => TypeOK
  BY DEF IInv
<1> QED
  BY <1>1, Inductive, PTL

-----------------------------------------------------------------------------
(* Handlers that take turns *)

\* There is one session: no handler starts before the last one has committed.
OneSession == \A s, t \in Sessions : s = t

\* The row l agrees with the money paid on it.
Matches(l, money) ==
  /\ l.paid = money
  /\ l.status = "paid" => l.total > 0 /\ money >= l.total
  /\ l.status = "partial_paid" => money > 0 /\ (l.total > 0 => money < l.total)

\* The row l may become tgt while the money paid goes from before to after.
Fits(l, tgt, before, after) ==
  /\ Matches(tgt, after)
  /\ l.status = "paid" => tgt.status \in {"paid", "canceled"} \cup AllNotes
  /\ l.status = "canceled" /\ l.total > 0 /\ before >= l.total
       => tgt.status \in {"paid", "canceled"} \cup AllNotes
  /\ tgt.status = "draft" /\ l.status \notin {"draft"} \cup AllNotes => after = 0

\* A plan whose facts still hold: the row is as it was loaded, nobody wrote lines
\* since, and nobody bills the entries it is about to bill.
InTurn(p) ==
  /\ p.op = "create" => Billable(p.new, None)
  /\ p.op = "write" =>
       /\ inv[p.id] # None /\ p.snap = inv[p.id] /\ p.fresh
       /\ Fits(p.snap, p.tgt, received[p.id], received[p.id] + p.pay)
       /\ p.relines => Billable(p.new, p.id)

\* The inductive invariant of handlers that take turns.
SerialInv ==
  StatusMatchesMoney /\ \A s \in Sessions : session[s] # None => InTurn(session[s])

\* The numbers and the status of a row.
LEMMA RowTypes ==
  ASSUME NEW l \in Invoice
  PROVE  l.paid \in Nat /\ l.total \in Nat /\ l.status \in Statuses
BY InvoiceAssumption DEF Invoice

\* What the invariants say of a row a handler has loaded.
LEMMA LoadedMatches ==
  ASSUME IInv, StatusMatchesMoney, NEW i \in InvoiceIds, inv[i] # None
  PROVE  inv[i] \in Invoice /\ received[i] \in Nat /\ Matches(inv[i], received[i])
BY InvoiceAssumption DEF IInv, TypeOK, StatusMatchesMoney, Matches

\* What the marks of a row change.
LEMMA MarkFields ==
  ASSUME NEW l \in Invoice
  PROVE  /\ SentOnce(l) \in Invoice /\ SentOnce(l).paid = l.paid /\ SentOnce(l).total = l.total
         /\ SentOnce(l).status = IF l.status = "draft" THEN "sent" ELSE l.status
         /\ Unsent(l) \in Invoice /\ Unsent(l).paid = l.paid /\ Unsent(l).total = l.total
         /\ Unsent(l).status = "draft"
         /\ Viewed(l) \in Invoice /\ Viewed(l).paid = l.paid /\ Viewed(l).total = l.total
         /\ Viewed(l).status = IF l.status = "sent" THEN "viewed" ELSE l.status
BY DEF SentOnce, Unsent, Viewed, Invoice, Statuses, Settled

LEMMA StatusFields ==
  ASSUME NEW l \in Invoice, NEW st \in Statuses
  PROVE  /\ [l EXCEPT !.status = st] \in Invoice
         /\ [l EXCEPT !.status = st].status = st
         /\ [l EXCEPT !.status = st].paid = l.paid
         /\ [l EXCEPT !.status = st].total = l.total
BY DEF Invoice

\* Following the payments on a row that is neither a draft nor canceled.
LEMMA SyncedFields ==
  ASSUME NEW l \in Invoice
  PROVE  /\ Synced(l) \in Invoice
         /\ Synced(l).paid = l.paid /\ Synced(l).total = l.total /\ Synced(l).doc = l.doc
         /\ Synced(l).status =
              IF l.status \in {"canceled", "draft"} THEN l.status
              ELSE IF l.total > 0 /\ l.total <= l.paid THEN "paid"
              ELSE IF l.paid > 0 THEN "partial_paid" ELSE l.status
BY DEF Synced, Invoice, Statuses, Settled

\* Following the payments makes a row agree with the money.
LEMMA SyncedFits ==
  ASSUME NEW l \in Invoice, NEW before \in Nat, NEW after \in Nat, before <= after,
         Matches(l, before), NEW row \in Invoice, row.paid = after, row.total = l.total,
         row.status = l.status
  PROVE  Fits(l, Synced(row), before, after)
<1> DEFINE k == Synced(row)
<1>1. /\ k.paid = after /\ k.total = l.total
      /\ k.status = IF l.status \in {"canceled", "draft"} THEN l.status
                    ELSE IF l.total > 0 /\ l.total <= after THEN "paid"
                    ELSE IF after > 0 THEN "partial_paid" ELSE l.status
  BY SyncedFields
<1>2. l.total \in Nat
  BY RowTypes
<1> HIDE DEF k
<1>3. Matches(k, after)
  BY <1>1, <1>2 DEF Matches
<1>4. /\ l.status = "paid" => k.status = "paid"
      /\ l.status = "canceled" => k.status = "canceled"
      /\ k.status = "draft" => l.status = "draft"
  BY <1>1, <1>2 DEF Matches
<1>5. Fits(l, k, before, after)
  BY <1>3, <1>4 DEF Fits
<1> QED
  BY <1>5 DEF k

\* A canceled invoice comes back with the status its money gives it.
LEMMA RestoredFits ==
  ASSUME NEW l \in Invoice, NEW money \in Nat, Matches(l, money), l.status = "canceled"
  PROVE  /\ Fits(l, Restored(l), money, money)
         /\ Restored(l) \in Invoice
         /\ Restored(l).status \in {"paid", "partial_paid", "viewed", "sent", "draft"}
         /\ Restored(l).status \in {"viewed", "sent", "draft"} => money = 0
         /\ Restored(l).total = l.total
<1> DEFINE st == BeforeCancel(l)
           k == [l EXCEPT !.status = st]
<1>1. l.paid = money /\ l.total \in Nat
  BY RowTypes DEF Matches
<1>2. /\ st \in {"paid", "partial_paid", "viewed", "sent", "draft"}
      /\ st = "paid" <=> (l.total > 0 /\ l.total <= money)
      /\ st = "partial_paid" => money > 0
      /\ st \in {"viewed", "sent", "draft"} => money = 0
  BY <1>1 DEF BeforeCancel
<1> HIDE DEF st
<1>3. st \in Statuses
  BY <1>2 DEF Statuses, Settled
<1>4. k \in Invoice /\ k.status = st /\ k.paid = l.paid /\ k.total = l.total
  BY <1>3, StatusFields
<1>5. Restored(l) = k
  BY DEF Restored, st
<1> HIDE DEF k
<1>6. Matches(k, money)
  BY <1>1, <1>2, <1>4 DEF Matches
<1>7. Fits(l, k, money, money)
  BY <1>1, <1>2, <1>4, <1>6 DEF Fits
<1> QED
  BY <1>2, <1>4, <1>5, <1>7

\* A row that fits stays a plan in turn until it is committed.
LEMMA PlanInTurn ==
  ASSUME OneSession, IInv, StatusMatchesMoney, NEW s \in Sessions, NEW p,
         Put(s, p), InTurn(p)
  PROVE  SerialInv'
<1>1. UNCHANGED <<inv, lines, received, gone>> /\ session' = [session EXCEPT ![s] = p]
  BY DEF Put
<1>2. StatusMatchesMoney'
  BY <1>1 DEF StatusMatchesMoney
<1>3. ASSUME NEW t \in Sessions
      PROVE  InTurn(session[t])'
  <2>1. session'[t] = p
    BY <1>1 DEF OneSession, IInv, TypeOK
  <2> QED
    BY <1>1, <2>1 DEF InTurn, Billable, Occupies
<1> QED
  BY <1>2, <1>3 DEF SerialInv

\* Writing a row that fits, with or without forcing its status.
LEMMA WriteInTurn ==
  ASSUME OneSession, IInv, StatusMatchesMoney, NEW s \in Sessions, NEW i \in InvoiceIds,
         inv[i] # None, NEW tgt \in Invoice, Fits(inv[i], tgt, received[i], received[i]),
         Write(s, i, tgt) \/ WriteStatus(s, i, tgt)
  PROVE  SerialInv'
<1> DEFINE b == Blank(i, tgt)
           plain == [b EXCEPT !.snap = inv[i]]
           forced == [b EXCEPT !.snap = inv[i], !.force = TRUE]
<1>1. received[i] + 0 = received[i]
  BY LoadedMatches
<1>2. /\ b = [op |-> "write", id |-> i, snap |-> tgt, tgt |-> tgt, force |-> FALSE, pay |-> 0,
              relines |-> FALSE, new |-> {}, fresh |-> TRUE, cancels |-> {}]
  BY DEF Blank
<1>3. Put(s, plain) \/ Put(s, forced)
  BY DEF Write, WriteStatus
<1> HIDE DEF b
<1>4. /\ plain.op = "write" /\ plain.id = i /\ plain.snap = inv[i] /\ plain.tgt = tgt
      /\ plain.pay = 0 /\ ~plain.relines /\ plain.fresh
      /\ forced.op = "write" /\ forced.id = i /\ forced.snap = inv[i] /\ forced.tgt = tgt
      /\ forced.pay = 0 /\ ~forced.relines /\ forced.fresh
  BY <1>2
<1> HIDE DEF plain, forced
<1>5. InTurn(plain) /\ InTurn(forced)
  BY <1>1, <1>4 DEF InTurn
<1> QED
  BY <1>3, <1>5, PlanInTurn

\* Taking a payment on an invoice that is neither a draft nor canceled, or comes
\* back from being so.
LEMMA PaymentInTurn ==
  ASSUME OneSession, IInv, StatusMatchesMoney, NEW s \in Sessions, NEW i \in InvoiceIds,
         inv[i] # None, NEW l \in Invoice, NEW amount \in Nat \ {0}, Payment(s, i, l, amount),
         l.status \notin {"draft", "canceled"},
         \/ inv[i] = l
         \/ l.total > 0 /\ received[i] + amount >= l.total
  PROVE  SerialInv'
<1> DEFINE row == [l EXCEPT !.paid = received[i] + amount]
           tgt == Synced(row)
           b == Blank(i, tgt)
           p == [b EXCEPT !.snap = inv[i], !.force = TRUE, !.pay = amount]
           after == received[i] + amount
<1>1. /\ received[i] \in Nat /\ MaxReceived \in Nat /\ received[i] + amount <= MaxReceived
      /\ inv[i] \in Invoice /\ Matches(inv[i], received[i]) /\ Put(s, p)
  BY LoadedMatches, InvoiceAssumption DEF Payment
<1>2. row \in Invoice /\ row.paid = after /\ row.total = l.total /\ row.status = l.status
  BY <1>1 DEF Invoice
<1> HIDE DEF row
<1>3. tgt \in Invoice /\ Fits(inv[i], tgt, received[i], after)
  <2>1. /\ tgt \in Invoice /\ tgt.paid = after /\ tgt.total = l.total
        /\ tgt.status = IF l.total > 0 /\ l.total <= after THEN "paid"
                        ELSE IF after > 0 THEN "partial_paid" ELSE l.status
    BY <1>2, SyncedFields
  <2>2. CASE inv[i] = l
    BY <1>1, <1>2, <2>1, <2>2, SyncedFits
  <2>3. CASE l.total > 0 /\ received[i] + amount >= l.total
    <3>1. l.total \in Nat
      BY RowTypes
    <3>2. tgt.status = "paid" /\ Matches(tgt, after)
      BY <1>1, <2>1, <2>3, <3>1 DEF Matches
    <3> QED
      BY <2>1, <3>2 DEF Fits
  <2> QED
    BY <2>2, <2>3
<1> HIDE DEF tgt
<1>4. b = [op |-> "write", id |-> i, snap |-> tgt, tgt |-> tgt, force |-> FALSE, pay |-> 0,
           relines |-> FALSE, new |-> {}, fresh |-> TRUE, cancels |-> {}]
  BY DEF Blank
<1> HIDE DEF b
<1>5. /\ p.op = "write" /\ p.id = i /\ p.snap = inv[i] /\ p.tgt = tgt
      /\ p.pay = amount /\ ~p.relines /\ p.fresh
  BY <1>4
<1> HIDE DEF p
<1>6. InTurn(p)
  BY <1>3, <1>5 DEF InTurn
<1> QED
  BY <1>1, <1>6, PlanInTurn

\* A status chosen in the registry: the row l is the invoice as stored, or taken
\* out of a draft or a cancellation.
LEMMA RegistryMoneyInTurn ==
  ASSUME OneSession, IInv, StatusMatchesMoney, NEW s \in Sessions, NEW i \in InvoiceIds,
         inv[i] # None, NEW key, NEW l \in Invoice, l.status \notin {"draft", "canceled"},
         l.total = inv[i].total, Fits(inv[i], l, received[i], received[i]),
         RegistryMoney(s, i, key, l)
  PROVE  SerialInv'
<1> DEFINE left == l.total - l.paid
           overdue == IF l.status \in {"sent", "viewed", "partial_paid"} THEN l.status ELSE "sent"
           r == inv[i]
           money == received[i]
<1>1. /\ r \in Invoice /\ money \in Nat /\ Matches(r, money) /\ Matches(l, money)
      /\ l.paid = money /\ l.total \in Nat /\ l.status \in Statuses /\ r.status \in Statuses
  BY LoadedMatches, RowTypes DEF Fits, Matches
<1>2. CASE Write(s, i, l)
  BY <1>2, WriteInTurn
<1>3. CASE l.total > money /\ Payment(s, i, l, l.total - money)
  <2>1. /\ l.total - money \in Nat \ {0} /\ l.total > 0
        /\ money + (l.total - money) >= l.total
    BY <1>1, <1>3
  <2> QED
    BY <1>3, <2>1, PaymentInTurn
\* With money left to pay the invoice was not fully paid.
<1>4. ASSUME left > 0
      PROVE  r.status # "paid" /\ ~(l.total > 0 /\ money >= l.total)
  BY <1>1, <1>4 DEF Matches
<1>5. CASE left > 0 /\ l.paid > 0 /\ WriteStatus(s, i, [l EXCEPT !.status = "partial_paid"])
  <2> DEFINE k == [l EXCEPT !.status = "partial_paid"]
  <2>1. k \in Invoice /\ k.status = "partial_paid" /\ k.paid = money /\ k.total = l.total
    BY <1>1, StatusFields DEF Statuses, Settled
  <2> HIDE DEF k
  <2>2. Matches(k, money)
    BY <1>1, <1>5, <2>1 DEF Matches
  <2>3. Fits(r, k, money, money)
    BY <1>4, <1>5, <2>1, <2>2 DEF Fits
  <2> QED
    BY <1>5, <2>1, <2>3, WriteInTurn DEF k
<1>6. CASE left > 0 /\ WriteStatus(s, i, [l EXCEPT !.status = overdue])
  <2> DEFINE k == [l EXCEPT !.status = overdue]
  <2>1. overdue \in {"sent", "viewed", "partial_paid"} /\ overdue \in Statuses
        /\ (overdue = "partial_paid" => l.status = "partial_paid")
    BY DEF Statuses, Settled
  <2> HIDE DEF overdue
  <2>2. k \in Invoice /\ k.status = overdue /\ k.paid = money /\ k.total = l.total
    BY <1>1, <2>1, StatusFields
  <2>3. Write(s, i, k) \/ WriteStatus(s, i, k)
    BY <1>6
  <2> HIDE DEF k
  <2>4. Matches(k, money)
    BY <1>1, <2>1, <2>2 DEF Matches
  <2>5. Fits(r, k, money, money)
    BY <1>4, <1>6, <2>1, <2>2, <2>4 DEF Fits
  <2> QED
    BY <2>2, <2>3, <2>5, WriteInTurn
<1>7. CASE l.paid = 0 /\ WriteStatus(s, i, [l EXCEPT !.status = "sent", !.sent = TRUE, !.viewed = FALSE])
  <2> DEFINE k == [l EXCEPT !.status = "sent", !.sent = TRUE, !.viewed = FALSE]
  <2>1. k \in Invoice /\ k.status = "sent" /\ k.paid = money /\ k.total = l.total
    BY <1>1 DEF Invoice, Statuses
  <2>2. WriteStatus(s, i, k)
    BY <1>7
  <2> HIDE DEF k
  <2>3. Matches(k, money)
    BY <2>1 DEF Matches
  <2>4. money = 0 /\ r.total \in Nat
    BY <1>1, <1>7, RowTypes
  <2>5. r.status # "paid" /\ ~(r.total > 0 /\ money >= r.total)
    BY <1>1, <2>4 DEF Matches
  <2>6. Fits(r, k, money, money)
    BY <2>1, <2>3, <2>5 DEF Fits
  <2> QED
    BY <2>1, <2>2, <2>6, WriteInTurn
<1>8. CASE Write(s, i, Viewed(l))
  <2> DEFINE k == Viewed(l)
  <2>1. /\ k \in Invoice /\ k.paid = l.paid /\ k.total = l.total
        /\ k.status = IF l.status = "sent" THEN "viewed" ELSE l.status
    BY MarkFields
  <2> HIDE DEF k
  <2>2. Fits(r, k, money, money)
    BY <1>1, <2>1 DEF Fits, Matches, AllNotes
  <2> QED
    BY <1>8, <2>1, <2>2, WriteInTurn DEF k
<1> QED
  BY <1>2, <1>3, <1>5, <1>6, <1>7, <1>8 DEF RegistryMoney

\* Any status chosen in the registry.
LEMMA RegistryInTurn ==
  ASSUME OneSession, IInv, StatusMatchesMoney, NEW s \in Sessions, NEW i \in InvoiceIds,
         NEW key \in Keys, NEW late \in BOOLEAN, Registry(s, i, key, late)
  PROVE  SerialInv'
<1> DEFINE r == inv[i]
           money == received[i]
           l == IF r.status = "canceled" /\ key # "canceled" THEN Restored(r) ELSE r
           alive == IF l.status = "draft" THEN SentOnce(l) ELSE l
<1>1. r # None
  BY DEF Registry, Loadable
<1>2. /\ r \in Invoice /\ money \in Nat /\ Matches(r, money)
      /\ r.total \in Nat /\ r.status \in Statuses
  BY <1>1, LoadedMatches, RowTypes
<1>3. /\ l \in Invoice /\ Fits(r, l, money, money) /\ l.total = r.total
      /\ l = r \/ (/\ r.status = "canceled"
                   /\ l.status \in {"paid", "partial_paid", "viewed", "sent", "draft"})
      /\ key # "canceled" => l.status # "canceled"
      /\ r.status = "canceled" /\ l.status \in {"viewed", "sent", "draft"} => money = 0
  <2>1. CASE r.status = "canceled" /\ key # "canceled"
    BY <1>2, <2>1, RestoredFits
  <2>2. CASE ~(r.status = "canceled" /\ key # "canceled")
    <3>1. Fits(r, r, money, money)
      BY <1>2 DEF Fits, Matches
    <3> QED
      BY <1>2, <2>2, <3>1
  <2> QED
    BY <2>1, <2>2
<1>4. \/ WriteStatus(s, i, l)
      \/ key \in Notes /\ WriteStatus(s, i, [l EXCEPT !.status = key])
      \/ key = "draft" /\ l.status \in AllNotes /\ WriteStatus(s, i, [l EXCEPT !.status = "draft"])
      \/ l.status \in {"sent", "viewed"} /\ l.paid = 0 /\ WriteStatus(s, i, Unsent(l))
      \/ Write(s, i, [l EXCEPT !.status = "canceled"])
      \/ key # "canceled" /\ RegistryMoney(s, i, key, alive)
  BY DEF Registry
<1> HIDE DEF l
<1>5. l.paid = money
  BY <1>3 DEF Fits, Matches
<1>6. CASE WriteStatus(s, i, l)
  BY <1>1, <1>3, <1>6, WriteInTurn
<1>7. CASE key \in Notes /\ WriteStatus(s, i, [l EXCEPT !.status = key])
  <2> DEFINE k == [l EXCEPT !.status = key]
  <2>1. key \in AllNotes /\ key \in Statuses /\ key \notin {"draft", "paid", "partial_paid"}
    BY <1>7, InvoiceAssumption DEF Statuses, AllNotes
  <2>2. k \in Invoice /\ k.status = key /\ k.paid = money
    BY <1>3, <1>5, <2>1, StatusFields
  <2> HIDE DEF k
  <2>3. Fits(r, k, money, money)
    BY <2>1, <2>2 DEF Fits, Matches
  <2> QED
    BY <1>1, <1>7, <2>2, <2>3, WriteInTurn DEF k
<1>8. CASE l.status \in AllNotes /\ WriteStatus(s, i, [l EXCEPT !.status = "draft"])
  <2> DEFINE k == [l EXCEPT !.status = "draft"]
  <2>1. k \in Invoice /\ k.status = "draft" /\ k.paid = money
    BY <1>3, <1>5, StatusFields DEF Statuses
  <2> HIDE DEF k
  <2>2. r.status \in AllNotes
    BY <1>3, <1>8 DEF AllNotes
  <2>3. Fits(r, k, money, money)
    BY <2>1, <2>2 DEF Fits, Matches, AllNotes
  <2> QED
    BY <1>1, <1>8, <2>1, <2>3, WriteInTurn DEF k
<1>9. CASE l.status \in {"sent", "viewed"} /\ l.paid = 0 /\ WriteStatus(s, i, Unsent(l))
  <2> DEFINE k == Unsent(l)
  <2>1. k \in Invoice /\ k.status = "draft" /\ k.paid = money /\ money = 0
    BY <1>3, <1>5, <1>9, MarkFields
  <2> HIDE DEF k
  <2>2. r.status # "paid" /\ ~(r.total > 0 /\ money >= r.total)
    BY <1>2, <2>1 DEF Matches
  <2>3. Fits(r, k, money, money)
    BY <2>1, <2>2 DEF Fits, Matches
  <2> QED
    BY <1>1, <1>9, <2>1, <2>3, WriteInTurn DEF k
<1>10. CASE Write(s, i, [l EXCEPT !.status = "canceled"])
  <2> DEFINE k == [l EXCEPT !.status = "canceled"]
  <2>1. k \in Invoice /\ k.status = "canceled" /\ k.paid = money
    BY <1>3, <1>5, StatusFields DEF Statuses
  <2> HIDE DEF k
  <2>2. Fits(r, k, money, money)
    BY <2>1 DEF Fits, Matches
  <2> QED
    BY <1>1, <1>10, <2>1, <2>2, WriteInTurn DEF k
<1>11. CASE key # "canceled" /\ RegistryMoney(s, i, key, alive)
  <2>1. /\ alive \in Invoice /\ alive.status \notin {"draft", "canceled"}
        /\ alive.total = r.total /\ alive.paid = money
        /\ alive = l \/ (l.status = "draft" /\ alive.status = "sent")
    BY <1>3, <1>5, <1>11, MarkFields
  <2> HIDE DEF alive
  <2>2. Fits(r, alive, money, money)
    <3>1. CASE alive = l
      BY <1>3, <3>1
    <3>2. CASE l.status = "draft" /\ alive.status = "sent"
      <4>1. Matches(alive, money)
        BY <2>1, <3>2 DEF Matches
      <4>2. r.status # "paid" /\ (r.status = "canceled" => money = 0)
        BY <1>3, <3>2
      <4> QED
        BY <1>2, <3>2, <4>1, <4>2 DEF Fits
    <3> QED
      BY <2>1, <3>1, <3>2
  <2> QED
    BY <1>1, <1>11, <2>1, <2>2, RegistryMoneyInTurn
<1> QED
  BY <1>4, <1>6, <1>7, <1>8, <1>9, <1>10, <1>11

\* Changes of a draft: its total, and its lines.
LEMMA PatchInTurn ==
  ASSUME OneSession, IInv, StatusMatchesMoney, NEW s \in Sessions, NEW i \in InvoiceIds,
         NEW total \in 0..MaxTotal,
         \/ Patch(s, i, total)
         \/ \E L \in SUBSET Billables : PatchLines(s, i, L, total)
  PROVE  SerialInv'
<1> DEFINE tgt == [inv[i] EXCEPT !.total = total, !.paid = received[i]]
<1>1. inv[i] # None /\ inv[i].status = "draft"
  BY DEF Patch, PatchLines, Loadable
<1>2. /\ inv[i] \in Invoice /\ received[i] \in Nat /\ received[i] \in 0..MaxReceived
      /\ Matches(inv[i], received[i])
  BY <1>1, LoadedMatches DEF IInv, TypeOK
<1>3. tgt \in Invoice /\ tgt.status = "draft" /\ tgt.paid = received[i]
  BY <1>1, <1>2 DEF Invoice
<1>4. \/ Write(s, i, tgt)
      \/ \E L \in SUBSET Billables :
           /\ Billable(L, i)
           /\ Put(s, [Blank(i, tgt) EXCEPT !.snap = inv[i], !.relines = TRUE, !.new = L])
  BY DEF Patch, PatchLines
<1> HIDE DEF tgt
<1>5. Fits(inv[i], tgt, received[i], received[i])
  BY <1>1, <1>3 DEF Fits, Matches
<1>6. CASE Write(s, i, tgt)
  BY <1>1, <1>3, <1>5, <1>6, WriteInTurn
<1>7. ASSUME NEW L \in SUBSET Billables, Billable(L, i),
             Put(s, [Blank(i, tgt) EXCEPT !.snap = inv[i], !.relines = TRUE, !.new = L])
      PROVE  SerialInv'
  <2> DEFINE b == Blank(i, tgt)
             p == [b EXCEPT !.snap = inv[i], !.relines = TRUE, !.new = L]
  <2>1. b = [op |-> "write", id |-> i, snap |-> tgt, tgt |-> tgt, force |-> FALSE, pay |-> 0,
             relines |-> FALSE, new |-> {}, fresh |-> TRUE, cancels |-> {}]
    BY DEF Blank
  <2> HIDE DEF b
  <2>2. /\ p.op = "write" /\ p.id = i /\ p.snap = inv[i] /\ p.tgt = tgt
        /\ p.pay = 0 /\ p.relines /\ p.new = L /\ p.fresh
    BY <2>1
  <2>3. Put(s, p)
    BY <1>7 DEF b
  <2> HIDE DEF p
  <2>4. received[i] + 0 = received[i]
    BY <1>2
  <2>5. InTurn(p)
    BY <1>1, <1>5, <1>7, <2>2, <2>4 DEF InTurn
  <2> QED
    BY <2>3, <2>5, PlanInTurn
<1> QED
  BY <1>4, <1>6, <1>7

\* The handlers, each up to its commit, leave a plan in turn.
LEMMA HandlerInTurn ==
  ASSUME OneSession, IInv, StatusMatchesMoney, NEW s \in Sessions, Handler(s)
  PROVE  SerialInv'
<1>1. ASSUME NEW L \in SUBSET Billables, NEW total \in 0..MaxTotal,
             NEW cancels \in SUBSET InvoiceIds, Create(s, L, total, cancels)
      PROVE  SerialInv'
  <2> DEFINE l == [status |-> "draft", total |-> total, paid |-> 0, sent |-> FALSE,
                   viewed |-> FALSE, doc |-> FALSE]
             b == Blank(None, l)
             p == [b EXCEPT !.op = "create", !.relines = TRUE, !.new = L, !.cancels = cancels]
  <2>1. Put(s, p) /\ Billable(L, None)
    BY <1>1 DEF Create
  <2>2. b = [op |-> "write", id |-> None, snap |-> l, tgt |-> l, force |-> FALSE, pay |-> 0,
             relines |-> FALSE, new |-> {}, fresh |-> TRUE, cancels |-> {}]
    BY DEF Blank
  <2> HIDE DEF l, b
  <2>3. p.op = "create" /\ p.new = L
    BY <2>2
  <2> HIDE DEF p
  <2>4. InTurn(p)
    BY <2>1, <2>3 DEF InTurn
  <2> QED
    BY <2>1, <2>4, PlanInTurn
<1>2. ASSUME NEW i \in InvoiceIds, NEW total \in 0..MaxTotal,
             \/ Patch(s, i, total)
             \/ \E L \in SUBSET Billables : PatchLines(s, i, L, total)
      PROVE  SerialInv'
  BY <1>2, PatchInTurn
<1>3. ASSUME NEW i \in InvoiceIds, Send(s, i) \/ Unsend(s, i) \/ MarkViewed(s, i)
      PROVE  SerialInv'
  <2> DEFINE r == inv[i]
             money == received[i]
             sent == SentOnce(r)
             unsent == Unsent(r)
             viewed == Viewed(r)
  <2>1. /\ r # None
        /\ \/ r.status # "canceled" /\ Write(s, i, sent)
           \/ /\ r.status \in {"sent", "viewed"} /\ r.paid = 0
              /\ WriteStatus(s, i, unsent)
           \/ r.status # "canceled" /\ Write(s, i, viewed)
    BY <1>3 DEF Send, Unsend, MarkViewed, Loadable
  <2>2. r \in Invoice /\ money \in Nat /\ Matches(r, money) /\ r.status \in Statuses
    BY <2>1, LoadedMatches, RowTypes
  <2>3. /\ sent \in Invoice /\ sent.paid = r.paid /\ sent.total = r.total
        /\ sent.status = (IF r.status = "draft" THEN "sent" ELSE r.status)
        /\ unsent \in Invoice /\ unsent.paid = r.paid /\ unsent.status = "draft"
        /\ viewed \in Invoice /\ viewed.paid = r.paid /\ viewed.total = r.total
        /\ viewed.status = (IF r.status = "sent" THEN "viewed" ELSE r.status)
    BY <2>2, MarkFields
  <2> HIDE DEF sent, unsent, viewed
  <2>4. CASE r.status # "canceled" /\ Write(s, i, sent)
    <3>1. Fits(r, sent, money, money)
      BY <2>2, <2>3, <2>4 DEF Fits, Matches
    <3> QED
      BY <2>1, <2>3, <2>4, <3>1, WriteInTurn
  <2>5. CASE /\ r.status \in {"sent", "viewed"} /\ r.paid = 0
             /\ WriteStatus(s, i, unsent)
    <3>1. Fits(r, unsent, money, money)
      BY <2>2, <2>3, <2>5 DEF Fits, Matches
    <3> QED
      BY <2>1, <2>3, <2>5, <3>1, WriteInTurn
  <2>6. CASE r.status # "canceled" /\ Write(s, i, viewed)
    <3>1. Fits(r, viewed, money, money)
      BY <2>2, <2>3, <2>6 DEF Fits, Matches
    <3> QED
      BY <2>1, <2>3, <2>6, <3>1, WriteInTurn
  <2> QED
    BY <2>1, <2>4, <2>5, <2>6
<1>4. ASSUME NEW i \in InvoiceIds, NEW amount \in 1..MaxReceived, RegisterPayment(s, i, amount)
      PROVE  SerialInv'
  <2>1. /\ inv[i] # None /\ inv[i].status \notin {"canceled", "draft"}
        /\ Payment(s, i, inv[i], amount)
    BY <1>4 DEF RegisterPayment, Loadable
  <2>2. inv[i] \in Invoice /\ amount \in Nat \ {0}
    BY <2>1, LoadedMatches, InvoiceAssumption
  <2> QED
    BY <2>1, <2>2, PaymentInTurn
<1>5. ASSUME NEW i \in InvoiceIds, inv[i] # None
      PROVE  /\ Reconciled(i) \in Invoice
             /\ Fits(inv[i], Reconciled(i), received[i], received[i])
  <2> DEFINE row == [inv[i] EXCEPT !.paid = received[i]]
  <2>1. /\ inv[i] \in Invoice /\ received[i] \in Nat /\ received[i] \in 0..MaxReceived
        /\ Matches(inv[i], received[i])
    BY <1>5, LoadedMatches DEF IInv, TypeOK
  <2>2. /\ row \in Invoice /\ row.paid = received[i] /\ row.total = inv[i].total
        /\ row.status = inv[i].status
    BY <2>1 DEF Invoice
  <2>3. Reconciled(i) = Synced(row)
    BY DEF Reconciled
  <2> HIDE DEF row
  <2>4. received[i] <= received[i]
    BY <2>1
  <2> QED
    BY <2>1, <2>2, <2>3, <2>4, SyncedFits, SyncedFields
<1>6. ASSUME NEW i \in InvoiceIds, Get(s, i) \/ Confirm(s, i)
      PROVE  SerialInv'
  <2> DEFINE l == Reconciled(i)
             k == [l EXCEPT !.doc = TRUE]
  <2>1. inv[i] # None /\ (Write(s, i, l) \/ Write(s, i, k))
    BY <1>6 DEF Get, Confirm, Loadable
  <2>2. l \in Invoice /\ Fits(inv[i], l, received[i], received[i])
    BY <1>5, <2>1
  <2> HIDE DEF l
  <2>3. k \in Invoice /\ k.status = l.status /\ k.total = l.total /\ k.paid = l.paid
    BY <2>2 DEF Invoice
  <2> HIDE DEF k
  <2>4. Fits(inv[i], k, received[i], received[i])
    BY <2>2, <2>3 DEF Fits, Matches
  <2> QED
    BY <2>1, <2>2, <2>3, <2>4, WriteInTurn
<1>7. ASSUME NEW i \in InvoiceIds, Cancel(s, i) \/ Restore(s, i)
      PROVE  SerialInv'
  <2> DEFINE k == [inv[i] EXCEPT !.status = "canceled"]
             l == Restored(inv[i])
  <2>1. /\ inv[i] # None
        /\ Write(s, i, k) \/ (inv[i].status = "canceled" /\ WriteStatus(s, i, l))
    BY <1>7 DEF Cancel, Restore, Loadable
  <2>2. inv[i] \in Invoice /\ received[i] \in Nat /\ Matches(inv[i], received[i])
    BY <2>1, LoadedMatches
  <2>3. k \in Invoice /\ k.status = "canceled" /\ k.paid = received[i]
    BY <2>2, StatusFields DEF Statuses, Matches
  <2>4. inv[i].status = "canceled" => l \in Invoice /\ Fits(inv[i], l, received[i], received[i])
    BY <2>2, RestoredFits
  <2> HIDE DEF k, l
  <2>5. Fits(inv[i], k, received[i], received[i])
    BY <2>3 DEF Fits, Matches
  <2> QED
    BY <2>1, <2>3, <2>4, <2>5, WriteInTurn
<1>8. ASSUME NEW i \in InvoiceIds, Delete(s, i)
      PROVE  SerialInv'
  <2> DEFINE b == Blank(i, inv[i])
             p == [b EXCEPT !.op = "delete"]
  <2>1. b = [op |-> "write", id |-> i, snap |-> inv[i], tgt |-> inv[i], force |-> FALSE,
             pay |-> 0, relines |-> FALSE, new |-> {}, fresh |-> TRUE, cancels |-> {}]
    BY DEF Blank
  <2>2. Put(s, p)
    BY <1>8 DEF Delete
  <2> HIDE DEF b
  <2>3. p.op = "delete"
    BY <2>1
  <2> HIDE DEF p
  <2>4. InTurn(p)
    BY <2>3 DEF InTurn
  <2> QED
    BY <2>2, <2>4, PlanInTurn
<1> QED
  BY <1>1, <1>2, <1>3, <1>4, <1>6, <1>7, <1>8, RegistryInTurn DEF Handler

\* A merge into the row the plan was made for is its target.
LEMMA MergeInTurn ==
  ASSUME NEW cur \in Invoice, NEW p \in Plan, p.snap = cur
  PROVE  Merge(cur, p) = p.tgt
<1> DEFINE t == p.tgt
<1>1. t \in Invoice
  BY DEF Plan
<1>2. /\ Changed(cur.status, p.snap.status, t.status) = t.status
      /\ Changed(cur.total, p.snap.total, t.total) = t.total
      /\ Changed(cur.paid, p.snap.paid, t.paid) = t.paid
      /\ Changed(cur.sent, p.snap.sent, t.sent) = t.sent
      /\ Changed(cur.viewed, p.snap.viewed, t.viewed) = t.viewed
      /\ Changed(cur.doc, p.snap.doc, t.doc) = t.doc
  BY DEF Changed
<1>3. Merge(cur, p) = [cur EXCEPT !.status = t.status, !.total = t.total, !.paid = t.paid,
                                 !.sent = t.sent, !.viewed = t.viewed, !.doc = t.doc]
  BY <1>2 DEF Merge
<1> HIDE DEF t
<1>4. [cur EXCEPT !.status = t.status, !.total = t.total, !.paid = t.paid,
                  !.sent = t.sent, !.viewed = t.viewed, !.doc = t.doc] = t
  BY <1>1 DEF Invoice
<1> QED
  BY <1>3, <1>4 DEF t

\* Committing a plan in turn: one invoice changes as planned, and its lines, if they
\* change, bill nothing another invoice bills.
Alters(i) ==
  /\ inv[i] # None
  /\ \E tgt \in Invoice :
       /\ inv' = [inv EXCEPT ![i] = tgt]
       /\ Fits(inv[i], tgt, received[i], received'[i])
  /\ \A j \in InvoiceIds : j # i => received'[j] = received[j]
  /\ \/ lines' = lines
     \/ \E L \in SUBSET Billables : Billable(L, i) /\ lines' = [lines EXCEPT ![i] = L]

LEMMA CommitAlters ==
  ASSUME OneSession, IInv, SerialInv, NEW s \in Sessions, CommitWrite(s)
  PROVE  (\E i \in InvoiceIds : Alters(i)) /\ \A t \in Sessions : session'[t] = None
<1> DEFINE p == session[s]
           i == p.id
<1>1. p \in Plan /\ p.op = "write" /\ inv[i] # None /\ p # None
  BY DEF CommitWrite, IInv, TypeOK
<1>2. /\ inv' = [inv EXCEPT ![i] = Merge(inv[i], p)]
      /\ received' = [received EXCEPT ![i] = @ + p.pay]
      /\ lines' = [lines EXCEPT ![i] =
           IF p.relines THEN p.new \cup (IF p.fresh THEN {} ELSE @) ELSE @]
  BY DEF CommitWrite
<1>3. \A t \in Sessions : session'[t] = None
  BY DEF CommitWrite, OneSession
<1>4. i \in InvoiceIds /\ InTurn(p)
  BY <1>1 DEF IInv, PlanOK, SerialInv
<1>5. inv[i] \in Invoice /\ p.tgt \in Invoice /\ p.new \in SUBSET Billables /\ p.relines \in BOOLEAN
  BY <1>1, <1>4 DEF IInv, TypeOK, Plan
<1>6. /\ p.snap = inv[i] /\ p.fresh
      /\ Fits(inv[i], p.tgt, received[i], received[i] + p.pay)
      /\ p.relines => Billable(p.new, i)
  BY <1>1, <1>4 DEF InTurn
<1>7. Merge(inv[i], p) = p.tgt
  BY <1>1, <1>5, <1>6, MergeInTurn
<1>8. /\ received'[i] = received[i] + p.pay
      /\ \A j \in InvoiceIds : j # i => received'[j] = received[j]
  BY <1>2, <1>4 DEF IInv, TypeOK
<1>9. lines' = lines \/ (Billable(p.new, i) /\ lines' = [lines EXCEPT ![i] = p.new])
  <2>1. CASE p.relines
    <3>1. p.new \cup {} = p.new
      OBVIOUS
    <3> QED
      BY <1>2, <1>6, <2>1, <3>1
  <2>2. CASE ~p.relines
    BY <1>2, <1>4, <2>2 DEF IInv, TypeOK
  <2> QED
    BY <2>1, <2>2
<1> HIDE DEF p, i
<1>10. inv' = [inv EXCEPT ![i] = p.tgt] /\ Fits(inv[i], p.tgt, received[i], received'[i])
  BY <1>2, <1>6, <1>7, <1>8
<1>11. Alters(i)
  BY <1>1, <1>5, <1>8, <1>9, <1>10 DEF Alters
<1> QED
  BY <1>3, <1>4, <1>11

\* A new invoice is an unpaid draft, whose lines bill nothing another invoice bills.
Adds(i) ==
  /\ inv[i] = None /\ inv'[i] \in Invoice
  /\ inv'[i].status = "draft" /\ inv'[i].paid = 0
  /\ \A j \in InvoiceIds \ {i} :
       \/ inv'[j] = inv[j]
       \/ inv[j] # None /\ inv'[j] = [inv[j] EXCEPT !.status = "canceled"]
  /\ UNCHANGED received
  /\ \E L \in SUBSET Billables : Billable(L, None) /\ lines' = [lines EXCEPT ![i] = L]

LEMMA CommitAdds ==
  ASSUME OneSession, IInv, SerialInv, NEW s \in Sessions, CommitCreate(s)
  PROVE  (\E i \in InvoiceIds : Adds(i)) /\ \A t \in Sessions : session'[t] = None
<1> DEFINE p == session[s]
<1>1. /\ p \in Plan /\ p # None /\ p.op = "create" /\ p.tgt \in Invoice
      /\ p.tgt.paid = 0 /\ p.tgt.status = "draft" /\ p.new \in SUBSET Billables
  BY DEF CommitCreate, IInv, TypeOK, PlanOK, Plan
<1>2. Billable(p.new, None)
  BY <1>1 DEF SerialInv, InTurn
<1>3. PICK i \in InvoiceIds :
        /\ inv[i] = None
        /\ inv' = [j \in InvoiceIds |->
             IF j = i THEN p.tgt
             ELSE IF j \in p.cancels THEN [inv[j] EXCEPT !.status = "canceled"] ELSE inv[j]]
        /\ lines' = [lines EXCEPT ![i] = p.new]
  BY DEF CommitCreate
<1>4. received' = received /\ \A j \in p.cancels : inv[j] # None
  BY DEF CommitCreate
<1>5. \A t \in Sessions : session'[t] = None
  BY DEF CommitCreate, OneSession, IInv, TypeOK
<1> HIDE DEF p
<1>6. Adds(i)
  BY <1>1, <1>2, <1>3, <1>4 DEF Adds
<1> QED
  BY <1>5, <1>6

\* With nothing planned the invariant is about the invoices alone.
LEMMA IdleSerial ==
  ASSUME StatusMatchesMoney', \A t \in Sessions : session'[t] = None
  PROVE  SerialInv'
BY DEF SerialInv

\* Every step of handlers that take turns preserves the invariant.
LEMMA StepSerial ==
  ASSUME OneSession, IInv, SerialInv, [Next]_vars
  PROVE  SerialInv'
<1>1. ASSUME NEW s \in Sessions, CommitWrite(s)
      PROVE  SerialInv'
  <2>1. PICK i \in InvoiceIds : Alters(i)
    BY <1>1, CommitAlters
  <2>2. PICK tgt \in Invoice :
          inv' = [inv EXCEPT ![i] = tgt] /\ Fits(inv[i], tgt, received[i], received'[i])
    BY <2>1 DEF Alters
  <2>3. ASSUME NEW j \in InvoiceIds, inv'[j] # None
        PROVE  Matches(inv'[j], received'[j])
    <3>1. CASE j = i
      BY <2>2, <3>1 DEF IInv, TypeOK, Fits
    <3>2. CASE j # i
      BY <2>1, <2>2, <2>3, <3>2 DEF Alters, IInv, TypeOK, SerialInv, StatusMatchesMoney, Matches
    <3> QED
      BY <3>1, <3>2
  <2>4. StatusMatchesMoney'
    BY <2>3 DEF StatusMatchesMoney, Matches
  <2> QED
    BY <1>1, <2>4, CommitAlters, IdleSerial
<1>2. ASSUME NEW s \in Sessions, CommitCreate(s)
      PROVE  SerialInv'
  <2>1. PICK i \in InvoiceIds : Adds(i)
    BY <1>2, CommitAdds
  <2>2. received[i] = 0 /\ received' = received
    BY <2>1 DEF Adds, IInv
  <2>3. ASSUME NEW j \in InvoiceIds, inv'[j] # None
        PROVE  Matches(inv'[j], received'[j])
    <3>1. CASE j = i
      BY <2>1, <2>2, <3>1 DEF Adds, Matches
    <3>2. CASE j # i /\ inv'[j] = inv[j]
      BY <2>2, <2>3, <3>2 DEF SerialInv, StatusMatchesMoney, Matches
    <3>3. CASE inv[j] # None /\ inv'[j] = [inv[j] EXCEPT !.status = "canceled"]
      <4>1. inv[j] \in Invoice /\ inv[j].paid = received[j]
        BY <3>3 DEF IInv, TypeOK, SerialInv, StatusMatchesMoney
      <4>2. inv'[j].status = "canceled" /\ inv'[j].paid = inv[j].paid
        BY <3>3, <4>1 DEF Invoice
      <4> QED
        BY <2>2, <4>1, <4>2 DEF Matches
    <3> QED
      BY <2>1, <3>1, <3>2, <3>3 DEF Adds
  <2>4. StatusMatchesMoney'
    BY <2>3 DEF StatusMatchesMoney, Matches
  <2> QED
    BY <1>2, <2>4, CommitAdds, IdleSerial
<1>3. ASSUME NEW s \in Sessions, CommitDelete(s) \/ Abort(s)
      PROVE  SerialInv'
  <2>1. \A t \in Sessions : session'[t] = None
    BY <1>3 DEF CommitDelete, Abort, OneSession, IInv, TypeOK
  <2>2. \A j \in InvoiceIds : inv'[j] # None => inv'[j] = inv[j] /\ received'[j] = received[j]
    BY <1>3 DEF CommitDelete, Abort, IInv, TypeOK
  <2>3. StatusMatchesMoney'
    BY <2>2 DEF SerialInv, StatusMatchesMoney
  <2> QED
    BY <2>1, <2>3, IdleSerial
<1>4. CASE UNCHANGED vars
  BY <1>4 DEF vars, SerialInv, StatusMatchesMoney, InTurn, Billable, Occupies
<1> QED
  BY <1>1, <1>2, <1>3, <1>4, HandlerInTurn DEF Next, SerialInv

\* A step that is not a commit leaves the tables alone.
LEMMA StepKinds ==
  ASSUME OneSession, IInv, SerialInv, [Next]_vars
  PROVE  \/ UNCHANGED <<inv, lines, received>>
         \/ \E i \in InvoiceIds : Alters(i) \/ Adds(i)
         \/ \E i \in InvoiceIds : /\ inv' = [inv EXCEPT ![i] = None]
                                  /\ lines' = [lines EXCEPT ![i] = {}]
                                  /\ received' = [received EXCEPT ![i] = 0]
<1>1. ASSUME NEW s \in Sessions, Handler(s)
      PROVE  UNCHANGED <<inv, lines, received>>
  <2>1. ASSUME NEW p, Put(s, p) PROVE UNCHANGED <<inv, lines, received>>
    BY <2>1 DEF Put
  <2>2. ASSUME NEW i, NEW l, NEW a, Write(s, i, l) \/ WriteStatus(s, i, l) \/ Payment(s, i, l, a)
        PROVE  UNCHANGED <<inv, lines, received>>
    BY <2>1, <2>2 DEF Write, WriteStatus, Payment
  <2>3. ASSUME NEW i, NEW key, NEW l, RegistryMoney(s, i, key, l)
        PROVE  UNCHANGED <<inv, lines, received>>
    BY <2>2, <2>3 DEF RegistryMoney
  <2>4. ASSUME NEW i, NEW key, NEW late, Registry(s, i, key, late)
        PROVE  UNCHANGED <<inv, lines, received>>
    BY <2>2, <2>3, <2>4 DEF Registry
  <2> QED
    BY <1>1, <2>1, <2>2, <2>4 DEF Handler, Create, Patch, PatchLines, Send, Unsend, MarkViewed,
                                  RegisterPayment, Confirm, Get, Cancel, Restore, Delete
<1>2. ASSUME NEW s \in Sessions, Abort(s)
      PROVE  UNCHANGED <<inv, lines, received>>
  BY <1>2 DEF Abort
<1>3. ASSUME NEW s \in Sessions, CommitDelete(s)
      PROVE  \E i \in InvoiceIds : /\ inv' = [inv EXCEPT ![i] = None]
                                   /\ lines' = [lines EXCEPT ![i] = {}]
                                   /\ received' = [received EXCEPT ![i] = 0]
  <2>1. session[s].id \in InvoiceIds
    BY <1>3 DEF CommitDelete, IInv, PlanOK
  <2> QED
    BY <1>3, <2>1 DEF CommitDelete
<1> QED
  BY <1>1, <1>2, <1>3, CommitAlters, CommitAdds DEF Next, vars

\* A paid invoice stays paid through a step, and a draft comes from an unpaid row.
LEMMA StepKeepsPaid ==
  ASSUME OneSession, IInv, SerialInv, [Next]_vars, NEW j \in InvoiceIds,
         inv[j] # None, inv'[j] # None
  PROVE  /\ inv[j].status = "paid" => inv'[j].status \in {"paid", "canceled"} \cup AllNotes
         /\ inv[j].status = "canceled" /\ inv'[j].status \notin {"canceled"} \cup AllNotes
              /\ inv[j].total > 0 /\ received[j] >= inv[j].total
              => inv'[j].status = "paid"
         /\ inv'[j].status = "draft" /\ inv[j].status \notin {"draft"} \cup AllNotes
              => received'[j] = 0
<1>1. inv[j] \in Invoice
  BY DEF IInv, TypeOK
<1>2. CASE inv'[j] = inv[j]
  BY <1>2
<1>3. CASE inv'[j] = [inv[j] EXCEPT !.status = "canceled"]
  <2>1. inv'[j].status = "canceled"
    BY <1>1, <1>3 DEF Invoice
  <2> QED
    BY <2>1
<1>4. ASSUME NEW i \in InvoiceIds, Alters(i), inv'[j] # inv[j]
      PROVE  Fits(inv[j], inv'[j], received[j], received'[j])
  BY <1>4 DEF Alters, IInv, TypeOK
<1>5. ASSUME NEW i \in InvoiceIds, Alters(i)
      PROVE  inv'[j] = inv[j] \/ Fits(inv[j], inv'[j], received[j], received'[j])
  BY <1>4, <1>5
<1>6. ASSUME NEW i \in InvoiceIds, Adds(i)
      PROVE  inv'[j] \in {inv[j], [inv[j] EXCEPT !.status = "canceled"]}
  BY <1>6 DEF Adds
<1>7. ASSUME NEW i \in InvoiceIds, inv' = [inv EXCEPT ![i] = None]
      PROVE  inv'[j] = inv[j]
  BY <1>7 DEF IInv, TypeOK
<1>8. inv'[j] \in {inv[j], [inv[j] EXCEPT !.status = "canceled"]}
      \/ Fits(inv[j], inv'[j], received[j], received'[j])
  BY <1>5, <1>6, <1>7, StepKinds
<1> QED
  BY <1>2, <1>3, <1>8 DEF Fits

\* Lines that change bill nothing twice; lines that do not change bill something
\* twice only when their invoice takes them back.
LEMMA AlterBills ==
  ASSUME IInv, BilledOnce, NEW i \in InvoiceIds, Alters(i), ~BilledOnce'
  PROVE  inv[i] # None /\ ~Occupies(i) /\ Occupies(i)' /\ lines'[i] = lines[i]
<1>1. /\ inv[i] # None
      /\ \A j \in InvoiceIds : j # i => inv'[j] = inv[j] /\ lines'[j] = lines[j]
  BY DEF Alters, IInv, TypeOK
<1>2. \A j \in InvoiceIds : j # i => (Occupies(j)' <=> Occupies(j))
  BY <1>1 DEF Occupies
<1>3. PICK a \in InvoiceIds, b \in InvoiceIds :
        a # b /\ Occupies(a)' /\ Occupies(b)' /\ lines'[a] \cap lines'[b] # {}
  BY DEF BilledOnce
<1>4. a = i \/ b = i
  BY <1>1, <1>2, <1>3 DEF BilledOnce
<1>5. PICK j \in InvoiceIds :
        j # i /\ Occupies(j) /\ Occupies(i)' /\ lines'[i] \cap lines[j] # {}
  BY <1>1, <1>2, <1>3, <1>4
<1>6. lines' = lines
  <2>1. ASSUME NEW L \in SUBSET Billables, Billable(L, i), lines' = [lines EXCEPT ![i] = L]
        PROVE  FALSE
    <3>1. lines'[i] = L
      BY <2>1 DEF IInv, TypeOK
    <3>2. L \cap lines[j] = {}
      BY <1>5, <2>1 DEF Billable
    <3> QED
      BY <1>5, <3>1, <3>2
  <2> QED
    BY <2>1 DEF Alters
<1>7. ~Occupies(i)
  BY <1>5, <1>6 DEF BilledOnce
<1> QED
  BY <1>1, <1>5, <1>6, <1>7

\* A step that bills an entry twice brings back an invoice with its lines.
LEMMA StepBills ==
  ASSUME OneSession, IInv, SerialInv, [Next]_vars, BilledOnce, ~BilledOnce'
  PROVE  \E i \in InvoiceIds :
           inv[i] # None /\ ~Occupies(i) /\ Occupies(i)' /\ lines'[i] = lines[i]
<1>1. ASSUME UNCHANGED <<inv, lines, received>>
      PROVE  FALSE
  BY <1>1 DEF BilledOnce, Occupies
<1>2. ASSUME NEW i \in InvoiceIds, Adds(i)
      PROVE  FALSE
  <2>1. PICK L \in SUBSET Billables : Billable(L, None) /\ lines' = [lines EXCEPT ![i] = L]
    BY <1>2 DEF Adds
  <2>2. lines'[i] = L /\ \A j \in InvoiceIds : j # i => lines'[j] = lines[j]
    BY <2>1 DEF IInv, TypeOK
  <2>3. \A j \in InvoiceIds : Occupies(j) => L \cap lines[j] = {}
    BY <2>1, InvoiceAssumption DEF Billable
  <2>4. ASSUME NEW j \in InvoiceIds, j # i, Occupies(j)'
        PROVE  Occupies(j)
    <3>1. CASE inv'[j] = inv[j]
      BY <2>4, <3>1 DEF Occupies
    <3>2. CASE inv[j] # None /\ inv'[j] = [inv[j] EXCEPT !.status = "canceled"]
      <4>1. inv[j] \in Invoice
        BY <3>2 DEF IInv, TypeOK
      <4>2. inv'[j].status = "canceled"
        BY <3>2, <4>1 DEF Invoice
      <4> QED
        BY <2>4, <4>2 DEF Occupies
    <3> QED
      BY <1>2, <2>4, <3>1, <3>2 DEF Adds
  <2>5. BilledOnce'
    <3>1. ASSUME NEW a \in InvoiceIds, NEW b \in InvoiceIds, a # b, Occupies(a)', Occupies(b)'
          PROVE  lines'[a] \cap lines'[b] = {}
      <4>1. CASE a # i /\ b # i
        BY <2>2, <2>4, <3>1, <4>1 DEF BilledOnce
      <4>2. CASE a = i
        BY <2>2, <2>3, <2>4, <3>1, <4>2
      <4>3. CASE b = i
        BY <2>2, <2>3, <2>4, <3>1, <4>3
      <4> QED
        BY <4>1, <4>2, <4>3
    <3> QED
      BY <3>1 DEF BilledOnce
  <2> QED
    BY <2>5
<1>3. ASSUME NEW i \in InvoiceIds, inv' = [inv EXCEPT ![i] = None],
             lines' = [lines EXCEPT ![i] = {}]
      PROVE  FALSE
  <2>1. \A j \in InvoiceIds : Occupies(j)' => Occupies(j) /\ lines'[j] = lines[j]
    BY <1>3 DEF Occupies, IInv, TypeOK
  <2> QED
    BY <2>1 DEF BilledOnce
<1> QED
  BY <1>1, <1>2, <1>3, AlterBills, StepKinds

\* The serial invariant holds from the start and in every step.
LEMMA SerialInductive ==
  ASSUME OneSession
  PROVE  Spec => [](IInv /\ SerialInv)
<1>1. Init => SerialInv
  BY DEF Init, SerialInv, StatusMatchesMoney
<1>2. IInv /\ SerialInv /\ [Next]_vars => SerialInv'
  BY StepSerial
<1> QED
  BY <1>1, <1>2, InitIInv, NextIInv, PTL DEF Spec

\* With handlers that take turns an invoice knows exactly what was paid, and is
\* called paid, or paid in part, as its money says (_sync_payment_status,
\* register_payment, apply_registry_status).
THEOREM StatusFollowsMoney ==
  ASSUME OneSession
  PROVE  Spec => []StatusMatchesMoney
<1>1. SerialInv => StatusMatchesMoney
  BY DEF SerialInv
<1> QED
  BY <1>1, SerialInductive, PTL

\* With handlers that take turns only an invoice that takes its lines back can bill
\* an entry twice (time_entry_on_active_invoice against restore_invoice).
THEOREM LinesAreChecked ==
  ASSUME OneSession
  PROVE  Spec => BilledTwiceOnlyByReturn
<1>1. IInv /\ SerialInv /\ [Next]_vars =>
        (BilledOnce /\ ~BilledOnce' =>
           \E i \in InvoiceIds :
             inv[i] # None /\ ~Occupies(i) /\ Occupies(i)' /\ lines'[i] = lines[i])
  BY StepBills
<1> QED
  BY <1>1, SerialInductive, PTL DEF Spec, BilledTwiceOnlyByReturn

\* With handlers that take turns an invoice with money on it becomes a draft only
\* out of a registry note (unsend_invoice, restore_invoice, apply_registry_status).
THEOREM DraftsComeUnpaid ==
  ASSUME OneSession
  PROVE  Spec => ReturnedUnpaid
<1>1. IInv /\ SerialInv /\ [Next]_vars =>
        \A i \in InvoiceIds :
          inv[i] # None /\ inv'[i] # None /\ inv'[i].status = "draft"
            /\ inv[i].status \notin {"draft"} \cup AllNotes
          => received'[i] = 0
  BY StepKeepsPaid
<1> QED
  BY <1>1, SerialInductive, PTL DEF Spec, ReturnedUnpaid

\* With handlers that take turns a fully paid invoice stays paid until it is canceled
\* or noted, and is paid again when restored (cancel_invoice, restore_invoice).
THEOREM PaidStaysPaid ==
  ASSUME OneSession
  PROVE  Spec => PaidIsKept
<1>1. IInv /\ SerialInv /\ [Next]_vars =>
        \A i \in InvoiceIds : inv[i] # None /\ inv'[i] # None =>
          /\ inv[i].status = "paid" =>
               inv'[i].status \in {"paid", "canceled"} \cup AllNotes
          /\ inv[i].status = "canceled" /\ inv'[i].status \notin {"canceled"} \cup AllNotes
               /\ inv[i].total > 0 /\ received[i] >= inv[i].total
               => inv'[i].status = "paid"
  BY StepKeepsPaid
<1> QED
  BY <1>1, SerialInductive, PTL DEF Spec, PaidIsKept
=============================================================================
