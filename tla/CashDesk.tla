------------------------------ MODULE CashDesk ------------------------------
(***************************************************************************)
(* The company cash desk of the expenses service: one cash figure, its     *)
(* history of movements, and the reimbursements already reflected in it.   *)
(*                                                                         *)
(* Expense handlers that change the "paid" status call                     *)
(* sync_cash_reimbursements before they commit.  The ORM session does not  *)
(* autoflush, so the query of that call reads the status the database held *)
(* before the handler: Finish below folds the committed requests and only  *)
(* then applies the handler's own change.  Of a row the handler loaded the *)
(* query returns the object in memory, with the handler's paid_at.         *)
(***************************************************************************)
EXTENDS Integers, FiniteSets, FiniteSetsExt

CONSTANTS
  Expenses,   \* ids of expense requests, as numbers: ids order equal times
  Amounts,    \* sums used for requests and movements
  Sessions,   \* concurrent expense handlers
  None,       \* NULL
  MaxClock,   \* bound on the number of timestamps taken
  MaxMoves    \* bound on the number of movements ever recorded

ASSUME ExpensesAssumption ==
  Expenses \subseteq Nat /\ IsFiniteSet(Expenses) /\ None \notin Expenses
ASSUME AmountsAssumption == Amounts \subseteq Nat \ {0} /\ None \notin Int
ASSUME BoundsAssumption == MaxClock \in Nat /\ MaxMoves \in Nat

VARIABLES
  req,       \* committed requests: status, paid in cash?, amount, paid_at (0: NULL)
  desk,      \* the balance row
  tracked,   \* amount of each reimbursement already reflected, 0 if none
  moves,     \* the movement rows
  lastId,    \* last movement id given out
  clock,     \* last timestamp taken
  handler    \* running expense handlers, each between its load and its commit

vars == <<req, desk, tracked, moves, lastId, clock, handler>>

Request == [status: {"open", "paid", "closed", "gone"}, cash: BOOLEAN,
            amount: Amounts, paidAt: Nat]

Movement == [id: Nat \ {0}, kind: {"set", "expense", "topup"}, amount: Nat,
             before: Int \cup {None}, after: Int, exp: Expenses \cup {None}, at: Nat]

Idle == [op |-> "idle"]

TypeOK ==
  /\ req \in [Expenses -> Request]
  /\ desk \in [isSet: BOOLEAN, balance: Int, baseline: BOOLEAN, cutoff: Nat]
  /\ tracked \in [Expenses -> Nat]
  /\ moves \subseteq Movement
  /\ lastId \in Nat /\ clock \in Nat
  /\ \A s \in Sessions : handler[s] = Idle \/
       handler[s] \in [op: {"pay", "unpay", "close"}, exp: Expenses,
                       paidAt: Nat, amount: Amounts]

Init ==
  /\ req \in [Expenses -> {[status |-> "open", cash |-> TRUE, amount |-> a, paidAt |-> 0] :
                           a \in Amounts}]
  /\ desk = [isSet |-> FALSE, balance |-> 0, baseline |-> FALSE, cutoff |-> 0]
  /\ tracked = [e \in Expenses |-> 0]
  /\ moves = {} /\ lastId = 0 /\ clock = 0
  /\ handler = [s \in Sessions |-> Idle]

-----------------------------------------------------------------------------
(* Folding reimbursements into a desk d with tracked sums t and rows m *)

Known(t) == {e \in Expenses : t[e] > 0}

\* Order of the paid query: paid_at, NULL last, then id.
PaidBefore(at, x, y) ==
  \/ at[x] # 0 /\ (at[y] = 0 \/ at[x] < at[y])
  \/ at[x] = at[y] /\ x < y

Total(f, S) == MapThenSumSet(LAMBDA e : f[e], S)

\* plan_reimbursement_actions: what to track without touching the figure, what
\* to subtract, what to give back.  at and amt are what the query returned for
\* the paid requests P.
Baseline(d, t, P, at) ==
  IF d.baseline THEN {}
  ELSE {e \in P \ Known(t) : at[e] = 0 \/ at[e] <= d.cutoff}
\* Mutant: what is already reflected is subtracted again.
FreshAgain(d, t, P, at) == P \ Baseline(d, t, P, at)

Fresh(d, t, P, at) == P \ (Known(t) \cup Baseline(d, t, P, at))
\* Mutant: a rolled back reimbursement is never given back.
CancelledNever(t, P) == {}

Cancelled(t, P) == Known(t) \ P

FoldRow(d, t, P, at, amt, now, id, e) ==
  LET earlier == {x \in Fresh(d, t, P, at) : PaidBefore(at, x, e)}
      before == d.balance - Total(amt, earlier)
  IN  [id |-> id + Cardinality(earlier) + 1, kind |-> "expense", amount |-> amt[e],
       before |-> before, after |-> before - amt[e], exp |-> e,
       at |-> IF at[e] = 0 THEN now ELSE at[e]]

\* sync_cash_reimbursements applied to (d, t, m, id); nothing happens before a
\* balance was set.
Fold(d, t, m, id, P, at, amt, now) ==
  IF ~d.isSet
  THEN /\ desk' = d /\ tracked' = t /\ moves' = m /\ lastId' = id
  ELSE LET fresh == Fresh(d, t, P, at)
           back == Cancelled(t, P)
       IN
       /\ desk' = [d EXCEPT !.balance = @ - Total(amt, fresh) + Total(t, back),
                            !.baseline = TRUE]
       /\ tracked' = [e \in Expenses |->
            IF e \in P \ Known(t) THEN amt[e] ELSE IF e \in back THEN 0 ELSE t[e]]
       /\ moves' = {x \in m : x.exp \notin back}
                     \cup {FoldRow(d, t, P, at, amt, now, id, e) : e \in fresh}
       /\ lastId' = id + Cardinality(fresh)

PaidCash == {e \in Expenses : req[e].status = "paid" /\ req[e].cash}
PaidAt == [e \in Expenses |-> req[e].paidAt]
AmountOf == [e \in Expenses |-> req[e].amount]

-----------------------------------------------------------------------------
(* Expense handlers *)

\* Load the request, check its status and stamp the change in memory.
Load(s, e, op) ==
  /\ handler[s] = Idle
  /\ clock < MaxClock
  /\ req[e].status = IF op = "pay" THEN "open" ELSE "paid"
  /\ clock' = clock + 1
  /\ handler' = [handler EXCEPT ![s] =
       [op |-> op, exp |-> e, amount |-> req[e].amount,
        paidAt |-> CASE op = "pay" -> clock + 1
                     [] op = "unpay" -> 0
                     [] op = "close" -> req[e].paidAt]]
  /\ UNCHANGED <<req, desk, tracked, moves, lastId>>

\* The status a handler writes.
StatusAfter(op) == CASE op = "pay" -> "paid" [] op = "unpay" -> "open" [] op = "close" -> "closed"

\* Fold what is committed, then flush the handler's own change and commit.
Finish(s) ==
  LET h == handler[s] IN
  /\ h # Idle
  /\ req[h.exp].status # "gone"
  /\ lastId + Cardinality(Expenses) <= MaxMoves
  /\ Fold(desk, tracked, moves, lastId, PaidCash,
          [PaidAt EXCEPT ![h.exp] = h.paidAt], [AmountOf EXCEPT ![h.exp] = h.amount], clock)
  /\ req' = [req EXCEPT ![h.exp].status = StatusAfter(h.op), ![h.exp].paidAt =
               IF h.op = "close" THEN @ ELSE h.paidAt]
  /\ handler' = [handler EXCEPT ![s] = Idle]
  /\ UNCHANGED clock

\* The handler fails, or its row was deleted meanwhile: nothing is written.
Fail(s) ==
  /\ handler[s] # Idle
  /\ handler' = [handler EXCEPT ![s] = Idle]
  /\ UNCHANGED <<req, desk, tracked, moves, lastId, clock>>

\* An administrator edits the sum or the payment method in any status; no fold.
Edit(e, amount, cash) ==
  /\ req[e].status # "gone"
  /\ req' = [req EXCEPT ![e].amount = amount, ![e].cash = cash]
  /\ UNCHANGED <<desk, tracked, moves, lastId, clock, handler>>

\* A request is deleted; no fold.
Remove(e) ==
  /\ req[e].status # "gone"
  /\ req' = [req EXCEPT ![e].status = "gone"]
  /\ UNCHANGED <<desk, tracked, moves, lastId, clock, handler>>

-----------------------------------------------------------------------------
(* Cash desk endpoints; each holds the lock on the balance row throughout *)

GetCash ==
  /\ lastId + Cardinality(Expenses) <= MaxMoves
  /\ Fold(desk, tracked, moves, lastId, PaidCash, PaidAt, AmountOf, clock)
  /\ UNCHANGED <<req, clock, handler>>

SetBalance(amount) ==
  LET now == clock + 1
      setRow == [id |-> lastId + 1, kind |-> "set", amount |-> amount,
                 before |-> IF desk.isSet THEN desk.balance ELSE None,
                 after |-> amount, exp |-> None, at |-> now]
  IN
  /\ clock < MaxClock
  /\ lastId + 1 + Cardinality(Expenses) <= MaxMoves
  /\ clock' = now
  /\ Fold([isSet |-> TRUE, balance |-> amount, baseline |-> FALSE, cutoff |-> now],
          [e \in Expenses |-> 0], moves \cup {setRow}, lastId + 1,
          PaidCash, PaidAt, AmountOf, now)
  /\ UNCHANGED <<req, handler>>

Effect(kind, amount) == IF kind = "expense" THEN -amount ELSE amount

\* A hand-typed expense or top-up.
Record(kind, amount) ==
  /\ desk.isSet
  /\ clock < MaxClock /\ lastId < MaxMoves
  /\ clock' = clock + 1 /\ lastId' = lastId + 1
  /\ desk' = [desk EXCEPT !.balance = @ + Effect(kind, amount)]
  /\ moves' = moves \cup
       {[id |-> lastId + 1, kind |-> kind, amount |-> amount, before |-> desk.balance,
         after |-> desk.balance + Effect(kind, amount), exp |-> None, at |-> clock + 1]}
  /\ UNCHANGED <<req, tracked, handler>>

IsManual(m) == m.exp = None /\ m.kind \in {"expense", "topup"}

Earlier(x, y) == x.at < y.at \/ (x.at = y.at /\ x.id < y.id)

\* Mutant: later rows keep what was there before.
ShiftedAfterOnly(R, m, delta) ==
  {IF Earlier(m, x) /\ x.kind # "set" THEN [x EXCEPT !.after = @ + delta] ELSE x : x \in R}

\* propagate_cash_delta over the rows R after m: rows up to the next balance
\* set are shifted, of that row only what was there before, none beyond it.
Shifted(R, m, delta) ==
  LET later == {x \in R : Earlier(m, x)}
      sets == {x \in later : x.kind = "set"}
      Reached(x) == x \in later /\ ~\E y \in sets : Earlier(y, x)
      Shift(x) ==
        IF ~Reached(x) THEN x
        ELSE [x EXCEPT !.before = IF @ = None THEN None ELSE @ + delta,
                       !.after = IF x.kind = "set" THEN @ ELSE @ + delta]
  IN  {Shift(x) : x \in R}

\* Mutant: an old row moves today's figure past a later balance set.
ReachesAlways(R, m) == TRUE

ReachesBalance(R, m) == ~\E x \in R : x.kind = "set" /\ Earlier(m, x)

\* Editing a manual row, and deleting one.
EditMovement(m, amount) ==
  LET delta == Effect(m.kind, amount) - Effect(m.kind, m.amount)
      new == [m EXCEPT !.amount = amount, !.after = m.before + Effect(m.kind, amount)]
  IN
  /\ IsManual(m)
  /\ moves' = Shifted(moves \ {m}, m, delta) \cup {new}
  /\ desk' = [desk EXCEPT !.balance = IF ReachesBalance(moves, m) THEN @ + delta ELSE @]
  /\ UNCHANGED <<req, tracked, lastId, clock, handler>>

DeleteMovement(m) ==
  LET delta == -Effect(m.kind, m.amount) IN
  /\ IsManual(m)
  /\ moves' = Shifted(moves \ {m}, m, delta)
  /\ desk' = [desk EXCEPT !.balance = IF ReachesBalance(moves, m) THEN @ + delta ELSE @]
  /\ UNCHANGED <<req, tracked, lastId, clock, handler>>

Next ==
  \/ \E s \in Sessions :
       \/ \E e \in Expenses, op \in {"pay", "unpay", "close"} : Load(s, e, op)
       \/ Finish(s) \/ Fail(s)
  \/ \E e \in Expenses : Remove(e) \/ \E a \in Amounts, c \in BOOLEAN : Edit(e, a, c)
  \/ GetCash
  \/ \E a \in Amounts :
       \/ SetBalance(a)
       \/ \E kind \in {"expense", "topup"} : Record(kind, a)
  \/ \E m \in moves : DeleteMovement(m) \/ \E a \in Amounts : EditMovement(m, a)

Spec == Init /\ [][Next]_vars

-----------------------------------------------------------------------------
(* Properties *)

SetRows == {m \in moves : m.kind = "set"}
LastSetId == IF SetRows = {} THEN 0 ELSE Max({m.id : m \in SetRows})
SinceSet == {m \in moves : m.id > LastSetId}
Linked(e) == {m \in SinceSet : m.exp = e}

\* What the cash figure holds beyond the last amount typed in and the rows
\* recorded since.
Unexplained ==
  desk.balance - MapThenSumSet(LAMBDA m : m.amount, {m \in SetRows : m.id = LastSetId})
               - MapThenSumSet(LAMBDA m : Effect(m.kind, m.amount), SinceSet)

\* Every row adds up: its two balances differ by its amount, and a balance
\* set states its own.  Later edits of older rows shift both sides together.
RowsAddUp ==
  \A m \in moves :
    IF m.kind = "set" THEN m.after = m.amount
    ELSE m.before # None /\ m.after = m.before + Effect(m.kind, m.amount)

\* Money neither appears nor vanishes: between two balance sets the figure is
\* explained by the rows of the history, except that rolling back a
\* reimbursement the opening balance already included gives its sum back.
FigureExplained ==
  [][LastSetId' = LastSetId /\ desk.isSet =>
       Unexplained' = Unexplained +
         Total(tracked, {e \in Expenses : tracked[e] > 0 /\ tracked'[e] = 0
                                           /\ Linked(e) = {}})]_vars

\* A reimbursement is charged at most once since the balance was set, at the
\* sum that rolling it back would return.
ChargedOnce ==
  \A e \in Expenses : Cardinality(Linked(e)) <= 1 /\ \A m \in Linked(e) : tracked[e] = m.amount

\* Opening the cash page settles everything: right after it the reflected
\* reimbursements are exactly the committed cash requests that are paid.
PageSettles ==
  [][GetCash /\ desk.isSet => Known(tracked') = PaidCash]_vars

\* The history in its displayed order is a chain of balances that ends at the
\* cash figure.
HistoryChains ==
  \A x \in moves :
    LET later == {y \in moves : Earlier(x, y)} IN
    IF later = {} THEN desk.balance = x.after
    ELSE LET next == CHOOSE y \in later : \A z \in later \ {y} : Earlier(y, z)
         IN  next.before = x.after

\* No row typed in, edited or deleted by hand, and no balance set, breaks such a
\* chain; only a reimbursement, listed under the time it was paid, can.
HandKeepsChain ==
  [][HistoryChains /\ moves' # moves /\ tracked' = tracked => HistoryChains']_vars

-----------------------------------------------------------------------------
(* What the source says and the code does not keep *)

\* "Later status ... subtracts amount_uzs and is listed once.  Rolling that
\* status back adds the amount back and drops the row."  (plan_reimbursement_actions)
ListedOnce == \A e \in Expenses : Cardinality({m \in moves : m.exp = e}) <= 1

\* "Fold new and cancelled cash reimbursements into the cash balance and
\* history."  (sync_cash_reimbursements)  After the handler that pays or
\* unpays a request has committed, its reimbursement is reflected.
HandlerFoldsItself ==
  [][\A s \in Sessions :
       (handler[s] # Idle /\ handler'[s] = Idle /\ req' # req /\ desk.isSet)
         => LET e == handler[s].exp IN
            (tracked'[e] > 0) <=> (req'[e].status = "paid" /\ req'[e].cash)]_vars

\* "Opening balance already includes reimbursements paid at or before it was
\* set."  (plan_reimbursement_actions)  So none is subtracted after it.
CutoffRespected ==
  \A m \in SinceSet : m.exp # None => m.at > desk.cutoff
=============================================================================
