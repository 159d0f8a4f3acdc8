--------------------------- MODULE Backups_proofs ---------------------------
(* Proofs about Backups, for any number of requests, commands, snapshots,    *)
(* failing writes and killed processes.                                      *)
EXTENDS Backups, FiniteSetTheorems, TLAPS

\* Fewer snapshots have a smaller number.
LEMMA Counting ==
  ASSUME NEW S, S \subseteq Snapshots, NEW T, T \subseteq S
  PROVE  /\ Cardinality(S) \in Nat
         /\ Cardinality(T) \in Nat
         /\ Cardinality(T) <= Cardinality(S)
<1>1. IsFiniteSet(Snapshots)
  BY FS_Interval, CountsAreNumbers DEF Snapshots
<1>2. IsFiniteSet(S) /\ IsFiniteSet(T)
  BY <1>1, FS_Subset
<1> QED
  BY <1>2, FS_Subset, FS_CardinalityType

\* What Becomes does to the callers.
LEMMA BecomesOne ==
  ASSUME TypeOK, NEW c \in Callers, NEW k \in Calls, Becomes(c, k)
  PROVE  /\ call' \in [Callers -> Calls]
         /\ \A d \in Callers : call'[d] = IF d = c THEN k ELSE call[d]
  BY DEF TypeOK, Becomes

LEMMA IdleIsCall == Idle \in Calls /\ NoState \in States
  BY CountsAreNumbers DEF Idle, NoState, Calls, States, Snapshots

LEMMA ReadableIsState == TypeOK => \A c \in Callers : Readable(c) \subseteq States
  BY IdleIsCall DEF Readable, TypeOK

\* What of the invariant depends on a caller alone.
Orderly(k) ==
  /\ k.id <= made
  /\ k.pc \in InRun => k.id > 0
  /\ k.pc \in {"raised", "failing"} => errors > 0

\* A step of one caller that lists nothing less and chooses only what is
\* outlived preserves the invariant.
LEMMA CallerStep ==
  ASSUME IInv, NEW c \in Callers, NEW k \in Calls, Becomes(c, k),
         made' \in 0..MaxRuns, made <= made', errors' \in Nat, errors <= errors',
         dirs' \in [Snapshots -> {"absent", "open"} \cup Outcomes],
         state' \in States, overlapped' \in BOOLEAN, old' = old,
         \A j \in Snapshots : j > made' => dirs'[j] = "absent",
         k.id <= made',
         k.pc \in InRun => k.id > 0,
         k.pc \in {"raised", "failing"} => errors' > 0,
         errors' = 0 => Listed \subseteq Listed',
         errors' = 0 => \A id \in k.doomed :
                          id \in call[c].doomed \/ Cardinality(Newer(id)) >= MinCount
  PROVE  IInv'
<1>1. /\ call' \in [Callers -> Calls]
      /\ \A d \in Callers : call'[d] = IF d = c THEN k ELSE call[d]
  BY BecomesOne DEF IInv
<1>2. TypeOK'
  BY <1>1 DEF IInv, TypeOK
<1>3. Order'
  <2> SUFFICES ASSUME NEW d \in Callers
               PROVE  /\ call'[d].id <= made'
                      /\ call'[d].pc \in InRun => call'[d].id > 0
                      /\ call'[d].pc \in {"raised", "failing"} => errors' > 0
    BY DEF Order
  <2>1. CASE d = c
    BY <1>1, <2>1
  <2>2. CASE d # c
    <3>1. call'[d] = call[d] /\ call[d] \in Calls
      BY <1>1, <2>2 DEF IInv, TypeOK
    <3> QED
      BY <3>1, CountsAreNumbers DEF IInv, TypeOK, Order, Calls
  <2> QED
    BY <2>1, <2>2
<1>4. ASSUME errors' = 0, NEW d \in Callers, NEW id \in call'[d].doomed
      PROVE  Cardinality(Newer(id)') >= MinCount
  <2>1. errors = 0
    BY <1>4 DEF IInv, TypeOK
  <2>2. Cardinality(Newer(id)) >= MinCount
    BY <1>1, <1>4, <2>1 DEF IInv, DoomedOutlived
  <2>3. Newer(id) \subseteq Newer(id)' /\ Newer(id)' \subseteq Snapshots
    BY <1>4 DEF Newer, Listed
  <2>4. /\ Cardinality(Newer(id)) \in Nat
        /\ Cardinality(Newer(id)') \in Nat
        /\ Cardinality(Newer(id)) <= Cardinality(Newer(id)')
    BY <2>3, Counting
  <2> QED
    BY <2>2, <2>4, CountsAreNumbers
<1>5. DoomedOutlived'
  BY <1>4 DEF DoomedOutlived
<1> QED
  BY <1>2, <1>3, <1>5 DEF IInv

\* A step that leaves the directories alone lists nothing less.
LEMMA SameListed == UNCHANGED dirs => Listed' = Listed
  BY DEF Listed

\* The steps of a run up to its retention.
LEMMA RunStep ==
  ASSUME IInv, NEW c \in Callers,
         Ask(c) \/ Start(c) \/ Clash(c) \/ Load(c) \/ Announce(c) \/ Dump(c) \/ Report(c)
  PROVE  IInv'
<1> USE DEF IInv, TypeOK
<1>0. call[c] \in Calls /\ made \in 0..MaxRuns /\ MaxRuns \in Nat
  BY CountsAreNumbers
<1>1. CASE Ask(c)
  <2>1. [call[c] EXCEPT !.pc = "asked"] \in Calls
    BY <1>0 DEF Calls
  <2> QED
    BY <1>0, <1>1, <2>1, CallerStep, SameListed DEF Ask, At, Order, InRun, Calls
<1>2. CASE Start(c)
  <2> DEFINE k == [Idle EXCEPT !.pc = "made", !.id = made + 1]
  <2>1. k \in Calls /\ k.id = made + 1 /\ k.pc = "made" /\ k.doomed = {}
    <3>1. made + 1 \in 0..MaxRuns
      BY <1>0, <1>2 DEF Start
    <3>2. k \in Calls
      BY <3>1, IdleIsCall DEF Calls, InRun
    <3>3. k.id = made + 1 /\ k.pc = "made" /\ k.doomed = {}
      BY DEF Idle
    <3> QED
      BY <3>2, <3>3
  <2>2. Becomes(c, k)
    BY <1>2 DEF Start
  <2>3. /\ dirs' \in [Snapshots -> {"absent", "open"} \cup Outcomes]
        /\ \A j \in Snapshots : j > made + 1 => dirs'[j] = "absent"
        /\ Listed \subseteq Listed'
    BY <1>0, <1>2, OutcomesAreStatuses DEF Start, Order, Listed, Snapshots
  <2>4. made' \in 0..MaxRuns /\ made <= made' /\ made' = made + 1
    BY <1>0, <1>2 DEF Start
  <2>5. overlapped' \in BOOLEAN /\ UNCHANGED <<old, state, errors>>
    BY <1>2 DEF Start
  <2> HIDE DEF k
  <2> QED
    BY <1>0, <2>1, <2>2, <2>3, <2>4, <2>5, CallerStep
<1>3. CASE Clash(c)
  BY <1>0, <1>3, IdleIsCall, CallerStep, SameListed DEF Clash, Ends, Order, InRun, Idle
<1>4. CASE Load(c)
  <2>1. PICK s \in Readable(c) :
          Becomes(c, [call[c] EXCEPT !.pc = "loaded",
                                     !.copy = [s EXCEPT !.running = TRUE, !.error = FALSE]])
    BY <1>4 DEF Load
  <2> DEFINE m == [s EXCEPT !.running = TRUE, !.error = FALSE]
             k == [call[c] EXCEPT !.pc = "loaded", !.copy = m]
  <2>2. s \in States
    BY ReadableIsState
  <2>3. m \in States
    BY <2>2 DEF States
  <2>4. k \in Calls /\ k.id = call[c].id /\ k.pc = "loaded" /\ k.doomed = call[c].doomed
    BY <1>0, <2>3 DEF Calls, InRun
  <2>5. Becomes(c, k)
    BY <2>1
  <2>6. call[c].id <= made /\ call[c].id > 0
    BY <1>4 DEF Load, Order, InRun
  <2>7. UNCHANGED <<made, dirs, old, state, errors, overlapped>>
    BY <1>4 DEF Load
  <2>8. \A j \in Snapshots : j > made => dirs[j] = "absent"
    BY DEF Order
  <2> HIDE DEF k
  <2> QED
    BY <1>0, <2>4, <2>5, <2>6, <2>7, <2>8, CallerStep, SameListed
<1>5. CASE Announce(c)
  <2>1. [call[c] EXCEPT !.pc = "dumping"] \in Calls /\ call[c].copy \in States
    BY <1>0 DEF Calls, InRun
  <2> QED
    BY <1>0, <1>5, <2>1, CallerStep, SameListed DEF Announce, At, Order, InRun, Calls
<1>6. CASE Dump(c)
  <2>1. PICK outcome \in Outcomes :
          /\ dirs' = [dirs EXCEPT ![call[c].id] = outcome]
          /\ Becomes(c, [call[c] EXCEPT
                           !.pc = "written",
                           !.copy = [running |-> FALSE, last |-> call[c].id,
                                     status |-> outcome, error |-> (outcome = "failed")]])
    BY <1>6 DEF Dump
  <2> DEFINE m == [running |-> FALSE, last |-> call[c].id,
                   status |-> outcome, error |-> (outcome = "failed")]
             k == [call[c] EXCEPT !.pc = "written", !.copy = m]
  <2>2. call[c].id <= made /\ call[c].id > 0 /\ call[c].id \in 0..MaxRuns
    BY <1>0, <1>6 DEF Dump, Order, InRun, Calls
  <2>3. m \in States
    BY <1>0, <2>2 DEF States, Snapshots
  <2>4. k \in Calls /\ k.id = call[c].id /\ k.pc = "written" /\ k.doomed = call[c].doomed
    BY <1>0, <2>3 DEF Calls, InRun
  <2>5. Becomes(c, k)
    BY <2>1
  <2>6. /\ dirs' \in [Snapshots -> {"absent", "open"} \cup Outcomes]
        /\ \A j \in Snapshots : j > made => dirs'[j] = "absent"
        /\ Listed \subseteq Listed'
    BY <1>0, <2>1, <2>2 DEF Order, Listed, Snapshots
  <2>7. UNCHANGED <<made, old, state, errors, overlapped>>
    BY <1>6 DEF Dump
  <2> HIDE DEF k
  <2> QED
    BY <1>0, <2>2, <2>4, <2>5, <2>6, <2>7, CallerStep
<1>7. CASE Report(c)
  <2>1. [call[c] EXCEPT !.pc = "reported"] \in Calls /\ call[c].copy \in States
    BY <1>0 DEF Calls, InRun
  <2> QED
    BY <1>0, <1>7, <2>1, CallerStep, SameListed DEF Report, At, Order, InRun, Calls
<1> QED
  BY <1>1, <1>2, <1>3, <1>4, <1>5, <1>6, <1>7

\* The handler of a failed run.
LEMMA FaultStep ==
  ASSUME IInv, NEW c \in Callers, Raise(c) \/ Excuse(c) \/ Undo(c)
  PROVE  IInv'
<1> USE DEF IInv, TypeOK
<1>0. call[c] \in Calls /\ made \in 0..MaxRuns /\ MaxRuns \in Nat
  BY CountsAreNumbers
<1>1. CASE Raise(c)
  <2>1. errors' = errors + 1 /\ errors' \in Nat /\ errors' > 0
    BY <1>1 DEF Raise
  <2>2. [call[c] EXCEPT !.pc = "raised"] \in Calls
    BY <1>0 DEF Calls, InRun
  <2>3. CASE call[c].pc \in {"dumping", "written", "reported"} /\ At(c, "raised")
    BY <1>0, <1>1, <2>1, <2>2, <2>3, CallerStep DEF Raise, At, Order, InRun, Calls
  <2>4. CASE Ends(c)
    BY <1>0, <1>1, <2>1, <2>4, IdleIsCall, CallerStep DEF Raise, Ends, Order, InRun, Idle
  <2> QED
    BY <1>1, <2>3, <2>4 DEF Raise
<1>2. CASE Excuse(c)
  <2> DEFINE m == [call[c].copy EXCEPT !.running = FALSE, !.error = TRUE]
  <2>1. [call[c] EXCEPT !.pc = "failing"] \in Calls /\ call[c].copy \in States
    BY <1>0 DEF Calls, InRun
  <2>2. m \in States
    BY <2>1 DEF States
  <2>3. state' \in States
    BY <1>2, <2>2 DEF Excuse
  <2> QED
    BY <1>0, <1>2, <2>1, <2>3, CallerStep, SameListed DEF Excuse, At, Order, InRun, Calls
<1>3. CASE Undo(c)
  <2>1. errors > 0
    BY <1>3 DEF Undo, Order
  <2>2. /\ dirs' \in [Snapshots -> {"absent", "open"} \cup Outcomes]
        /\ \A j \in Snapshots : j > made => dirs'[j] = "absent"
    BY <1>3 DEF Undo, Order
  <2> QED
    BY <1>0, <1>3, <2>1, <2>2, IdleIsCall, CallerStep DEF Undo, Ends, Order, InRun, Idle
<1> QED
  BY <1>1, <1>2, <1>3

\* What is left of the choice of a retention.
LEMMA DoomsStep ==
  ASSUME TypeOK, NEW c \in Callers, NEW ids \in SUBSET Snapshots, Dooms(c, ids)
  PROVE  \E k \in Calls : /\ Becomes(c, k)
                          /\ k.id = 0 /\ k.doomed = ids
                          /\ k.pc \in {"idle", "pruning"}
<1> DEFINE k == IF ids = {} THEN Idle ELSE [Idle EXCEPT !.pc = "pruning", !.doomed = ids]
<1>1. k \in Calls /\ k.id = 0 /\ k.doomed = ids /\ k.pc \in {"idle", "pruning"}
  BY IdleIsCall DEF Idle, Calls, InRun
<1>2. Becomes(c, k)
  BY DEF Dooms
<1> QED
  BY <1>1, <1>2

\* Removing what is outlived leaves everything outlived that was.
LEMMA PruneOutlives ==
  ASSUME IInv, errors = 0, NEW c \in Callers, Prune(c),
         NEW d \in Callers, NEW id \in call[d].doomed
  PROVE  Cardinality(Newer(id)') >= MinCount
<1>1. PICK x \in call[c].doomed : dirs' = [dirs EXCEPT ![x] = "absent"]
  BY DEF Prune
<1>2. x \in Snapshots /\ id \in Snapshots
  BY DEF IInv, TypeOK, Calls
<1>3. Listed' = Listed \ {x}
  BY <1>1, <1>2, OutcomesAreStatuses DEF IInv, TypeOK, Listed
<1>4. /\ Cardinality(Newer(x)) >= MinCount
      /\ Cardinality(Newer(id)) >= MinCount
  BY DEF IInv, DoomedOutlived
<1>5. Newer(id)' = Newer(id) \ {x}
  BY <1>3 DEF Newer
<1>6. CASE x \in Newer(id)
  <2>1. Newer(x) \subseteq Newer(id)' /\ Newer(id)' \subseteq Snapshots
    BY <1>2, <1>5, <1>6, CountsAreNumbers DEF Newer, Listed, Snapshots
  <2>2. /\ Cardinality(Newer(x)) \in Nat
        /\ Cardinality(Newer(id)') \in Nat
        /\ Cardinality(Newer(x)) <= Cardinality(Newer(id)')
    BY <2>1, Counting
  <2> QED
    BY <1>4, <2>2, CountsAreNumbers
<1>7. CASE x \notin Newer(id)
  BY <1>4, <1>5, <1>7
<1> QED
  BY <1>6, <1>7

\* The retention.
LEMMA RetentionStep ==
  ASSUME IInv, NEW c \in Callers, Retain(c) \/ Scan(c) \/ Prune(c)
  PROVE  IInv'
<1> USE DEF IInv, TypeOK
<1>0. call[c] \in Calls /\ made \in 0..MaxRuns /\ MaxRuns \in Nat
  BY CountsAreNumbers
<1>1. CASE Retain(c)
  <2>1. [call[c] EXCEPT !.pc = "retaining"] \in Calls
    BY <1>0 DEF Calls
  <2> QED
    BY <1>0, <1>1, <2>1, CallerStep, SameListed DEF Retain, At, Order, InRun, Calls
<1>2. CASE Scan(c)
  <2>1. Removable \subseteq Snapshots
    BY DEF Removable, Listed
  <2>2. PICK k \in Calls : /\ Becomes(c, k)
                           /\ k.id = 0 /\ k.doomed = Removable
                           /\ k.pc \in {"idle", "pruning"}
    BY <1>2, <2>1, DoomsStep DEF Scan
  <2>3. \A id \in k.doomed : Cardinality(Newer(id)) >= MinCount
    BY <2>2 DEF Removable
  <2> QED
    BY <1>0, <1>2, <2>2, <2>3, CallerStep, SameListed DEF Scan, Order, InRun
<1>3. CASE Prune(c)
  <2>1. PICK x \in call[c].doomed : /\ dirs' = [dirs EXCEPT ![x] = "absent"]
                                    /\ Dooms(c, call[c].doomed \ {x})
    BY <1>3 DEF Prune
  <2>2. call[c].doomed \subseteq Snapshots
    BY <1>0 DEF Calls
  <2>3. PICK k \in Calls : /\ Becomes(c, k)
                           /\ k.id = 0 /\ k.doomed = call[c].doomed \ {x}
                           /\ k.pc \in {"idle", "pruning"}
    BY <2>1, <2>2, DoomsStep
  <2>4. /\ call' \in [Callers -> Calls]
        /\ \A d \in Callers : call'[d] = IF d = c THEN k ELSE call[d]
    BY <2>3, BecomesOne
  <2>5. TypeOK'
    BY <1>3, <2>1, <2>4 DEF Prune
  <2>6. Order'
    <3>1. \A j \in Snapshots : j > made' => dirs'[j] = "absent"
      BY <1>3, <2>1, <2>2 DEF Prune, Order
    <3>2. ASSUME NEW d \in Callers
          PROVE  /\ call'[d].id <= made'
                 /\ call'[d].pc \in InRun => call'[d].id > 0
                 /\ call'[d].pc \in {"raised", "failing"} => errors' > 0
      <4>1. made' = made /\ errors' = errors
        BY <1>3 DEF Prune
      <4> QED
        BY <1>0, <2>3, <2>4, <4>1 DEF Order, InRun
    <3> QED
      BY <3>1, <3>2 DEF Order
  <2>7. DoomedOutlived'
    <3> SUFFICES ASSUME errors' = 0, NEW d \in Callers, NEW id \in call'[d].doomed
                 PROVE  Cardinality(Newer(id)') >= MinCount
      BY DEF DoomedOutlived
    <3>1. errors = 0 /\ id \in call[d].doomed
      BY <1>3, <2>3, <2>4 DEF Prune
    <3> QED
      BY <1>3, <3>1, PruneOutlives
  <2> QED
    BY <2>5, <2>6, <2>7
<1> QED
  BY <1>1, <1>2, <1>3

\* A killed process forgets what it was at; nothing else changes.
LEMMA KillStep == ASSUME IInv, NEW victims, Kill(victims) PROVE IInv'
<1>1. /\ call' \in [Callers -> Calls]
      /\ \A d \in Callers : call'[d] = Idle \/ call'[d] = call[d]
      /\ UNCHANGED <<made, dirs, old, state, errors, overlapped>>
  BY IdleIsCall DEF IInv, TypeOK, Kill
<1>2. TypeOK'
  BY <1>1 DEF IInv, TypeOK
<1>3. Order'
  <2>1. 0 <= made
    BY CountsAreNumbers DEF IInv, TypeOK
  <2> QED
    BY <1>1, <2>1 DEF IInv, Order, Idle, InRun
<1>4. DoomedOutlived'
  <2>1. \A id \in Snapshots : Newer(id)' = Newer(id)
    BY <1>1 DEF Newer, Listed
  <2>2. \A d \in Callers : call'[d].doomed \subseteq call[d].doomed /\ call[d].doomed \subseteq Snapshots
    BY <1>1 DEF IInv, TypeOK, Calls, Idle
  <2> QED
    BY <1>1, <2>1, <2>2 DEF IInv, DoomedOutlived
<1> QED
  BY <1>2, <1>3, <1>4 DEF IInv

LEMMA InitIInv == Init => IInv
<1> SUFFICES ASSUME Init PROVE IInv
  OBVIOUS
<1>1. TypeOK
  <2>1. 0 \in 0..MaxRuns /\ 0 \in Nat
    BY CountsAreNumbers
  <2>2. call \in [Callers -> Calls] /\ state \in States
    BY IdleIsCall DEF Init
  <2>3. dirs \in [Snapshots -> {"absent", "open"} \cup Outcomes]
    BY DEF Init
  <2> QED
    BY <2>1, <2>2, <2>3 DEF Init, TypeOK
<1>2. Order /\ DoomedOutlived
  BY DEF Init, Order, DoomedOutlived, Idle, InRun
<1> QED
  BY <1>1, <1>2 DEF IInv

LEMMA NextIInv == IInv /\ [Next]_vars => IInv'
<1> SUFFICES ASSUME IInv, [Next]_vars PROVE IInv'
  OBVIOUS
<1>1. ASSUME NEW c \in Callers,
             Ask(c) \/ Start(c) \/ Clash(c) \/ Retain(c) \/ GoOn(c) \/ Raise(c)
      PROVE  IInv'
  BY <1>1, RunStep, FaultStep, RetentionStep DEF GoOn
<1>2. ASSUME NEW victims, Kill(victims) PROVE IInv'
  BY <1>2, KillStep
<1>3. CASE TimePasses
  <2>1. old' \in 0..MaxRuns
    BY <1>3, CountsAreNumbers DEF TimePasses, IInv, TypeOK
  <2> QED
    BY <1>3, <2>1 DEF TimePasses, IInv, TypeOK, Order, DoomedOutlived, Newer, Listed
<1>4. CASE UNCHANGED vars
  BY <1>4 DEF vars, IInv, TypeOK, Order, DoomedOutlived, Newer, Listed
<1> QED
  BY <1>1, <1>2, <1>3, <1>4 DEF Next

(* The types, the order of a run and the choice of a retention hold in every
   state, whatever overlaps, fails or is killed. *)
THEOREM Inductive == Spec => []IInv
  BY InitIInv, NextIInv, PTL DEF Spec

(* Everything is of its type in every state (run_backup, apply_retention). *)
THEOREM TypeCorrect == Spec => []TypeOK
  BY Inductive, PTL DEF IInv

\* One step removes a listed snapshot only as outlived.
LEMMA RemovalSpares ==
  ASSUME IInv, IInv', [Next]_vars, errors = 0, NEW id \in Listed, dirs'[id] = "absent"
  PROVE  Cardinality({j \in Snapshots : j > id /\ dirs'[j] \in Outcomes}) >= MinCount
<1>1. id \in Snapshots /\ dirs[id] # "absent" /\ dirs[id] # "open"
      /\ dirs[id] \in Outcomes /\ "absent" \notin Outcomes
  BY OutcomesAreStatuses DEF Listed
<1>2. PICK c \in Callers : Start(c) \/ Dump(c) \/ Prune(c) \/ Undo(c)
  BY <1>1 DEF Next, vars, GoOn, Ask, Clash, Retain, Load, Announce, Report, Scan, Raise,
              Excuse, Kill, TimePasses
<1>3. ~Start(c)
  BY <1>1 DEF Start, IInv, TypeOK
<1>4. ~Dump(c)
  BY <1>1 DEF Dump, IInv, TypeOK
<1>5. ~Undo(c)
  BY DEF Undo, IInv, TypeOK, Order
<1>6. Prune(c)
  BY <1>2, <1>3, <1>4, <1>5
<1>7. id \in call[c].doomed
  BY <1>1, <1>6 DEF Prune, IInv, TypeOK
<1>8. Cardinality(Newer(id)') >= MinCount
  BY <1>6, <1>7, PruneOutlives
<1>9. Newer(id)' = {j \in Snapshots : j > id /\ dirs'[j] \in Outcomes}
  BY DEF Newer, Listed
<1> QED
  BY <1>8, <1>9

(* Whatever overlaps, and as long as no read or write failed, a listed snapshot
   goes only while MinCount newer ones stay (apply_retention). *)
THEOREM NewestSpared == Spec => PruneSpares
<1>1. IInv /\ IInv' /\ [Next]_vars =>
        (errors = 0 => \A id \in Listed : dirs'[id] = "absent" =>
           Cardinality({j \in Snapshots : j > id /\ dirs'[j] \in Outcomes}) >= MinCount)
  BY RemovalSpares
<1> QED
  BY <1>1, Inductive, PTL DEF Spec, PruneSpares

----------------------------------------------------------------------------
\* With runs one after the other.

\* The three parts of Truthful.
Alone == \A c, d \in Callers : call[c].pc \in InRun /\ call[d].pc \in InRun => c = d
Reliable == \A c \in Callers : Relies(call[c])
Tells ==
  Calm => /\ state.last \in Listed /\ dirs[state.last] = state.status
          /\ Newer(state.last) = {}
          /\ \A c \in Callers : state.last \notin call[c].doomed

\* A step of a run that lists nothing less and removes nothing.
LEMMA RunTruthful ==
  ASSUME IInv, Alone, Reliable, Tells, MinCount > 0, NEW c \in Callers,
         Load(c) \/ Announce(c) \/ Report(c) \/ Excuse(c)
  PROVE  Alone' /\ Reliable' /\ Tells'
<1>1. /\ call[c] \in Calls /\ state \in States /\ call[c].pc \in InRun
      /\ call \in [Callers -> Calls]
      /\ UNCHANGED <<made, dirs>>
  BY DEF IInv, TypeOK, Load, Announce, Report, Excuse, InRun
<1>2. PICK k : /\ call' = [call EXCEPT ![c] = k]
               /\ k.id = call[c].id /\ k.doomed = call[c].doomed
               /\ k.pc \in {"loaded", "dumping", "reported", "failing"}
               /\ k.pc = "loaded" => k.copy.running /\ state' = state
               /\ k.pc = "dumping" => state'.running
               /\ k.pc = "failing" => state'.error
               /\ k.pc = "reported" => state' = call[c].copy /\ call[c].pc = "written"
  <2>1. CASE Load(c)
    <3>1. PICK s : Becomes(c, [call[c] EXCEPT !.pc = "loaded",
                                 !.copy = [s EXCEPT !.running = TRUE, !.error = FALSE]])
                   /\ s \in States /\ state' = state
      BY <2>1, ReadableIsState DEF IInv, Load
    <3> DEFINE m == [s EXCEPT !.running = TRUE, !.error = FALSE]
               k == [call[c] EXCEPT !.pc = "loaded", !.copy = m]
    <3>2. m.running
      BY <3>1 DEF States
    <3>3. /\ k.id = call[c].id /\ k.doomed = call[c].doomed
          /\ k.pc = "loaded" /\ k.copy = m
      BY <1>1 DEF Calls
    <3>4. call' = [call EXCEPT ![c] = k]
      BY <3>1 DEF Becomes
    <3> HIDE DEF k, m
    <3> QED
      BY <3>1, <3>2, <3>3, <3>4
  <2>2. CASE Announce(c)
    <3>1. call[c].copy.running
      BY <2>2 DEF Announce, Reliable, Relies
    <3>2. state'.running /\ At(c, "dumping")
      BY <2>2, <3>1 DEF Announce
    <3> DEFINE k == [call[c] EXCEPT !.pc = "dumping"]
    <3>4. call' = [call EXCEPT ![c] = k]
      BY <3>2 DEF At, Becomes
    <3>5. k.id = call[c].id /\ k.doomed = call[c].doomed /\ k.pc = "dumping"
      BY <1>1 DEF Calls
    <3> HIDE DEF k
    <3> QED
      BY <3>2, <3>4, <3>5
  <2>3. CASE Report(c)
    BY <1>1, <2>3 DEF Report, At, Becomes, Calls
  <2>4. CASE Excuse(c)
    <3>1. call[c].copy \in States
      BY <1>1 DEF Calls
    <3>2. state'.error
      BY <2>4, <3>1 DEF Excuse, States
    <3>3. At(c, "failing")
      BY <2>4 DEF Excuse
    <3> DEFINE k == [call[c] EXCEPT !.pc = "failing"]
    <3>4. call' = [call EXCEPT ![c] = k]
      BY <3>3 DEF At, Becomes
    <3>5. k.id = call[c].id /\ k.doomed = call[c].doomed /\ k.pc = "failing"
      BY <1>1 DEF Calls
    <3> HIDE DEF k
    <3> QED
      BY <3>2, <3>4, <3>5
  <2> QED
    BY <2>1, <2>2, <2>3, <2>4
<1>3. \A d \in Callers : call'[d] = IF d = c THEN k ELSE call[d]
  BY <1>1, <1>2
<1>4. Alone'
  BY <1>1, <1>3 DEF Alone
<1>5. \A d \in Callers \ {c} : call[d].pc \notin InRun
  BY <1>1 DEF Alone
<1>6. Listed' = Listed /\ \A id : Newer(id)' = Newer(id)
  BY <1>1 DEF Listed, Newer
<1>7. Reliable'
  <2> SUFFICES ASSUME NEW d \in Callers PROVE Relies(call[d])'
    BY DEF Reliable
  <2>1. CASE d = c
    BY <1>1, <1>2, <1>3, <2>1 DEF Reliable, Relies, InRun
  <2>2. CASE d # c
    BY <1>1, <1>3, <1>5, <2>2 DEF Reliable, Relies, InRun
  <2> QED
    BY <2>1, <2>2
<1>8. Tells'
  <2>1. \A d \in Callers : call'[d].doomed = call[d].doomed
    BY <1>2, <1>3
  <2>2. CASE k.pc = "loaded"
    BY <1>1, <1>2, <1>6, <2>1, <2>2 DEF Tells, Calm
  <2>3. CASE k.pc \in {"dumping", "failing"}
    BY <1>2, <2>3 DEF Tells, Calm
  <2>4. CASE k.pc = "reported"
    <3>1. /\ state'.last = call[c].id /\ call[c].id = made
          /\ made \in Listed /\ dirs[made] = state'.status
      BY <1>1, <1>2, <2>4 DEF Reliable, Relies
    <3>2. Newer(made) = {}
      BY OutcomesAreStatuses DEF IInv, Order, Newer, Listed
    <3>3. \A d \in Callers : made \notin call[d].doomed
      BY DEF Reliable, Relies, IInv, TypeOK
    <3> QED
      BY <1>1, <1>6, <2>1, <3>1, <3>2, <3>3 DEF Tells
  <2> QED
    BY <1>2, <2>2, <2>3, <2>4
<1> QED
  BY <1>4, <1>7, <1>8

\* A step that begins or ends a call, or chooses what to remove, and leaves the
\* state and the directories of other snapshots alone.
LEMMA OtherTruthful ==
  ASSUME IInv, IInv', Alone, Reliable, Tells, MinCount > 0, NEW c \in Callers,
         ~overlapped',
         Ask(c) \/ Start(c) \/ Clash(c) \/ Retain(c) \/ Dump(c) \/ Scan(c) \/ Prune(c)
           \/ Raise(c) \/ Undo(c)
  PROVE  Alone' /\ Reliable' /\ Tells'
<1> USE DEF InRun
<1>0. /\ call[c] \in Calls /\ call \in [Callers -> Calls] /\ made \in 0..MaxRuns
      /\ dirs \in [Snapshots -> {"absent", "open"} \cup Outcomes] /\ MaxRuns \in Nat
  BY CountsAreNumbers DEF IInv, TypeOK
<1>1. UNCHANGED state
  BY DEF Ask, Start, Clash, Retain, Dump, Scan, Prune, Raise, Undo
<1>2. CASE Ask(c) \/ Clash(c) \/ Retain(c) \/ Raise(c)
  <2>1. /\ UNCHANGED <<made, dirs>>
        /\ \E k : /\ call' = [call EXCEPT ![c] = k]
                  /\ k.doomed \subseteq call[c].doomed
                  /\ k.pc \in InRun => k.pc = "raised" /\ call[c].pc \in InRun
                                      /\ k.id = call[c].id
                  /\ k.pc \in {"idle", "asked", "retaining", "raised"}
    BY <1>0, <1>2 DEF Ask, Clash, Retain, Raise, At, Ends, Becomes, Idle, Calls
  <2>2. PICK k : /\ \A d \in Callers : call'[d] = IF d = c THEN k ELSE call[d]
                 /\ k.doomed \subseteq call[c].doomed
                 /\ k.pc \in InRun => k.pc = "raised" /\ call[c].pc \in InRun
                                     /\ k.id = call[c].id
                 /\ k.pc \in {"idle", "asked", "retaining", "raised"}
    BY <1>0, <2>1
  <2>3. Listed' = Listed /\ \A id : Newer(id)' = Newer(id)
    BY <2>1 DEF Listed, Newer
  <2>4. Alone'
    BY <2>2 DEF Alone
  <2>5. Reliable'
    BY <1>1, <2>1, <2>2, <2>3 DEF Reliable, Relies
  <2>6. Tells'
    BY <1>1, <2>1, <2>2, <2>3 DEF Tells, Calm
  <2> QED
    BY <2>4, <2>5, <2>6
<1>3. CASE Start(c)
  <2>1. /\ \A d \in Callers : call[d].pc \notin InRun
        /\ made' = made + 1 /\ made + 1 \in Snapshots
        /\ dirs' = [dirs EXCEPT ![made + 1] = "open"]
    <3>1. /\ overlapped' = (overlapped \/ \E d \in Callers : call[d].pc \in InRun)
          /\ made' = made + 1 /\ made < MaxRuns
          /\ dirs' = [dirs EXCEPT ![made + 1] = "open"]
      BY <1>3 DEF Start
    <3>2. \A d \in Callers : call[d].pc \notin InRun
      BY <3>1, Zenon
    <3> QED
      BY <1>0, <3>1, <3>2 DEF Snapshots
  <2>2. \E k : /\ \A d \in Callers : call'[d] = IF d = c THEN k ELSE call[d]
               /\ k.doomed = {} /\ k.pc = "made" /\ k.id = made + 1
    <3> DEFINE k == [Idle EXCEPT !.pc = "made", !.id = made + 1]
    <3>1. k.doomed = {} /\ k.pc = "made" /\ k.id = made + 1
      BY DEF Idle
    <3>2. call' = [call EXCEPT ![c] = k]
      BY <1>3 DEF Start, Becomes
    <3> HIDE DEF k
    <3> QED
      BY <1>0, <3>1, <3>2
  <2>3. PICK k : /\ \A d \in Callers : call'[d] = IF d = c THEN k ELSE call[d]
                 /\ k.doomed = {} /\ k.pc = "made" /\ k.id = made + 1
    BY <2>2
  <2>4. Listed' = Listed /\ \A id : Newer(id)' = Newer(id)
    <3>1. dirs[made + 1] = "absent"
      BY <1>0, <2>1 DEF IInv, Order
    <3> QED
      BY <1>0, <2>1, <3>1, OutcomesAreStatuses DEF Listed, Newer
  <2>5. Alone'
    BY <2>1, <2>3 DEF Alone
  <2>6. Reliable'
    BY <1>0, <1>1, <2>1, <2>3, <2>4 DEF Reliable, Relies, Calls, Snapshots
  <2>7. Tells'
    BY <1>0, <1>1, <2>1, <2>3, <2>4, OutcomesAreStatuses DEF Tells, Calm, Listed
  <2> QED
    BY <2>5, <2>6, <2>7
<1>4. CASE Dump(c)
  <2>1. PICK outcome \in Outcomes :
          /\ dirs' = [dirs EXCEPT ![call[c].id] = outcome]
          /\ Becomes(c, [call[c] EXCEPT
                           !.pc = "written",
                           !.copy = [running |-> FALSE, last |-> call[c].id,
                                     status |-> outcome, error |-> (outcome = "failed")]])
    BY <1>4 DEF Dump
  <2> DEFINE m == [running |-> FALSE, last |-> call[c].id,
                   status |-> outcome, error |-> (outcome = "failed")]
             k == [call[c] EXCEPT !.pc = "written", !.copy = m]
  <2>2. /\ k.doomed = call[c].doomed /\ k.pc = "written" /\ k.id = call[c].id
        /\ k.copy = m
    BY <1>0 DEF Calls
  <2>3. m.last = call[c].id /\ m.status = outcome
    OBVIOUS
  <2>4. call' = [call EXCEPT ![c] = k]
    BY <2>1 DEF Becomes
  <2> HIDE DEF k, m
  <2>5. \A d \in Callers : call'[d] = IF d = c THEN k ELSE call[d]
    BY <1>0, <2>4
  <2>6. /\ made' = made /\ call[c].pc = "dumping" /\ state.running
        /\ call[c].id = made /\ made \in Snapshots
    <3>1. made' = made /\ call[c].pc = "dumping"
      BY <1>4 DEF Dump
    <3>2. Relies(call[c]) /\ call[c].id > 0
      BY <3>1 DEF Reliable, IInv, Order
    <3>3. state.running /\ call[c].id = made
      BY <3>1, <3>2 DEF Relies
    <3> QED
      BY <1>0, <3>1, <3>2, <3>3 DEF Snapshots
  <2>7. Alone' /\ \A d \in Callers \ {c} : call[d].pc \notin InRun
    BY <2>2, <2>5, <2>6 DEF Alone
  <2>8. Reliable'
    BY <1>0, <1>1, <2>1, <2>2, <2>3, <2>5, <2>6, <2>7 DEF Reliable, Relies, Listed
  <2>9. Tells'
    BY <1>1, <2>6 DEF Tells, Calm
  <2> QED
    BY <2>7, <2>8, <2>9
<1>5. CASE Scan(c)
  <2>1. PICK k \in Calls : Becomes(c, k) /\ k.doomed = Removable /\ k.pc \in {"idle", "pruning"}
    <3>1. Removable \subseteq Snapshots
      BY DEF Removable, Listed
    <3> QED
      BY <1>5, <3>1, DoomsStep DEF Scan, IInv
  <2>2. \A d \in Callers : call'[d] = IF d = c THEN k ELSE call[d]
    BY <2>1, BecomesOne DEF IInv
  <2>3. UNCHANGED <<made, dirs>> /\ Listed' = Listed /\ \A id : Newer(id)' = Newer(id)
    BY <1>5 DEF Scan, Listed, Newer
  <2>4. \A id : Newer(id) = {} => id \notin Removable
    BY FS_EmptySet, CountsAreNumbers DEF Removable
  <2>5. \A id \in Removable : id < made
    <3>1. Newer(made) = {} /\ \A id \in Listed : id <= made
      BY <1>0, OutcomesAreStatuses DEF IInv, Order, Newer, Listed, Snapshots
    <3> QED
      BY <1>0, <2>4, <3>1 DEF Removable, Listed, Snapshots
  <2>6. Alone'
    BY <2>1, <2>2 DEF Alone
  <2>7. Reliable'
    BY <1>1, <2>1, <2>2, <2>3, <2>5 DEF Reliable, Relies
  <2>8. Tells'
    BY <1>1, <2>1, <2>2, <2>3, <2>4 DEF Tells, Calm
  <2> QED
    BY <2>6, <2>7, <2>8
<1>6. CASE Prune(c)
  <2>1. PICK x \in call[c].doomed : /\ dirs' = [dirs EXCEPT ![x] = "absent"]
                                    /\ Dooms(c, call[c].doomed \ {x})
    BY <1>6 DEF Prune
  <2>2. call[c].doomed \subseteq Snapshots
    BY <1>0 DEF Calls
  <2>3. PICK k \in Calls : /\ Becomes(c, k) /\ k.doomed = call[c].doomed \ {x}
                           /\ k.pc \in {"idle", "pruning"}
    BY <2>1, <2>2, DoomsStep DEF IInv
  <2>4. \A d \in Callers : call'[d] = IF d = c THEN k ELSE call[d]
    BY <2>3, BecomesOne DEF IInv
  <2>5. made' = made /\ x < made /\ x \in Snapshots
    BY <1>6, <2>2 DEF Prune, Reliable, Relies
  <2>6. Listed' = Listed \ {x} /\ \A id : Newer(id)' = Newer(id) \ {x}
    BY <1>0, <2>1, <2>5, OutcomesAreStatuses DEF Listed, Newer
  <2>7. Alone'
    BY <2>3, <2>4 DEF Alone
  <2>8. Reliable'
    <3> SUFFICES ASSUME NEW d \in Callers PROVE Relies(call[d])'
      BY DEF Reliable
    <3>1. CASE d = c
      BY <1>1, <2>3, <2>4, <2>5, <3>1 DEF Reliable, Relies
    <3>2. CASE d # c
      BY <1>0, <1>1, <2>1, <2>4, <2>5, <2>6, <3>2 DEF Reliable, Relies
    <3> QED
      BY <3>1, <3>2
  <2>9. Tells'
    BY <1>0, <1>1, <2>1, <2>3, <2>4, <2>6 DEF Tells, Calm, Listed
  <2> QED
    BY <2>7, <2>8, <2>9
<1>7. CASE Undo(c)
  <2>1. /\ \A d \in Callers : call'[d] = IF d = c THEN Idle ELSE call[d]
        /\ made' = made /\ state.error /\ call[c].pc = "failing"
    BY <1>0, <1>7 DEF Undo, Ends, Becomes, Reliable, Relies
  <2>2. Alone' /\ \A d \in Callers \ {c} : call[d].pc \notin InRun
    BY <2>1 DEF Alone, Idle
  <2>3. Reliable'
    BY <1>1, <2>1, <2>2 DEF Reliable, Relies, Idle
  <2>4. Tells'
    BY <1>1, <2>1 DEF Tells, Calm
  <2> QED
    BY <2>2, <2>3, <2>4
<1> QED
  BY <1>2, <1>3, <1>4, <1>5, <1>6, <1>7

LEMMA NextTruthful == IInv /\ IInv' /\ Truthful /\ [Next]_vars => Truthful'
<1> SUFFICES ASSUME IInv, IInv', Truthful, [Next]_vars, MinCount > 0, ~overlapped'
             PROVE  Alone' /\ Reliable' /\ Tells'
  BY DEF Truthful, Alone, Reliable, Tells
<1>1. Alone /\ Reliable /\ Tells
  <2>1. overlapped => overlapped'
    BY DEF Next, vars, GoOn, Ask, Start, Clash, Retain, Load, Announce, Dump, Report, Scan,
           Prune, Raise, Excuse, Undo, Kill, TimePasses
  <2> QED
    BY <2>1 DEF Truthful, Alone, Reliable, Tells
<1>2. ASSUME NEW c \in Callers,
             Ask(c) \/ Start(c) \/ Clash(c) \/ Retain(c) \/ GoOn(c) \/ Raise(c)
      PROVE  Alone' /\ Reliable' /\ Tells'
  BY <1>1, <1>2, RunTruthful, OtherTruthful DEF GoOn
<1>3. ASSUME NEW victims, Kill(victims) PROVE Alone' /\ Reliable' /\ Tells'
  <2>1. /\ \A d \in Callers : call'[d] = Idle \/ call'[d] = call[d]
        /\ UNCHANGED <<made, dirs, state>>
    BY <1>3 DEF Kill
  <2>2. Listed' = Listed /\ \A id : Newer(id)' = Newer(id)
    BY <2>1 DEF Listed, Newer
  <2>3. Alone'
    BY <1>1, <2>1 DEF Alone, Idle, InRun
  <2>4. Reliable'
    BY <1>1, <2>1, <2>2 DEF Reliable, Relies, Idle, InRun
  <2>5. Tells'
    BY <1>1, <2>1, <2>2 DEF Tells, Calm, Idle
  <2> QED
    BY <2>3, <2>4, <2>5
<1>4. CASE TimePasses \/ UNCHANGED vars
  BY <1>1, <1>4 DEF TimePasses, vars, Alone, Reliable, Relies, Tells, Calm, Listed, Newer
<1> QED
  BY <1>2, <1>3, <1>4 DEF Next

(* With runs one after the other, a state that tells of no run and no error
   names the newest snapshot and how it ended (run_backup). *)
THEOREM LastSnapshotIsThere == Spec => []LastIsThere
<1>1. Init => Truthful
  BY DEF Init, Truthful, Relies, Calm, NoState, Idle, InRun
<1>2. Truthful => LastIsThere
  BY DEF Truthful, LastIsThere, Calm
<1> QED
  BY <1>1, <1>2, Inductive, NextTruthful, PTL DEF Spec
=============================================================================
