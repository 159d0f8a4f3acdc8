------------------------------ MODULE Backups ------------------------------
(***************************************************************************)
(* The backup service: runs that write snapshots into a directory, a state *)
(* file that tells whether one is running and how the last one ended, and  *)
(* the retention that removes old snapshots.                               *)
(*                                                                         *)
(* A run is started by the scheduler, by a request to the API or by a      *)
(* command in a process of its own.  Runs share nothing but files: each    *)
(* read and each write of one is a step, and a process may be killed       *)
(* between any two.                                                        *)
(***************************************************************************)
EXTENDS Naturals, FiniteSets

CONSTANTS
  Cron,        \* the job of the scheduler
  Requests,    \* the requests of the API that may be served at once
  Commands,    \* the processes of the command line
  Outcomes,    \* how a run that wrote its manifest may have gone
  MinCount,    \* BACKUP_RETENTION_MIN_COUNT
  MaxRuns,     \* bound: snapshots begun
  MaxErrors,   \* bound: failing reads and writes of the backup directory
  MaxKills,    \* bound: killed processes
  None

ASSUME CountsAreNumbers ==
  MinCount \in Nat /\ MaxRuns \in Nat /\ MaxErrors \in Nat /\ MaxKills \in Nat

ASSUME OutcomesAreStatuses == Outcomes \subseteq {"completed", "partial", "failed"}

ASSUME NoneIsNobody == None \notin Nat

VARIABLES
  made,        \* snapshots begun so far: a snapshot is known by its second
  dirs,        \* what the directory of each snapshot holds
  old,         \* snapshots up to this one are older than the retention days
  state,       \* state.json
  call,        \* what each caller is at
  errors,      \* reads and writes that failed
  kills,       \* processes killed
  overlapped   \* two runs were under way at once

vars == <<made, dirs, old, state, call, errors, kills, overlapped>>

Callers == {Cron} \cup Requests \cup Commands
Snapshots == 1..MaxRuns

\* What load_state makes of a file that is missing or cut short.
NoState == [running |-> FALSE, last |-> None, status |-> None, error |-> FALSE]

\* A caller that is doing nothing.
Idle == [pc |-> "idle", id |-> 0, copy |-> NoState, doomed |-> {}]

\* The points at which a run holds its snapshot.
InRun == {"made", "loaded", "dumping", "written", "reported", "raised", "failing"}

\* The snapshots that have a manifest.
Listed == {id \in Snapshots : dirs[id] \in Outcomes}
Newer(id) == {j \in Listed : j > id}

Init ==
  /\ made = 0
  /\ dirs = [id \in Snapshots |-> "absent"]
  /\ old = 0
  /\ state = NoState
  /\ call = [c \in Callers |-> Idle]
  /\ errors = 0
  /\ kills = 0
  /\ overlapped = FALSE

----------------------------------------------------------------------------
\* Somebody else is about to write the state: the file is emptied first, and
\* read empty it counts as missing.
Rewritten(c) == \E d \in Callers \ {c} : call[d].pc \in {"loaded", "written", "raised"}
Readable(c) == {state} \cup IF Rewritten(c) THEN {NoState} ELSE {}

\* A fault is followed by another run, so that the bound on runs is not what
\* keeps the service from recovering.
FaultsLeft == made < MaxRuns

\* The caller goes on at another point, or is done.
Becomes(c, k) == call' = [call EXCEPT ![c] = k]
At(c, pc) == Becomes(c, [call[c] EXCEPT !.pc = pc])
Ends(c) == Becomes(c, Idle)

\* POST /run refuses while the state says that a run is under way.
Ask(c) ==
  /\ c \in Requests
  /\ call[c].pc = "idle"
  /\ \E s \in Readable(c) : ~s.running
  /\ At(c, "asked")
  /\ UNCHANGED <<made, dirs, old, state, errors, kills, overlapped>>

MayStart(c) == call[c].pc = IF c \in Requests THEN "asked" ELSE "idle"

\* Mutant: a run refuses to start while the state says that one is running, for the scheduler too.
StartIfNotRunning(c) ==
  /\ MayStart(c)
  /\ ~state.running
  /\ made < MaxRuns
  /\ made' = made + 1
  /\ dirs' = [dirs EXCEPT ![made + 1] = "open"]
  /\ Becomes(c, [Idle EXCEPT !.pc = "made", !.id = made + 1])
  /\ overlapped' = (overlapped \/ \E d \in Callers : call[d].pc \in InRun)
  /\ UNCHANGED <<old, state, errors, kills>>

\* run_backup makes the directory of its snapshot ...
Start(c) ==
  /\ MayStart(c)
  /\ made < MaxRuns
  /\ made' = made + 1
  /\ dirs' = [dirs EXCEPT ![made + 1] = "open"]
  /\ Becomes(c, [Idle EXCEPT !.pc = "made", !.id = made + 1])
  /\ overlapped' = (overlapped \/ \E d \in Callers : call[d].pc \in InRun)
  /\ UNCHANGED <<old, state, errors, kills>>

\* ... or finds that a run has begun in the same second.
Clash(c) ==
  /\ c \in Requests
  /\ MayStart(c)
  /\ made > 0
  /\ Ends(c)
  /\ UNCHANGED <<made, dirs, old, state, errors, kills, overlapped>>

\* The state as it is now, with this run under way, is kept until the end.
Load(c) ==
  /\ call[c].pc = "made"
  /\ \E s \in Readable(c) :
       Becomes(c, [call[c] EXCEPT !.pc = "loaded",
                                  !.copy = [s EXCEPT !.running = TRUE, !.error = FALSE]])
  /\ UNCHANGED <<made, dirs, old, state, errors, kills, overlapped>>

Announce(c) ==
  /\ call[c].pc = "loaded"
  /\ state' = call[c].copy
  /\ At(c, "dumping")
  /\ UNCHANGED <<made, dirs, old, errors, kills, overlapped>>

\* Each database and the media are dumped for themselves; the manifest tells
\* how much of it worked.
Dump(c) ==
  /\ call[c].pc = "dumping"
  /\ \E outcome \in Outcomes :
       /\ dirs' = [dirs EXCEPT ![call[c].id] = outcome]
       /\ Becomes(c, [call[c] EXCEPT
                       !.pc = "written",
                       !.copy = [running |-> FALSE, last |-> call[c].id,
                                 status |-> outcome, error |-> (outcome = "failed")]])
  /\ UNCHANGED <<made, old, state, errors, kills, overlapped>>

Report(c) ==
  /\ call[c].pc = "written"
  /\ state' = call[c].copy
  /\ At(c, "reported")
  /\ UNCHANGED <<made, dirs, old, errors, kills, overlapped>>

----------------------------------------------------------------------------
\* `retention` on the command line does only what ends every run.
Retain(c) ==
  /\ c \in Commands
  /\ call[c].pc = "idle"
  /\ At(c, "retaining")
  /\ UNCHANGED <<made, dirs, old, state, errors, kills, overlapped>>

\* Mutant: the newest directories are kept, with or without a manifest.
RemovableOfAll ==
  {id \in Listed : id <= old
     /\ Cardinality({j \in Snapshots : j > id /\ dirs[j] # "absent"}) >= MinCount}

\* Old enough, and not among the newest that are kept at any age.
Removable == {id \in Listed : id <= old /\ Cardinality(Newer(id)) >= MinCount}

\* What is still to be removed; the call ends with the last.
Dooms(c, ids) ==
  Becomes(c, IF ids = {} THEN Idle ELSE [Idle EXCEPT !.pc = "pruning", !.doomed = ids])

Scan(c) ==
  /\ call[c].pc \in {"reported", "retaining"}
  /\ Dooms(c, Removable)
  /\ UNCHANGED <<made, dirs, old, state, errors, kills, overlapped>>

\* What the scan chose goes, the newest first.
Prune(c) ==
  /\ call[c].pc = "pruning"
  /\ \E id \in call[c].doomed :
       /\ \A j \in call[c].doomed : j <= id
       /\ dirs' = [dirs EXCEPT ![id] = "absent"]
       /\ Dooms(c, call[c].doomed \ {id})
  /\ UNCHANGED <<made, old, state, errors, kills, overlapped>>

----------------------------------------------------------------------------
\* A read or a write fails.  Inside the `try` the run goes on to its handler;
\* before it, or when the handler itself fails, nothing is put right.
Raise(c) ==
  /\ errors < MaxErrors /\ FaultsLeft
  /\ errors' = errors + 1
  /\ \/ /\ call[c].pc \in {"dumping", "written", "reported"}
        /\ At(c, "raised")
     \/ /\ call[c].pc \in {"made", "loaded", "raised", "retaining"}
        /\ Ends(c)
  /\ UNCHANGED <<made, dirs, old, state, kills, overlapped>>

\* Mutant: the handler removes the snapshot and saves the state without the error.
ExcuseQuietly(c) ==
  /\ call[c].pc = "raised"
  /\ state' = [call[c].copy EXCEPT !.running = FALSE]
  /\ At(c, "failing")
  /\ UNCHANGED <<made, dirs, old, errors, kills, overlapped>>

\* The handler saves its copy of the state with the error ...
Excuse(c) ==
  /\ call[c].pc = "raised"
  /\ state' = [call[c].copy EXCEPT !.running = FALSE, !.error = TRUE]
  /\ At(c, "failing")
  /\ UNCHANGED <<made, dirs, old, errors, kills, overlapped>>

\* ... and removes the snapshot.
Undo(c) ==
  /\ call[c].pc = "failing"
  /\ dirs' = [dirs EXCEPT ![call[c].id] = "absent"]
  /\ Ends(c)
  /\ UNCHANGED <<made, old, state, errors, kills, overlapped>>

\* The process of the service dies with every run in it, and is started again;
\* so does, without being started again, the process of a command.
Kill(victims) ==
  /\ kills < MaxKills /\ FaultsLeft
  /\ \E c \in victims : call[c].pc # "idle"
  /\ call' = [c \in Callers |-> IF c \in victims THEN Idle ELSE call[c]]
  /\ kills' = kills + 1
  /\ UNCHANGED <<made, dirs, old, state, errors, overlapped>>

\* Another snapshot gets older than the retention days.
TimePasses ==
  /\ old < made
  /\ old' = old + 1
  /\ UNCHANGED <<made, dirs, state, call, errors, kills, overlapped>>

----------------------------------------------------------------------------
\* What a caller does next once it began something.
GoOn(c) ==
  \/ Load(c) \/ Announce(c) \/ Dump(c) \/ Report(c)
  \/ Scan(c) \/ Prune(c)
  \/ Excuse(c) \/ Undo(c)

Next ==
  \/ \E c \in Callers : \/ Ask(c) \/ Start(c) \/ Clash(c) \/ Retain(c)
                        \/ GoOn(c) \/ Raise(c)
  \/ Kill({Cron} \cup Requests)
  \/ \E c \in Commands : Kill({c})
  \/ TimePasses

Spec == Init /\ [][Next]_vars

\* The trigger fires every day for a job that is not running, and a run goes
\* on: every dump has a timeout.
Fairness ==
  /\ WF_vars(Start(Cron))
  /\ \A c \in Callers : WF_vars(GoOn(c))

FairSpec == Spec /\ Fairness

----------------------------------------------------------------------------
States == [running : BOOLEAN, last : Snapshots \cup {None},
           status : Outcomes \cup {None}, error : BOOLEAN]
Calls == [pc : InRun \cup {"idle", "asked", "retaining", "pruning"},
          id : 0..MaxRuns, copy : States, doomed : SUBSET Snapshots]

TypeOK ==
  /\ made \in 0..MaxRuns
  /\ old \in 0..MaxRuns
  /\ dirs \in [Snapshots -> {"absent", "open"} \cup Outcomes]
  /\ state \in States
  /\ call \in [Callers -> Calls]
  /\ errors \in Nat
  /\ overlapped \in BOOLEAN

(* A state left at "running" by a process that was killed or could not save is
   not left so for ever: the API refuses to start a run meanwhile, the scheduler
   does not ask, and its run ends with the state put right (run_backup,
   backup_run_now). *)
RunningIsCleared == []<>~state.running

(* Whatever runs and retentions overlap, a snapshot with a manifest is removed
   only while MinCount newer ones are there, and stay, unless a run that failed
   took its own back (apply_retention). *)
PruneSpares ==
  [][ errors = 0 =>
        \A id \in Listed : dirs'[id] = "absent" =>
          Cardinality({j \in Snapshots : j > id /\ dirs'[j] \in Outcomes}) >= MinCount ]_vars

(* With runs one after the other, a state that tells of no run and no error
   names a snapshot that is there, ended as it says, and is the newest, through
   kills, failing writes and retentions (run_backup, load_state). *)
LastIsThere ==
  ~overlapped /\ ~state.running /\ ~state.error /\ state.last # None /\ MinCount > 0 =>
    /\ dirs[state.last] = state.status
    /\ Newer(state.last) = {}

----------------------------------------------------------------------------
\* The inductive invariant of the proofs.

\* A snapshot has no directory before it is begun; a run holds one that it has
\* begun, unless it is the caller of a retention; only a failed read or write
\* leads to the handler that removes one.
Order ==
  /\ \A j \in Snapshots : j > made => dirs[j] = "absent"
  /\ \A c \in Callers :
       /\ call[c].id <= made
       /\ call[c].pc \in InRun => call[c].id > 0
       /\ call[c].pc \in {"raised", "failing"} => errors > 0

\* What a retention has chosen is outlived by enough newer snapshots.
DoomedOutlived ==
  errors = 0 =>
    \A c \in Callers : \A id \in call[c].doomed : Cardinality(Newer(id)) >= MinCount

IInv == TypeOK /\ Order /\ DoomedOutlived

\* With runs one after the other: what a run may rely on ...
Relies(k) ==
  /\ k.pc \in InRun => k.id = made
  /\ k.pc = "loaded" => k.copy.running
  /\ k.pc = "dumping" => state.running
  /\ k.pc = "written" => /\ state.running
                         /\ k.copy.last = k.id
                         /\ k.id \in Listed /\ dirs[k.id] = k.copy.status
  /\ k.pc = "failing" => state.error
  /\ \A id \in k.doomed : id < made

\* ... and what the state tells when it tells of neither a run nor an error.
Calm == ~state.running /\ ~state.error /\ state.last # None

Truthful ==
  MinCount > 0 /\ ~overlapped =>
    /\ \A c, d \in Callers : call[c].pc \in InRun /\ call[d].pc \in InRun => c = d
    /\ \A c \in Callers : Relies(call[c])
    /\ Calm => /\ state.last \in Listed /\ dirs[state.last] = state.status
               /\ Newer(state.last) = {}
               /\ \A c \in Callers : state.last \notin call[c].doomed

----------------------------------------------------------------------------
(* Promised by the answer 409 "Backup already running" of backup_run_now: a
   request starts no run while another is under way.  Not kept: the state is
   read before the run begins, and commands and the scheduler do not look. *)
OneAtATime ==
  [][ \A c \in Requests :
        call[c].pc = "asked" /\ call'[c].pc = "made" =>
          \A d \in Callers : call[d].pc \notin InRun ]_vars

=============================================================================
