-------------------------------- MODULE Chat --------------------------------
(***************************************************************************)
(* One room of the chat: who belongs to it, what was said, how far each    *)
(* member has read, and the polls, task lists and pins its messages carry. *)
(*                                                                         *)
(* Messages are numbered by a sequence of the database when they are       *)
(* inserted, not when they are committed, and how far a member has read is *)
(* one such number.  Limits (pins, tasks of a list, votes of a voter) are  *)
(* checked on rows read without a lock.  A handler plans, and Commit       *)
(* applies the plan.                                                       *)
(***************************************************************************)
EXTENDS Integers, FiniteSets

CONSTANTS
  Users,
  Creator,    \* created the room, if it is a group or a channel
  Kinds,      \* the kinds the room may have
  Contents,   \* the kinds its messages may have
  MaxId,      \* bound on the messages
  MaxBoards,  \* bound on the polls and lists
  Options,    \* answers of a poll
  Tasks,      \* ids of tasks of a list
  MaxTasks,   \* CHECKLIST_ITEMS_MAX
  MaxPins,    \* PINNED_MESSAGES_MAX
  Sessions,
  None

ASSUME ChatAssumption ==
  /\ Creator \in Users
  /\ Kinds \subseteq {"company", "channel", "group", "dm"}
  /\ Contents \subseteq {"text", "single", "multi", "list"}
  /\ MaxId \in Nat /\ MaxBoards \in Nat /\ MaxTasks \in Nat /\ MaxPins \in Nat
  /\ IsFiniteSet(Tasks)

VARIABLES
  kind,     \* of the room
  alive,    \* the room was not deleted
  role,     \* of each member
  taken,    \* numbers of messages given out
  msg,      \* messages
  mark,     \* how far each user has read, 0 for one without such a row
  pins,     \* pinned messages
  votes,    \* triples of a poll, a voter and an option
  shut,     \* closed polls
  used,     \* ids of tasks given out, with their list
  tasks, done,
  session,  \* what each running handler is about to commit
  ahead,    \* history: who has marked as read what did not exist yet
  overlapped \* history: two handlers have run at the same time

said == <<taken, msg, mark, pins>>
boards == <<votes, shut, used, tasks, done>>
vars == <<kind, alive, role, said, boards, session, ahead, overlapped>>

Ids == 1..MaxId
Roles == {"none", "member", "admin"}
Messages == [by: Users, kind: Contents, deleted: BOOLEAN]
Marks == [user: Users, to: Ids, fresh: BOOLEAN]

\* say, bury: the message to insert (under its number) and those to delete
\* softly; read: the row of how far somebody has read; join, leave, forget:
\* members to insert and to delete, and whose reading to delete; the rest are
\* rows to insert into and to delete from the table of that name.
Plan == [at: Ids \cup {None}, say: Messages \cup {None}, read: Marks \cup {None},
         bury: SUBSET Ids, join: SUBSET Users, leave: SUBSET Users, forget: SUBSET Users,
         pin: SUBSET Ids, unpin: SUBSET Ids,
         vote: SUBSET (Ids \X Users \X Options), unvote: SUBSET (Ids \X Users \X Options),
         shut: SUBSET Ids, task: SUBSET (Ids \X Tasks), strike: SUBSET (Ids \X Tasks),
         tick: SUBSET (Ids \X Tasks), untick: SUBSET (Ids \X Tasks), drop: BOOLEAN]

ASSUME NothingIsNone == None \notin Plan /\ None \notin Messages /\ None \notin Marks /\ None \notin Ids

TypeOK ==
  /\ kind \in Kinds /\ alive \in BOOLEAN
  /\ role \in [Users -> Roles]
  /\ taken \in 0..MaxId
  /\ msg \in [Ids -> Messages \cup {None}]
  /\ mark \in [Users -> 0..MaxId]
  /\ pins \subseteq Ids
  /\ votes \subseteq Ids \X Users \X Options
  /\ shut \subseteq Ids
  /\ used \subseteq Ids \X Tasks /\ tasks \subseteq Ids \X Tasks /\ done \subseteq Ids \X Tasks
  /\ session \in [Sessions -> Plan \cup {None}]
  /\ ahead \subseteq Users
  /\ overlapped \in BOOLEAN

\* A group or a channel has its creator as administrator, two people share a
\* direct room, and everybody enters the company room by himself.
Roster(k, S) ==
  [u \in Users |->
     IF k = "company" THEN "none"
     ELSE IF k \in {"group", "channel"} /\ u = Creator THEN "admin"
     ELSE IF u \in S THEN "member" ELSE "none"]

Init ==
  /\ kind \in Kinds
  /\ \E S \in SUBSET Users :
       /\ kind = "dm" => \E u, v \in Users : u # v /\ S = {u, v}
       /\ role = Roster(kind, S)
  /\ alive = TRUE
  /\ taken = 0
  /\ msg = [m \in Ids |-> None]
  /\ mark = [u \in Users |-> 0]
  /\ pins = {} /\ votes = {} /\ shut = {}
  /\ used = {} /\ tasks = {} /\ done = {}
  /\ session = [s \in Sessions |-> None]
  /\ ahead = {}
  /\ overlapped = FALSE

-----------------------------------------------------------------------------
(* What handlers read *)

Member(u) == alive /\ role[u] # "none"
CanPost(u) == Member(u) /\ (kind = "channel" => role[u] = "admin")
CanManage(u) == Member(u) /\ kind = "group" /\ (role[u] = "admin" \/ u = Creator)
CanPin(u) ==
  \/ Member(u) /\ kind \in {"dm", "company"}
  \/ CanManage(u)
  \/ Member(u) /\ kind = "channel" /\ role[u] = "admin"

Live == {m \in Ids : msg[m] # None /\ ~msg[m].deleted}
Of(content) == {m \in Ids : msg[m] # None /\ msg[m].kind \in content}
TasksOf(m) == {t \in Tasks : <<m, t>> \in tasks}
VotesOf(m, u) == {v \in votes : v[1] = m /\ v[2] = u}

\* Messages of others that the room list counts as unread.
Unread(u) == {m \in Live : msg[m].by # u /\ m > mark[u]}

-----------------------------------------------------------------------------
(* Planning and committing *)

Nothing ==
  [at |-> None, say |-> None, read |-> None, bury |-> {}, join |-> {}, leave |-> {},
   forget |-> {}, pin |-> {}, unpin |-> {}, vote |-> {}, unvote |-> {}, shut |-> {},
   task |-> {}, strike |-> {}, tick |-> {}, untick |-> {}, drop |-> FALSE]

Begin(s, p) ==
  /\ session[s] = None
  /\ session' = [session EXCEPT ![s] = p]
  /\ overlapped' = (overlapped \/ \E t \in Sessions : session[t] # None)
  /\ UNCHANGED <<kind, alive, role, msg, mark, pins, votes, shut, tasks, done, ahead>>

\* Most handlers take no number from a sequence.
Stage(s, p) == Begin(s, p) /\ UNCHANGED <<taken, used>>

\* What the database lets through: the room still exists, rows that are updated
\* do, and keys are free.  The ORM inserts before it deletes, so a vote collides
\* with the one it replaces.
Accepted(p) ==
  /\ alive
  /\ \A u \in p.join : role[u] = "none"
  /\ p.read # None => (p.read.fresh <=> mark[p.read.user] = 0)
  /\ p.pin \cap pins = {}
  /\ p.vote \cap votes = {}
  /\ p.tick \subseteq tasks \ done

\* Mutant: one who leaves keeps the row of what was read.
ForgetsNothing(p) ==
  [u \in Users |-> IF p.read # None /\ p.read.user = u THEN p.read.to ELSE mark[u]]

Reading(p) ==
  [u \in Users |->
     IF u \in p.forget THEN 0
     ELSE IF p.read # None /\ p.read.user = u THEN p.read.to ELSE mark[u]]

Commit(s) ==
  LET p == session[s] IN
  /\ p # None /\ Accepted(p)
  /\ session' = [session EXCEPT ![s] = None]
  /\ alive' = ~p.drop
  /\ role' = [u \in Users |->
       IF p.drop \/ u \in p.leave THEN "none" ELSE IF u \in p.join THEN "member" ELSE role[u]]
  /\ msg' = [m \in Ids |->
       IF p.drop THEN None
       ELSE IF m = p.at THEN p.say
       ELSE IF m \in p.bury /\ msg[m] # None THEN [msg[m] EXCEPT !.deleted = TRUE] ELSE msg[m]]
  /\ mark' = IF p.drop THEN [u \in Users |-> 0] ELSE Reading(p)
  /\ ahead' = (ahead \ p.forget) \cup
       {u \in Users : p.at = None /\ p.read # None /\ p.read.user = u /\ p.read.to > taken}
  /\ pins' = IF p.drop THEN {} ELSE (pins \ p.unpin) \cup p.pin
  /\ votes' = IF p.drop THEN {} ELSE (votes \ p.unvote) \cup p.vote
  /\ shut' = IF p.drop THEN {} ELSE shut \cup p.shut
  /\ tasks' = IF p.drop THEN {} ELSE (tasks \cup p.task) \ p.strike
  /\ done' = IF p.drop THEN {} ELSE (done \cup p.tick) \ (p.untick \cup p.strike)
  /\ UNCHANGED <<kind, taken, used, overlapped>>

\* The handler fails, or its process does.  Numbers of a sequence do not return.
Abort(s) ==
  /\ session[s] # None
  /\ session' = [session EXCEPT ![s] = None]
  /\ UNCHANGED <<kind, alive, role, said, boards, ahead, overlapped>>

-----------------------------------------------------------------------------
(* Messages and reading *)

\* Mutant: one message further.
TouchPast(u, m) ==
  IF m > mark[u] THEN [user |-> u, to |-> m + 1, fresh |-> mark[u] = 0] ELSE None

\* _touch_read_state: forward only, as far as the handler can see.
Touch(u, m) ==
  IF m > mark[u] THEN [user |-> u, to |-> m, fresh |-> mark[u] = 0] ELSE None

\* create_message: the flush takes the next number; who writes has read so far.
Say(s, u, content, T) ==
  LET m == taken + 1 IN
  /\ CanPost(u) /\ m \in Ids
  /\ taken' = m
  /\ used' = used \cup ({m} \X T)
  /\ Begin(s, [Nothing EXCEPT
       !.at = m, !.say = [by |-> u, kind |-> content, deleted |-> FALSE],
       !.read = Touch(u, m), !.task = {m} \X T])

PostMessage(s, u) == "text" \in Contents /\ Say(s, u, "text", {})

MoreBoards == Cardinality(Of(Contents \ {"text"})) < MaxBoards

\* A quiz has one choice.
PostPoll(s, u, content) ==
  /\ content \in Contents \cap {"single", "multi"} /\ MoreBoards
  /\ Say(s, u, content, {})

PostList(s, u, T) ==
  /\ "list" \in Contents /\ MoreBoards
  /\ kind \in {"group", "dm"} /\ T # {} /\ Cardinality(T) <= MaxTasks
  /\ Say(s, u, "list", T)

\* Mutant: what is pinned stays pinned.
DeleteMessageOnly(s, u, m) ==
  /\ m \in Live /\ Member(u)
  /\ msg[m].by = u \/ role[u] = "admin"
  /\ Stage(s, [Nothing EXCEPT !.bury = {m}])

DeleteMessage(s, u, m) ==
  /\ m \in Live /\ Member(u)
  /\ msg[m].by = u \/ role[u] = "admin"
  /\ Stage(s, [Nothing EXCEPT !.bury = {m}, !.unpin = {m} \cap pins])

\* Up to any number the client names: nothing asks whether there is such a
\* message in the room, or anywhere.
MarkRead(s, u, m) ==
  /\ Member(u) /\ m > mark[u]
  /\ Stage(s, [Nothing EXCEPT !.read = Touch(u, m)])

\* Without a message: up to the last one that is not deleted.
MarkAllRead(s, u) ==
  /\ Member(u)
  /\ \E m \in Live :
       /\ m > mark[u] /\ \A n \in Live : n <= m
       /\ Stage(s, [Nothing EXCEPT !.read = Touch(u, m)])

-----------------------------------------------------------------------------
(* Members *)

\* ensure_company_membership, by listing the rooms.
Enter(s, u) ==
  /\ kind = "company" /\ role[u] = "none"
  /\ Stage(s, [Nothing EXCEPT !.join = {u}])

AddMembers(s, u, S) ==
  /\ Member(u) /\ kind \in {"group", "channel"}
  /\ role[u] = "admin" \/ u = Creator
  /\ S # {} /\ \A v \in S : role[v] = "none"
  /\ Stage(s, [Nothing EXCEPT !.join = S])

\* Mutant: an administrator of a group may also go, being the last one.
RemoveAnybody(s, u, v) ==
  /\ CanManage(u) /\ role[v] # "none"
  /\ Stage(s, [Nothing EXCEPT !.leave = {v}, !.forget = {w \in {v} : mark[w] # 0}])

\* Nobody leaves by himself, and the last administrator stays.
RemoveMember(s, u, v) ==
  /\ CanManage(u) /\ v # u /\ role[v] # "none"
  /\ role[v] = "admin" => Cardinality({w \in Users : role[w] = "admin"}) > 1
  /\ Stage(s, [Nothing EXCEPT !.leave = {v}, !.forget = {w \in {v} : mark[w] # 0}])

DeleteGroup(s, u) ==
  /\ CanManage(u)
  /\ Stage(s, [Nothing EXCEPT !.drop = TRUE])

-----------------------------------------------------------------------------
(* Pins *)

Pin(s, u, m) ==
  /\ CanPin(u) /\ m \in Live \ pins
  /\ Cardinality(pins) < MaxPins
  /\ Stage(s, [Nothing EXCEPT !.pin = {m}])

Unpin(s, u, m) ==
  /\ CanPin(u) /\ m \in pins
  /\ Stage(s, [Nothing EXCEPT !.unpin = {m}])

-----------------------------------------------------------------------------
(* Polls *)

\* Mutant: a vote replaces nothing.
VoteAgain(s, u, m, o) ==
  /\ m \in Of({"single", "multi"}) \ shut /\ Member(u)
  /\ Stage(s, [Nothing EXCEPT !.vote = {<<m, u, o>>}])

\* vote_poll: the poll of a deleted message still takes votes.
Vote(s, u, m, o) ==
  LET v == <<m, u, o>> IN
  /\ m \in Of({"single", "multi"}) \ shut /\ Member(u)
  /\ Stage(s,
       IF msg[m].kind = "single" THEN [Nothing EXCEPT !.vote = {v}, !.unvote = VotesOf(m, u)]
       ELSE IF v \in votes THEN [Nothing EXCEPT !.unvote = {v}]
       ELSE [Nothing EXCEPT !.vote = {v}])

ClosePoll(s, u, m) ==
  /\ m \in Of({"single", "multi"}) \ shut /\ Member(u)
  /\ msg[m].by = u \/ role[u] = "admin"
  /\ Stage(s, [Nothing EXCEPT !.shut = {m}])

-----------------------------------------------------------------------------
(* Task lists; whether others may tick or append is a choice of the author *)

Open(m) == m \in Of({"list"}) \cap Live

Toggle(s, u, x) ==
  /\ Member(u) /\ Open(x[1]) /\ x \in tasks
  /\ Stage(s, IF x \in done THEN [Nothing EXCEPT !.untick = {x}] ELSE [Nothing EXCEPT !.tick = {x}])

Append(s, u, m, t) ==
  /\ Member(u) /\ Open(m)
  /\ Cardinality(TasksOf(m)) < MaxTasks
  /\ <<m, t>> \notin used
  /\ used' = used \cup {<<m, t>>} /\ UNCHANGED taken
  /\ Begin(s, [Nothing EXCEPT !.task = {<<m, t>>}])

RemoveTask(s, u, x) ==
  /\ Member(u) /\ Open(x[1]) /\ msg[x[1]].by = u /\ x \in tasks
  /\ Cardinality(TasksOf(x[1])) > 1
  /\ Stage(s, [Nothing EXCEPT !.strike = {x}])

-----------------------------------------------------------------------------

OnMessages(s, u) ==
  \/ PostMessage(s, u)
  \/ \E content \in Contents : PostPoll(s, u, content)
  \/ \E T \in SUBSET Tasks : PostList(s, u, T)
  \/ MarkAllRead(s, u)
  \/ \E m \in Ids : DeleteMessage(s, u, m) \/ MarkRead(s, u, m) \/ Pin(s, u, m) \/ Unpin(s, u, m)

OnMembers(s, u) ==
  \/ Enter(s, u)
  \/ \E S \in SUBSET Users : AddMembers(s, u, S)
  \/ \E v \in Users : RemoveMember(s, u, v)
  \/ DeleteGroup(s, u)

OnBoards(s, u) ==
  \E m \in Ids :
    \/ \E o \in Options : Vote(s, u, m, o)
    \/ ClosePoll(s, u, m)
    \/ \E t \in Tasks : Append(s, u, m, t) \/ Toggle(s, u, <<m, t>>) \/ RemoveTask(s, u, <<m, t>>)

Next ==
  \E s \in Sessions :
    \/ \E u \in Users : OnMessages(s, u) \/ OnMembers(s, u) \/ OnBoards(s, u)
    \/ Commit(s) \/ Abort(s)

Spec == Init /\ [][Next]_vars

-----------------------------------------------------------------------------
(* Properties that hold however handlers overlap *)

\* A group or a channel is never without its creator as administrator, whoever
\* is removed or comes back, and in a channel only an administrator has spoken.
AdminsInCharge ==
  alive /\ kind \in {"group", "channel"} =>
    /\ role[Creator] = "admin"
    /\ kind = "channel" => \A m \in Ids : msg[m] # None => role[msg[m].by] = "admin"

-----------------------------------------------------------------------------
(* Properties of handlers that have not overlapped *)

\* A new message of somebody else is unread for whoever never marked as read
\* what did not exist yet, and for whoever comes later: writing, reading all
\* and reading up to a message never carry a mark past the messages there are.
NewIsUnread ==
  [][\A m \in Ids : ~overlapped /\ msg[m] = None /\ msg'[m] # None =>
       \A u \in Users \ ahead : u # msg'[m].by => m \in Unread(u)']_vars

\* Whoever is not a member has left no trace of what was read, so one who is
\* added again finds everything unread.
ReadByMembers ==
  ~overlapped => \A u \in Users : role[u] = "none" => mark[u] = 0

\* Pins show messages that exist, and not too many of them.
PinsShowMessages == ~overlapped => pins \subseteq Live /\ Cardinality(pins) <= MaxPins

\* What members made of a message stays within its bounds: one vote each where a
\* poll has one choice; ticks on tasks of the list, which has one at least.
BoardsAreSound ==
  ~overlapped =>
    /\ \A m \in Of({"single"}), u \in Users : Cardinality(VotesOf(m, u)) <= 1
    /\ \A m \in Of({"list"}) : Cardinality(TasksOf(m)) \in 1..MaxTasks
    /\ done \subseteq tasks

\* Only the creator ever administers, and only the creator speaks in a channel.
CreatorOnly ==
  kind \in {"group", "channel"} =>
    /\ \A u \in Users : role[u] = "admin" <=> alive /\ u = Creator
    /\ kind = "channel" => \A m \in Ids : msg[m] # None => msg[m].by = Creator

\* What a plan promises as long as it may be committed.
PlanOK(p) ==
  /\ p.at # None => p.at <= taken
  /\ kind \in {"group", "channel"} =>
       /\ Creator \notin p.leave
       /\ kind = "channel" /\ p.say # None => p.say.by = Creator

\* What a plan promises as long as nothing overlaps it: it carries the newest
\* number, which only those ahead have marked, and reading is kept for members.
UpToDate(p) ==
  /\ p.at # None =>
       /\ p.at = taken /\ p.say # None /\ ~p.say.deleted
       /\ \A u \in Users \ ahead : mark[u] < p.at
       /\ p.read # None => p.read.user = p.say.by /\ p.read.to = p.at
  /\ p.read # None => role[p.read.user] # "none" /\ p.leave = {}
  /\ \A u \in p.leave : mark[u] = 0 \/ u \in p.forget

\* The inductive invariant.
IInv ==
  /\ TypeOK
  /\ CreatorOnly
  /\ \A m \in Ids : msg[m] # None => m <= taken
  /\ \A s \in Sessions : session[s] # None => PlanOK(session[s])
  /\ ~overlapped =>
       /\ \A s, t \in Sessions : session[s] # None /\ session[t] # None => s = t
       /\ \A s \in Sessions : session[s] # None => UpToDate(session[s])
       /\ \A u \in Users : (u \notin ahead => mark[u] <= taken) /\ (role[u] = "none" => mark[u] = 0)

-----------------------------------------------------------------------------
(* What the source says and the code does not keep *)

\* "No more than 20 messages can be pinned" (pin_message of the routes).
PinLimit == Cardinality(pins) <= MaxPins
=============================================================================
