----------------------------- MODULE Chat_proofs -----------------------------
(* Proofs about Chat, for any number of users, messages, polls, tasks and    *)
(* overlapping handlers.                                                     *)
EXTENDS Chat, FiniteSetTheorems, TLAPS

\* The initial state satisfies the invariant.
LEMMA InitIInv == Init => IInv
<1> SUFFICES ASSUME Init PROVE IInv
  OBVIOUS
<1>1. PICK S \in SUBSET Users : role = Roster(kind, S)
  BY DEF Init
<1>2. role \in [Users -> Roles]
  BY <1>1 DEF Roster, Roles
<1>3. TypeOK
  <2>1. taken \in 0..MaxId /\ mark \in [Users -> 0..MaxId]
    BY ChatAssumption DEF Init
  <2>2. msg \in [Ids -> Messages \cup {None}] /\ session \in [Sessions -> Plan \cup {None}]
    BY DEF Init
  <2> QED
    BY <1>2, <2>1, <2>2 DEF Init, TypeOK
<1>4. CreatorOnly
  BY <1>1, ChatAssumption DEF Init, CreatorOnly, Roster
<1>5. \A u \in Users : (u \notin ahead => mark[u] <= taken) /\ (role[u] = "none" => mark[u] = 0)
  BY DEF Init
<1> QED
  BY <1>3, <1>4, <1>5 DEF Init, IInv

\* What PlanOK says of a plan besides its number.
Leads(p) ==
  kind \in {"group", "channel"} =>
    /\ Creator \notin p.leave
    /\ kind = "channel" /\ p.say # None => p.say.by = Creator

\* What UpToDate says of a plan p when the newest number is n.
Carries(p, n) ==
  /\ p.at # None =>
       /\ p.at = n /\ p.say # None /\ ~p.say.deleted
       /\ \A u \in Users \ ahead : mark[u] < p.at
       /\ p.read # None => p.read.user = p.say.by /\ p.read.to = p.at
  /\ p.read # None => role[p.read.user] # "none" /\ p.leave = {}
  /\ \A u \in p.leave : mark[u] = 0 \/ u \in p.forget

\* Planning what keeps its promises preserves the invariant.
LEMMA BeginIInv ==
  ASSUME IInv, NEW s \in Sessions, NEW p \in Plan, Begin(s, p), ~overlapped' => Carries(p, taken'),
         \* the promises of p, when the numbers given out are those of the next state
         p.at # None => p.at <= taken', Leads(p),
         taken' \in 0..MaxId, taken <= taken', used' \subseteq Ids \X Tasks
  PROVE  IInv'
<1>1. /\ UNCHANGED <<kind, alive, role, msg, mark, pins, votes, shut, tasks, done, ahead>>
      /\ session[s] = None /\ session' = [session EXCEPT ![s] = p]
      /\ overlapped' = (overlapped \/ \E t \in Sessions : session[t] # None)
  BY DEF Begin
<1>2. TypeOK'
  <2>1. session' \in [Sessions -> Plan \cup {None}] /\ overlapped' \in BOOLEAN
    BY <1>1 DEF IInv, TypeOK
  <2> QED
    BY <1>1, <2>1 DEF IInv, TypeOK
<1>3. \A t \in Sessions : session'[t] = IF t = s THEN p ELSE session[t]
  BY <1>1 DEF IInv, TypeOK
<1>4. CreatorOnly'
  BY <1>1 DEF IInv, CreatorOnly
<1>5. ASSUME NEW t \in Sessions, session'[t] # None
      PROVE  PlanOK(session[t])'
  <2>1. CASE t = s
    BY <1>1, <1>3, <2>1 DEF PlanOK, Leads
  <2>2. CASE t # s
    <3>1. session'[t] = session[t] /\ session[t] \in Plan /\ PlanOK(session[t])
      BY <1>3, <1>5, <2>2 DEF IInv, TypeOK
    <3>2. session[t].at # None => session[t].at \in Int /\ session[t].at <= taken'
      BY <3>1, ChatAssumption DEF PlanOK, Plan, Ids, IInv, TypeOK
    <3> QED
      BY <1>1, <3>1, <3>2 DEF PlanOK
  <2> QED
    BY <2>1, <2>2
<1>6. ASSUME ~overlapped', NEW t \in Sessions, session'[t] # None
      PROVE  t = s /\ UpToDate(session[t])'
  <2>1. t = s /\ session'[t] = p
    BY <1>1, <1>3, <1>6
  <2> QED
    BY <1>1, <1>6, <2>1 DEF UpToDate, Carries
<1>7. ASSUME ~overlapped', NEW u \in Users
      PROVE  (u \notin ahead' => mark'[u] <= taken') /\ (role'[u] = "none" => mark'[u] = 0)
  <2>1. (u \notin ahead => mark[u] <= taken) /\ (role[u] = "none" => mark[u] = 0)
    BY <1>1, <1>7 DEF IInv
  <2>2. mark[u] \in 0..MaxId /\ taken \in 0..MaxId /\ MaxId \in Nat
    BY ChatAssumption DEF IInv, TypeOK
  <2> QED
    BY <1>1, <2>1, <2>2
<1>8. \A m \in Ids : msg'[m] # None => m <= taken'
  BY <1>1, ChatAssumption DEF IInv, TypeOK, Ids
<1> QED
  BY <1>2, <1>4, <1>5, <1>6, <1>7, <1>8 DEF IInv

\* A plan that says nothing, reads nothing and removes nobody keeps every promise.
LEMMA PlainPlanIInv ==
  ASSUME IInv, NEW s \in Sessions, NEW p \in Plan, Begin(s, p), UNCHANGED taken,
         used' \subseteq Ids \X Tasks, p.at = None, p.say = None, p.read = None, p.leave = {}
  PROVE  IInv'
<1>1. Leads(p) /\ Carries(p, taken')
  BY DEF Leads, Carries
<1>2. taken' \in 0..MaxId /\ taken <= taken'
  BY ChatAssumption DEF IInv, TypeOK
<1> QED
  BY <1>1, <1>2, BeginIInv

\* A mark goes forward, for the one who reads or writes.
LEMMA TouchIsForward ==
  ASSUME NEW u \in Users, NEW m \in Ids
  PROVE  /\ Touch(u, m) \in Marks \cup {None}
         /\ Touch(u, m) # None => Touch(u, m).user = u /\ Touch(u, m).to = m
BY DEF Touch, Marks

\* A plan of somebody to have read up to a message, which may not exist yet.
LEMMA ReadingPlanIInv ==
  ASSUME IInv, NEW s \in Sessions, NEW u \in Users, NEW m \in Ids, Member(u),
         Stage(s, [Nothing EXCEPT !.read = Touch(u, m)])
  PROVE  IInv'
<1> DEFINE p == [Nothing EXCEPT !.read = Touch(u, m)]
<1>1. p \in Plan
  BY TouchIsForward DEF Nothing, Plan
<1>2. p.at = None /\ p.say = None /\ p.leave = {} /\ p.read = Touch(u, m)
  BY DEF Nothing
<1>3. Begin(s, p) /\ UNCHANGED <<taken, used>>
  BY DEF Stage
<1>4. Touch(u, m) # None => Touch(u, m).user = u
  BY TouchIsForward
<1>5. Leads(p) /\ Carries(p, taken')
  BY <1>2, <1>3, <1>4 DEF Leads, Carries, Member
<1>6. taken' \in 0..MaxId /\ taken <= taken' /\ used' \subseteq Ids \X Tasks
  BY <1>3, ChatAssumption DEF IInv, TypeOK
<1> HIDE DEF p
<1> QED
  BY <1>1, <1>2, <1>3, <1>5, <1>6, BeginIInv

\* Saying something takes the next number.
LEMMA SayIInv ==
  ASSUME IInv, NEW s \in Sessions, NEW u \in Users, NEW content \in Contents,
         NEW T \in SUBSET Tasks, Say(s, u, content, T)
  PROVE  IInv'
<1> DEFINE m == taken + 1
           words == [by |-> u, kind |-> content, deleted |-> FALSE]
           p == [Nothing EXCEPT !.at = m, !.say = words, !.read = Touch(u, m), !.task = {m} \X T]
<1>1. /\ CanPost(u) /\ m \in Ids /\ taken' = m /\ used' = used \cup ({m} \X T)
      /\ Begin(s, p)
  BY DEF Say
<1>2. words \in Messages /\ words # None /\ Touch(u, m) \in Marks \cup {None}
  <2>1. words \in Messages
    BY DEF Messages
  <2>2. None \notin Messages
    BY NothingIsNone
  <2> QED
    BY <1>1, <2>1, <2>2, TouchIsForward
<1>3. p \in Plan
  BY <1>1, <1>2 DEF Nothing, Plan
<1>4. p.at = m /\ p.say = words /\ p.leave = {} /\ p.read = Touch(u, m)
  BY DEF Nothing
<1>5. Touch(u, m) # None => Touch(u, m).user = u /\ Touch(u, m).to = m
  BY <1>1, TouchIsForward
<1>6. Leads(p)
  <2>1. kind = "channel" => u = Creator
    BY <1>1 DEF CanPost, Member, IInv, CreatorOnly
  <2> QED
    BY <1>4, <2>1 DEF Leads
<1>7. ASSUME ~overlapped' PROVE Carries(p, taken')
  <2>1. ~overlapped
    BY <1>1, <1>7 DEF Begin
  <2>2. \A v \in Users \ ahead : mark[v] <= taken /\ mark[v] \in Nat /\ taken \in Nat
    BY <2>1, ChatAssumption DEF IInv, TypeOK
  <2>3. \A v \in Users \ ahead : mark[v] < m
    BY <2>2
  <2>4. role[u] # "none"
    BY <1>1 DEF CanPost, Member
  <2>5. words.by = u /\ ~words.deleted
    OBVIOUS
  <2> HIDE DEF p, words
  <2> QED
    BY <1>1, <1>2, <1>4, <1>5, <2>3, <2>4, <2>5 DEF Carries
<1>8. /\ taken' \in 0..MaxId /\ taken <= taken' /\ used' \subseteq Ids \X Tasks
      /\ p.at <= taken'
  BY <1>1, <1>4, ChatAssumption DEF IInv, TypeOK, Ids
<1> HIDE DEF p
<1> QED
  BY <1>1, <1>3, <1>6, <1>7, <1>8, BeginIInv

\* Handlers of messages keep the invariant up to their commit.
LEMMA OnMessagesIInv ==
  ASSUME IInv, NEW s \in Sessions, NEW u \in Users, OnMessages(s, u)
  PROVE  IInv'
<1>1. ASSUME NEW p \in Plan, Stage(s, p), p.at = None, p.say = None, p.read = None, p.leave = {}
      PROVE  IInv'
  <2>1. Begin(s, p) /\ UNCHANGED taken /\ used' \subseteq Ids \X Tasks
    BY <1>1 DEF Stage, IInv, TypeOK
  <2> QED
    BY <1>1, <2>1, PlainPlanIInv
<1>2. CASE PostMessage(s, u)
  BY <1>2, SayIInv DEF PostMessage
<1>3. ASSUME NEW content \in Contents, PostPoll(s, u, content) PROVE IInv'
  BY <1>3, SayIInv DEF PostPoll
<1>4. ASSUME NEW T \in SUBSET Tasks, PostList(s, u, T) PROVE IInv'
  BY <1>4, SayIInv DEF PostList
<1>5. CASE MarkAllRead(s, u)
  <2>1. PICK m \in Live : Stage(s, [Nothing EXCEPT !.read = Touch(u, m)])
    BY <1>5 DEF MarkAllRead
  <2> QED
    BY <1>5, <2>1, ReadingPlanIInv DEF MarkAllRead, Live
<1>6. ASSUME NEW m \in Ids, MarkRead(s, u, m) PROVE IInv'
  BY <1>6, ReadingPlanIInv DEF MarkRead
<1>7. ASSUME NEW m \in Ids, DeleteMessage(s, u, m) PROVE IInv'
  <2> DEFINE p == [Nothing EXCEPT !.bury = {m}, !.unpin = {m} \cap pins]
  <2>1. p \in Plan /\ p.at = None /\ p.say = None /\ p.read = None /\ p.leave = {}
    BY DEF Nothing, Plan
  <2> QED
    BY <1>1, <1>7, <2>1 DEF DeleteMessage
<1>8. ASSUME NEW m \in Ids, Pin(s, u, m) PROVE IInv'
  <2> DEFINE p == [Nothing EXCEPT !.pin = {m}]
  <2>1. p \in Plan /\ p.at = None /\ p.say = None /\ p.read = None /\ p.leave = {}
    BY DEF Nothing, Plan
  <2> QED
    BY <1>1, <1>8, <2>1 DEF Pin
<1>9. ASSUME NEW m \in Ids, Unpin(s, u, m) PROVE IInv'
  <2> DEFINE p == [Nothing EXCEPT !.unpin = {m}]
  <2>1. p \in Plan /\ p.at = None /\ p.say = None /\ p.read = None /\ p.leave = {}
    BY DEF Nothing, Plan
  <2> QED
    BY <1>1, <1>9, <2>1 DEF Unpin
<1> QED
  BY <1>2, <1>3, <1>4, <1>5, <1>6, <1>7, <1>8, <1>9 DEF OnMessages

\* So do handlers of the members: only the creator manages, so nobody plans to
\* remove the creator.
LEMMA OnMembersIInv ==
  ASSUME IInv, NEW s \in Sessions, NEW u \in Users, OnMembers(s, u)
  PROVE  IInv'
<1>1. ASSUME NEW p \in Plan, Stage(s, p), p.at = None, p.say = None, p.read = None, p.leave = {}
      PROVE  IInv'
  <2>1. Begin(s, p) /\ UNCHANGED taken /\ used' \subseteq Ids \X Tasks
    BY <1>1 DEF Stage, IInv, TypeOK
  <2> QED
    BY <1>1, <2>1, PlainPlanIInv
<1>2. CASE Enter(s, u)
  <2> DEFINE p == [Nothing EXCEPT !.join = {u}]
  <2>1. p \in Plan /\ p.at = None /\ p.say = None /\ p.read = None /\ p.leave = {}
    BY DEF Nothing, Plan
  <2> QED
    BY <1>1, <1>2, <2>1 DEF Enter
<1>3. ASSUME NEW S \in SUBSET Users, AddMembers(s, u, S) PROVE IInv'
  <2> DEFINE p == [Nothing EXCEPT !.join = S]
  <2>1. p \in Plan /\ p.at = None /\ p.say = None /\ p.read = None /\ p.leave = {}
    BY DEF Nothing, Plan
  <2> QED
    BY <1>1, <1>3, <2>1 DEF AddMembers
<1>4. ASSUME NEW v \in Users, RemoveMember(s, u, v) PROVE IInv'
  <2> DEFINE p == [Nothing EXCEPT !.leave = {v}, !.forget = {w \in {v} : mark[w] # 0}]
  <2>1. p \in Plan /\ p.at = None /\ p.say = None /\ p.read = None
    BY DEF Nothing, Plan
  <2>2. p.leave = {v} /\ p.forget = {w \in {v} : mark[w] # 0}
    BY DEF Nothing
  <2>3. Begin(s, p) /\ UNCHANGED <<taken, used>>
    BY <1>4 DEF RemoveMember, Stage
  <2>4. v # Creator
    BY <1>4 DEF RemoveMember, CanManage, Member, IInv, CreatorOnly
  <2>5. Leads(p) /\ Carries(p, taken')
    BY <2>1, <2>2, <2>4 DEF Leads, Carries
  <2>6. taken' \in 0..MaxId /\ taken <= taken' /\ used' \subseteq Ids \X Tasks
    BY <2>3, ChatAssumption DEF IInv, TypeOK
  <2> HIDE DEF p
  <2> QED
    BY <2>1, <2>3, <2>5, <2>6, BeginIInv
<1>5. CASE DeleteGroup(s, u)
  <2> DEFINE p == [Nothing EXCEPT !.drop = TRUE]
  <2>1. p \in Plan /\ p.at = None /\ p.say = None /\ p.read = None /\ p.leave = {}
    BY DEF Nothing, Plan
  <2> QED
    BY <1>1, <1>5, <2>1 DEF DeleteGroup
<1> QED
  BY <1>2, <1>3, <1>4, <1>5 DEF OnMembers

\* Handlers of polls and lists touch nothing the invariant is about.
LEMMA OnBoardsIInv ==
  ASSUME IInv, NEW s \in Sessions, NEW u \in Users, OnBoards(s, u)
  PROVE  IInv'
<1>1. ASSUME NEW p \in Plan, Stage(s, p), p.at = None, p.say = None, p.read = None, p.leave = {}
      PROVE  IInv'
  <2>1. Begin(s, p) /\ UNCHANGED taken /\ used' \subseteq Ids \X Tasks
    BY <1>1 DEF Stage, IInv, TypeOK
  <2> QED
    BY <1>1, <2>1, PlainPlanIInv
<1>2. votes \subseteq Ids \X Users \X Options
  BY DEF IInv, TypeOK
<1>3. ASSUME NEW m \in Ids, NEW o \in Options, Vote(s, u, m, o) PROVE IInv'
  <2> DEFINE V == {<<m, u, o>>}
             W == VotesOf(m, u)
             p1 == [Nothing EXCEPT !.vote = V, !.unvote = W]
             p2 == [Nothing EXCEPT !.unvote = V]
             p3 == [Nothing EXCEPT !.vote = V]
  <2>0. V \in SUBSET (Ids \X Users \X Options) /\ W \in SUBSET (Ids \X Users \X Options)
    BY <1>2 DEF VotesOf
  <2>4. Stage(s, p1) \/ Stage(s, p2) \/ Stage(s, p3)
    BY <1>3 DEF Vote
  <2> HIDE DEF V, W
  <2>1. p1 \in Plan /\ p1.at = None /\ p1.say = None /\ p1.read = None /\ p1.leave = {}
    BY <2>0 DEF Nothing, Plan
  <2>2. p2 \in Plan /\ p2.at = None /\ p2.say = None /\ p2.read = None /\ p2.leave = {}
    BY <2>0 DEF Nothing, Plan
  <2>3. p3 \in Plan /\ p3.at = None /\ p3.say = None /\ p3.read = None /\ p3.leave = {}
    BY <2>0 DEF Nothing, Plan
  <2> HIDE DEF p1, p2, p3
  <2> QED
    BY <1>1, <2>1, <2>2, <2>3, <2>4
<1>4. ASSUME NEW m \in Ids, ClosePoll(s, u, m) PROVE IInv'
  <2> DEFINE p == [Nothing EXCEPT !.shut = {m}]
  <2>1. p \in Plan /\ p.at = None /\ p.say = None /\ p.read = None /\ p.leave = {}
    BY DEF Nothing, Plan
  <2> QED
    BY <1>1, <1>4, <2>1 DEF ClosePoll
<1>5. ASSUME NEW m \in Ids, NEW t \in Tasks, Append(s, u, m, t) PROVE IInv'
  <2> DEFINE X == {<<m, t>>}
             p == [Nothing EXCEPT !.task = X]
  <2>0. X \in SUBSET (Ids \X Tasks)
    OBVIOUS
  <2>2. Begin(s, p) /\ UNCHANGED taken /\ used' \subseteq Ids \X Tasks
    BY <1>5 DEF Append, IInv, TypeOK
  <2> HIDE DEF X
  <2>1. p \in Plan /\ p.at = None /\ p.say = None /\ p.read = None /\ p.leave = {}
    BY <2>0 DEF Nothing, Plan
  <2> HIDE DEF p
  <2> QED
    BY <2>1, <2>2, PlainPlanIInv
<1>6. ASSUME NEW m \in Ids, NEW t \in Tasks, Toggle(s, u, <<m, t>>) PROVE IInv'
  <2> DEFINE X == {<<m, t>>}
             p1 == [Nothing EXCEPT !.untick = X]
             p2 == [Nothing EXCEPT !.tick = X]
  <2>0. X \in SUBSET (Ids \X Tasks)
    OBVIOUS
  <2>3. Stage(s, p1) \/ Stage(s, p2)
    BY <1>6 DEF Toggle
  <2> HIDE DEF X
  <2>1. p1 \in Plan /\ p1.at = None /\ p1.say = None /\ p1.read = None /\ p1.leave = {}
    BY <2>0 DEF Nothing, Plan
  <2>2. p2 \in Plan /\ p2.at = None /\ p2.say = None /\ p2.read = None /\ p2.leave = {}
    BY <2>0 DEF Nothing, Plan
  <2> HIDE DEF p1, p2
  <2> QED
    BY <1>1, <2>1, <2>2, <2>3
<1>7. ASSUME NEW m \in Ids, NEW t \in Tasks, RemoveTask(s, u, <<m, t>>) PROVE IInv'
  <2> DEFINE X == {<<m, t>>}
             p == [Nothing EXCEPT !.strike = X]
  <2>0. X \in SUBSET (Ids \X Tasks)
    OBVIOUS
  <2>2. Stage(s, p)
    BY <1>7 DEF RemoveTask
  <2> HIDE DEF X
  <2>1. p \in Plan /\ p.at = None /\ p.say = None /\ p.read = None /\ p.leave = {}
    BY <2>0 DEF Nothing, Plan
  <2> QED
    BY <1>1, <2>1, <2>2
<1> QED
  BY <1>3, <1>4, <1>5, <1>6, <1>7 DEF OnBoards

\* A commit does what the plan promised.
LEMMA CommitIInv ==
  ASSUME IInv, NEW s \in Sessions, Commit(s)
  PROVE  IInv'
<1> DEFINE p == session[s]
<1>1. /\ p \in Plan /\ p # None /\ PlanOK(p) /\ Accepted(p)
      /\ UNCHANGED <<kind, taken, used, overlapped>>
      /\ alive /\ alive' = ~p.drop
      /\ session' = [session EXCEPT ![s] = None]
  BY DEF Commit, Accepted, IInv, TypeOK
<1>2. /\ role' = [u \in Users |->
           IF p.drop \/ u \in p.leave THEN "none" ELSE IF u \in p.join THEN "member" ELSE role[u]]
      /\ msg' = [m \in Ids |->
           IF p.drop THEN None
           ELSE IF m = p.at THEN p.say
           ELSE IF m \in p.bury /\ msg[m] # None THEN [msg[m] EXCEPT !.deleted = TRUE] ELSE msg[m]]
      /\ mark' = IF p.drop THEN [u \in Users |-> 0] ELSE Reading(p)
      /\ ahead' = (ahead \ p.forget) \cup
           {u \in Users : p.at = None /\ p.read # None /\ p.read.user = u /\ p.read.to > taken}
  BY DEF Commit
<1>3. /\ pins' = IF p.drop THEN {} ELSE (pins \ p.unpin) \cup p.pin
      /\ votes' = IF p.drop THEN {} ELSE (votes \ p.unvote) \cup p.vote
      /\ shut' = IF p.drop THEN {} ELSE shut \cup p.shut
      /\ tasks' = IF p.drop THEN {} ELSE (tasks \cup p.task) \ p.strike
      /\ done' = IF p.drop THEN {} ELSE (done \cup p.tick) \ (p.untick \cup p.strike)
  BY DEF Commit
<1>4. \A t \in Sessions : session'[t] = IF t = s THEN None ELSE session[t]
  BY <1>1 DEF IInv, TypeOK
<1>5. p.read # None => p.read.user \in Users /\ p.read.to \in Ids
  BY <1>1 DEF Plan, Marks
<1>6. MaxId \in Nat /\ taken \in 0..MaxId /\ Ids = 1..MaxId
  BY ChatAssumption DEF IInv, TypeOK, Ids
<1> HIDE DEF p
<1>7. mark' \in [Users -> 0..MaxId]
  BY <1>2, <1>5, <1>6 DEF Reading, IInv, TypeOK
<1>8. TypeOK'
  <2>1. role' \in [Users -> Roles]
    BY <1>2 DEF IInv, TypeOK, Roles
  <2>2. msg' \in [Ids -> Messages \cup {None}]
    <3>1. p.say \in Messages \cup {None}
      BY <1>1 DEF Plan
    <3>2. \A m \in Ids : msg[m] # None => [msg[m] EXCEPT !.deleted = TRUE] \in Messages
      BY DEF IInv, TypeOK, Messages
    <3> QED
      BY <1>2, <3>1, <3>2 DEF IInv, TypeOK
  <2>3. session' \in [Sessions -> Plan \cup {None}]
    BY <1>1 DEF IInv, TypeOK
  <2>4. pins' \subseteq Ids /\ shut' \subseteq Ids
    BY <1>1, <1>3 DEF IInv, TypeOK, Plan
  <2>5. votes' \subseteq Ids \X Users \X Options
    <3>1. votes \subseteq Ids \X Users \X Options /\ p.vote \in SUBSET (Ids \X Users \X Options)
      BY <1>1 DEF IInv, TypeOK, Plan
    <3> HIDE DEF p
    <3> QED
      BY <1>3, <3>1
  <2>6. tasks' \subseteq Ids \X Tasks /\ done' \subseteq Ids \X Tasks
    <3>1. /\ tasks \subseteq Ids \X Tasks /\ done \subseteq Ids \X Tasks
          /\ p.task \in SUBSET (Ids \X Tasks) /\ p.tick \in SUBSET (Ids \X Tasks)
      BY <1>1 DEF IInv, TypeOK, Plan
    <3> QED
      BY <1>3, <3>1
  <2>7. alive' \in BOOLEAN /\ ahead' \subseteq Users
    BY <1>1, <1>2 DEF Plan, IInv, TypeOK
  <2> QED
    BY <1>1, <1>7, <2>1, <2>2, <2>3, <2>4, <2>5, <2>6, <2>7 DEF IInv, TypeOK
<1>9. CreatorOnly'
  <2> SUFFICES ASSUME kind \in {"group", "channel"} PROVE CreatorOnly'
    BY <1>1 DEF CreatorOnly
  <2>1. Creator \notin p.leave /\ (kind = "channel" /\ p.say # None => p.say.by = Creator)
    BY <1>1 DEF PlanOK
  <2>2. \A u \in Users : role[u] = "admin" <=> u = Creator
    BY <1>1 DEF IInv, CreatorOnly
  <2>3. Creator \in Users /\ \A u \in p.join : role[u] = "none"
    BY <1>1, ChatAssumption DEF Accepted
  <2>4. ASSUME NEW u \in Users PROVE role'[u] = "admin" <=> alive' /\ u = Creator
    <3>1. CASE p.drop
      BY <1>1, <1>2, <3>1
    <3>2. CASE ~p.drop
      <4>1. role'[u] = IF u \in p.leave THEN "none" ELSE IF u \in p.join THEN "member" ELSE role[u]
        BY <1>2, <3>2
      <4> QED
        BY <1>1, <2>1, <2>2, <2>3, <3>2, <4>1
    <3> QED
      BY <3>1, <3>2
  <2>5. ASSUME kind = "channel", NEW m \in Ids, msg'[m] # None PROVE msg'[m].by = Creator
    <3>1. msg[m] # None => msg[m] \in Messages /\ msg[m].by = Creator
      BY <2>5 DEF IInv, TypeOK, CreatorOnly
    <3>2. msg[m] # None => [msg[m] EXCEPT !.deleted = TRUE].by = Creator
      BY <3>1 DEF Messages
    <3> QED
      BY <1>2, <2>1, <2>5, <3>1, <3>2
  <2> QED
    BY <1>1, <2>4, <2>5 DEF CreatorOnly
<1>10. ASSUME NEW m \in Ids, msg'[m] # None PROVE m <= taken'
  <2>1. CASE m = p.at
    BY <1>1, <1>6, <2>1, NothingIsNone DEF PlanOK
  <2>2. CASE m # p.at
    BY <1>1, <1>2, <1>10, <2>2 DEF IInv
  <2> QED
    BY <2>1, <2>2
<1>11. ASSUME NEW t \in Sessions, session'[t] # None PROVE PlanOK(session[t])'
  <2>1. session'[t] = session[t] /\ PlanOK(session[t])
    BY <1>4, <1>11 DEF IInv
  <2> QED
    BY <1>1, <2>1 DEF PlanOK
<1>12. ASSUME ~overlapped'
       PROVE  /\ \A t \in Sessions : session'[t] = None
              /\ \A u \in Users : /\ u \notin ahead' => mark'[u] <= taken'
                                  /\ role'[u] = "none" => mark'[u] = 0
  <2>1. ~overlapped /\ UpToDate(p)
    BY <1>1, <1>12 DEF IInv, p
  <2>2. \A t \in Sessions : session'[t] = None
    BY <1>1, <1>4, <2>1 DEF IInv, p
  <2>3. ASSUME NEW u \in Users
        PROVE  (u \notin ahead' => mark'[u] <= taken') /\ (role'[u] = "none" => mark'[u] = 0)
    <3>1. (u \notin ahead => mark[u] <= taken) /\ (role[u] = "none" => mark[u] = 0)
      BY <2>1 DEF IInv
    <3>2. mark[u] \in Nat
      BY <1>6 DEF IInv, TypeOK
    <3>3. CASE p.drop
      BY <1>1, <1>2, <1>6, <3>3
    <3>4. CASE ~p.drop
      <4>1. mark'[u] = IF u \in p.forget THEN 0
                       ELSE IF p.read # None /\ p.read.user = u THEN p.read.to ELSE mark[u]
        BY <1>2, <3>4 DEF Reading
      <4>2. role'[u] = IF u \in p.leave THEN "none" ELSE IF u \in p.join THEN "member" ELSE role[u]
        BY <1>2, <3>4
      <4>3. ASSUME u \notin ahead' PROVE mark'[u] <= taken'
        <5>1. CASE u \in p.forget
          BY <1>1, <1>6, <4>1, <5>1
        <5>2. CASE u \notin p.forget /\ p.read # None /\ p.read.user = u
          <6>1. CASE p.at = None
            BY <1>1, <1>2, <1>5, <1>6, <4>1, <4>3, <5>2, <6>1
          <6>2. CASE p.at # None
            BY <1>1, <1>6, <2>1, <4>1, <5>2, <6>2 DEF UpToDate
          <6> QED
            BY <6>1, <6>2
        <5>3. CASE u \notin p.forget /\ ~(p.read # None /\ p.read.user = u)
          BY <1>1, <1>2, <3>1, <4>1, <4>3, <5>3
        <5> QED
          BY <5>1, <5>2, <5>3
      <4>4. role'[u] = "none" => mark'[u] = 0
        BY <2>1, <3>1, <4>1, <4>2 DEF UpToDate
      <4> QED
        BY <4>3, <4>4
    <3> QED
      BY <3>3, <3>4
  <2> QED
    BY <2>2, <2>3
<1> QED
  BY <1>8, <1>9, <1>10, <1>11, <1>12 DEF IInv

\* A handler that fails leaves everything as it was.
LEMMA AbortIInv ==
  ASSUME IInv, NEW s \in Sessions, Abort(s)
  PROVE  IInv'
<1>1. /\ UNCHANGED <<kind, alive, role, taken, msg, mark, pins, votes, shut, used, tasks, done, ahead, overlapped>>
      /\ session' = [session EXCEPT ![s] = None]
  BY DEF Abort, said, boards
<1>2. \A t \in Sessions : session'[t] = IF t = s THEN None ELSE session[t]
  BY <1>1 DEF IInv, TypeOK
<1>3. TypeOK'
  BY <1>1 DEF IInv, TypeOK
<1>4. ASSUME NEW t \in Sessions, session'[t] # None
      PROVE  PlanOK(session[t])' /\ (~overlapped' => UpToDate(session[t])')
  <2>1. session'[t] = session[t] /\ PlanOK(session[t]) /\ (~overlapped => UpToDate(session[t]))
    BY <1>2, <1>4 DEF IInv
  <2> QED
    BY <1>1, <2>1 DEF PlanOK, UpToDate
<1>5. CreatorOnly'
  BY <1>1 DEF IInv, CreatorOnly
<1>6. ~overlapped' => \A t, q \in Sessions : session'[t] # None /\ session'[q] # None => t = q
  BY <1>1, <1>2 DEF IInv
<1> QED
  BY <1>1, <1>3, <1>4, <1>5, <1>6 DEF IInv

LEMMA NextIInv == IInv /\ [Next]_vars => IInv'
<1> SUFFICES ASSUME IInv, [Next]_vars PROVE IInv'
  OBVIOUS
<1>1. CASE UNCHANGED vars
  <2>1. UNCHANGED <<kind, alive, role, taken, msg, mark, pins, votes, shut, used, tasks, done, session, ahead, overlapped>>
    BY <1>1 DEF vars, said, boards
  <2> QED
    BY <2>1 DEF IInv, TypeOK, CreatorOnly, PlanOK, UpToDate
<1>2. ASSUME NEW s \in Sessions, NEW u \in Users, OnMessages(s, u) \/ OnMembers(s, u) \/ OnBoards(s, u)
      PROVE  IInv'
  BY <1>2, OnMessagesIInv, OnMembersIInv, OnBoardsIInv
<1>3. ASSUME NEW s \in Sessions, Commit(s) PROVE IInv'
  BY <1>3, CommitIInv
<1>4. ASSUME NEW s \in Sessions, Abort(s) PROVE IInv'
  BY <1>4, AbortIInv
<1> QED
  BY <1>1, <1>2, <1>3, <1>4 DEF Next

\* The inductive invariant holds in every reachable state.
THEOREM Inductive == Spec => []IInv
BY InitIInv, NextIInv, PTL DEF Spec

\* Tables and plans keep their types.
THEOREM TypeCorrect == Spec => []TypeOK
<1>1. IInv => TypeOK
  BY DEF IInv
<1> QED
  BY <1>1, Inductive, PTL

\* However handlers overlap, the creator administers a group or a channel as
\* long as it exists, and only administrators have spoken in a channel.
THEOREM CreatorInCharge == Spec => []AdminsInCharge
<1>1. IInv => AdminsInCharge
  BY ChatAssumption DEF IInv, CreatorOnly, AdminsInCharge
<1> QED
  BY <1>1, Inductive, PTL

\* As long as no handlers overlapped, former members leave no reading behind.
THEOREM NobodyElseReads == Spec => []ReadByMembers
<1>1. IInv => ReadByMembers
  BY DEF IInv, ReadByMembers
<1> QED
  BY <1>1, Inductive, PTL

\* As long as no handlers overlapped, a new message of somebody else is unread
\* for whoever never marked as read what did not exist yet.
THEOREM NewMessagesUnread == Spec => NewIsUnread
<1> DEFINE A == \A m \in Ids : ~overlapped /\ msg[m] = None /\ msg'[m] # None =>
                  \A u \in Users \ ahead : u # msg'[m].by => m \in Unread(u)'
<1>1. IInv /\ [Next]_vars => [A]_vars
  <2> SUFFICES ASSUME IInv, Next, NEW m \in Ids, ~overlapped, msg[m] = None, msg'[m] # None,
                      NEW u \in Users, u \notin ahead, u # msg'[m].by
               PROVE  m \in Unread(u)'
    OBVIOUS
  <2>1. PICK s \in Sessions : Commit(s)
    <3>1. ASSUME NEW s \in Sessions, NEW v \in Users,
                 OnMessages(s, v) \/ OnMembers(s, v) \/ OnBoards(s, v)
          PROVE  msg' = msg
      BY <3>1 DEF OnMessages, OnMembers, OnBoards, PostMessage, PostPoll, PostList, Say, MarkAllRead,
                  MarkRead, DeleteMessage, Pin, Unpin, Enter, AddMembers, RemoveMember, DeleteGroup,
                  Vote, ClosePoll, Append, Toggle, RemoveTask, Stage, Begin
    <3>2. ASSUME NEW s \in Sessions, Abort(s) PROVE msg' = msg
      BY <3>2 DEF Abort, said
    <3> QED
      BY <3>1, <3>2 DEF Next
  <2> DEFINE p == session[s]
  <2>2. p # None /\ p \in Plan /\ UpToDate(p)
    BY <2>1 DEF Commit, IInv, TypeOK
  <2>3. ~p.drop /\ m = p.at /\ msg'[m] = p.say
    BY <2>1 DEF Commit
  <2>4. mark'[u] = IF u \in p.forget THEN 0
                   ELSE IF p.read # None /\ p.read.user = u THEN p.read.to ELSE mark[u]
    BY <2>1, <2>3 DEF Commit, Reading
  <2>5. /\ p.read # None => p.read.user = p.say.by
        /\ ~p.say.deleted /\ mark[u] < m
    BY <2>2, <2>3, NothingIsNone DEF UpToDate
  <2>6. m > mark'[u]
    <3>1. m \in Nat /\ m > 0 /\ mark[u] \in Nat
      BY ChatAssumption DEF Ids, IInv, TypeOK
    <3> HIDE DEF p
    <3> QED
      BY <2>3, <2>4, <2>5, <3>1
  <2> QED
    BY <2>3, <2>5, <2>6 DEF Unread, Live
<1> QED
  BY <1>1, Inductive, PTL DEF Spec, NewIsUnread

-----------------------------------------------------------------------------
(* Pins, polls and lists of handlers that have not overlapped.               *)
(*                                                                           *)
(* A handler checks a limit on the rows it reads and writes at its commit,   *)
(* so what has to hold in between is said of the tables as its plan would    *)
(* leave them.  As long as nothing has overlapped there is one plan at most, *)
(* and the tables it was made from are those it meets.                       *)

\* Pins P show messages of g, and not too many.
PinsOK(g, P) ==
  /\ P \subseteq {m \in Ids : g[m] # None /\ ~g[m].deleted}
  /\ Cardinality(P) <= MaxPins

\* Votes V are on messages of g, one of each voter where there is one choice.
VotesOK(g, V) ==
  /\ \A v \in V : g[v[1]] # None
  /\ \A v, w \in V : v[1] = w[1] /\ v[2] = w[2] /\ g[v[1]].kind = "single" => v = w

InList(K, m) == {t \in Tasks : <<m, t>> \in K}

\* Tasks K are of messages of g, the lists among these have some but not too
\* many, and ticks D are on tasks.
ListsOK(g, K, D) ==
  /\ \A x \in K : g[x[1]] # None
  /\ \A m \in Ids : g[m] # None /\ g[m].kind = "list" => Cardinality(InList(K, m)) \in 1..MaxTasks
  /\ D \subseteq K

\* The messages as plan p leaves them.
MsgAfter(p) ==
  [m \in Ids |->
     IF m = p.at THEN p.say
     ELSE IF m \in p.bury /\ msg[m] # None THEN [msg[m] EXCEPT !.deleted = TRUE] ELSE msg[m]]

\* What a plan promises of the tables it leaves behind.
Promise(p) ==
  p.drop \/
    /\ PinsOK(MsgAfter(p), (pins \ p.unpin) \cup p.pin)
    /\ VotesOK(MsgAfter(p), (votes \ p.unvote) \cup p.vote)
    /\ ListsOK(MsgAfter(p), (tasks \cup p.task) \ p.strike, (done \cup p.tick) \ (p.untick \cup p.strike))

SoundInv ==
  ~overlapped =>
    /\ PinsOK(msg, pins) /\ VotesOK(msg, votes) /\ ListsOK(msg, tasks, done)
    /\ \A s \in Sessions : session[s] # None => Promise(session[s])

\* Of a message, votes and tasks depend on its being there and on its kind.
Alike(g, h) == \A m \in Ids : (g[m] = None <=> h[m] = None) /\ (g[m] # None => g[m].kind = h[m].kind)

LEMMA AlikeVotes ==
  ASSUME NEW g, NEW h, NEW V \in SUBSET (Ids \X Users \X Options), Alike(g, h), VotesOK(g, V)
  PROVE  VotesOK(h, V)
<1>1. \A v \in V : v[1] \in Ids
  OBVIOUS
<1> QED
  BY <1>1 DEF Alike, VotesOK

LEMMA AlikeLists ==
  ASSUME NEW g, NEW h, NEW K \in SUBSET (Ids \X Tasks), NEW D, Alike(g, h), ListsOK(g, K, D)
  PROVE  ListsOK(h, K, D)
<1>1. \A x \in K : x[1] \in Ids
  OBVIOUS
<1> QED
  BY <1>1 DEF Alike, ListsOK

\* A plan that inserts no message leaves messages that are alike, and deletes none
\* but those it names.
LEMMA SayingNothing ==
  ASSUME IInv, NEW p \in Plan, p.at = None
  PROVE  /\ Alike(msg, MsgAfter(p))
         /\ \A m \in Ids : m \notin p.bury => MsgAfter(p)[m] = msg[m]
<1>1. \A m \in Ids : m # p.at
  BY NothingIsNone
<1>2. \A m \in Ids : MsgAfter(p)[m] =
        IF m \in p.bury /\ msg[m] # None THEN [msg[m] EXCEPT !.deleted = TRUE] ELSE msg[m]
  BY <1>1 DEF MsgAfter
<1>3. \A m \in Ids : msg[m] # None =>
        [msg[m] EXCEPT !.deleted = TRUE] # None /\ [msg[m] EXCEPT !.deleted = TRUE].kind = msg[m].kind
  <2>1. \A m \in Ids : msg[m] # None => [msg[m] EXCEPT !.deleted = TRUE] \in Messages
    BY DEF IInv, TypeOK, Messages
  <2>2. \A m \in Ids : msg[m] # None => [msg[m] EXCEPT !.deleted = TRUE].kind = msg[m].kind
    BY DEF IInv, TypeOK, Messages
  <2> QED
    BY <2>1, <2>2, NothingIsNone
<1> QED
  BY <1>2, <1>3 DEF Alike

LEMMA SomePinsFinite ==
  ASSUME NEW P \in SUBSET Ids
  PROVE  IsFiniteSet(P) /\ Cardinality(P) \in Nat
<1>1. IsFiniteSet(Ids)
  BY ChatAssumption, FS_Interval DEF Ids
<1> QED
  BY <1>1, FS_Subset, FS_CardinalityType

LEMMA SomeTasksFinite ==
  ASSUME NEW T \in SUBSET Tasks
  PROVE  IsFiniteSet(T) /\ Cardinality(T) \in Nat
BY ChatAssumption, FS_Subset, FS_CardinalityType

\* A handler that begins on sound tables and promises to leave them sound.
LEMMA BeginSound ==
  ASSUME IInv, SoundInv, NEW s \in Sessions, NEW p \in Plan, Begin(s, p), ~overlapped => Promise(p)
  PROVE  SoundInv'
<1> SUFFICES ASSUME ~overlapped' PROVE SoundInv'
  BY DEF SoundInv
<1>1. /\ ~overlapped /\ UNCHANGED <<msg, pins, votes, tasks, done>>
      /\ session' = [session EXCEPT ![s] = p] /\ \A t \in Sessions : session[t] = None
  BY DEF Begin
<1>2. PinsOK(msg, pins) /\ VotesOK(msg, votes) /\ ListsOK(msg, tasks, done)
  BY <1>1 DEF SoundInv
<1>3. \A t \in Sessions : session'[t] = IF t = s THEN p ELSE None
  BY <1>1 DEF IInv, TypeOK
<1>4. MsgAfter(p)' = MsgAfter(p)
  BY <1>1 DEF MsgAfter
<1>5. Promise(p)'
  BY <1>1, <1>4 DEF Promise, PinsOK, VotesOK, ListsOK, InList
<1>6. (PinsOK(msg, pins) /\ VotesOK(msg, votes) /\ ListsOK(msg, tasks, done))'
  BY <1>1, <1>2 DEF PinsOK, VotesOK, ListsOK, InList
<1>7. \A t \in Sessions : session'[t] # None => session'[t] = p
  BY <1>3
<1>8. \A t \in Sessions : session'[t] # None => Promise(session[t])'
  BY <1>5, <1>7 DEF Promise, MsgAfter
<1> QED
  BY <1>6, <1>8 DEF SoundInv

\* What is left to show of a plan that inserts no message: the tables it changes.
LEMMA QuietSound ==
  ASSUME IInv, SoundInv, NEW s \in Sessions, NEW p \in Plan, Begin(s, p), p.at = None,
         ~overlapped =>
           /\ PinsOK(msg, pins) /\ VotesOK(msg, votes) /\ ListsOK(msg, tasks, done) =>
                /\ PinsOK(msg, (pins \ p.unpin) \cup p.pin)
                /\ VotesOK(msg, (votes \ p.unvote) \cup p.vote)
                /\ ListsOK(msg, (tasks \cup p.task) \ p.strike,
                                (done \cup p.tick) \ (p.untick \cup p.strike))
           /\ ((pins \ p.unpin) \cup p.pin) \cap p.bury = {}
  PROVE  SoundInv'
<1> SUFFICES ASSUME ~overlapped PROVE Promise(p)
  BY BeginSound
<1> DEFINE P == (pins \ p.unpin) \cup p.pin
           V == (votes \ p.unvote) \cup p.vote
           K == (tasks \cup p.task) \ p.strike
           D == (done \cup p.tick) \ (p.untick \cup p.strike)
<1>1. PinsOK(msg, P) /\ VotesOK(msg, V) /\ ListsOK(msg, K, D) /\ P \cap p.bury = {}
  BY DEF SoundInv
<1>2. Alike(msg, MsgAfter(p)) /\ \A m \in Ids : m \notin p.bury => MsgAfter(p)[m] = msg[m]
  BY SayingNothing
<1>3. V \in SUBSET (Ids \X Users \X Options) /\ K \in SUBSET (Ids \X Tasks)
  <2>1. /\ votes \in SUBSET (Ids \X Users \X Options) /\ tasks \in SUBSET (Ids \X Tasks)
        /\ p.vote \in SUBSET (Ids \X Users \X Options) /\ p.task \in SUBSET (Ids \X Tasks)
    BY DEF IInv, TypeOK, Plan
  <2> QED
    BY <2>1
<1>4. PinsOK(MsgAfter(p), P)
  BY <1>1, <1>2 DEF PinsOK
<1> HIDE DEF P, V, K, D
<1>5. VotesOK(MsgAfter(p), V) /\ ListsOK(MsgAfter(p), K, D)
  BY <1>1, <1>2, <1>3, AlikeVotes, AlikeLists
<1> QED
  BY <1>4, <1>5 DEF Promise, P, V, K, D

\* Plans about members, reading or the end of a poll leave these tables alone.
LEMMA AsideSound ==
  ASSUME IInv, SoundInv, NEW s \in Sessions, NEW p \in Plan, Begin(s, p), p.at = None, p.bury = {},
         p.pin = {}, p.unpin = {}, p.vote = {}, p.unvote = {},
         p.task = {}, p.strike = {}, p.tick = {}, p.untick = {}
  PROVE  SoundInv'
<1>1. /\ (pins \ p.unpin) \cup p.pin = pins /\ (votes \ p.unvote) \cup p.vote = votes
      /\ (tasks \cup p.task) \ p.strike = tasks /\ (done \cup p.tick) \ (p.untick \cup p.strike) = done
  OBVIOUS
<1> QED
  BY <1>1, QuietSound

\* A plan to say something: the message is new, and a list has tasks from the start.
LEMMA SaySound ==
  ASSUME IInv, SoundInv, NEW s \in Sessions, NEW u \in Users, NEW content \in Contents,
         NEW T \in SUBSET Tasks, Say(s, u, content, T),
         content = "list" => T # {} /\ Cardinality(T) <= MaxTasks
  PROVE  SoundInv'
<1> DEFINE m == taken + 1
           words == [by |-> u, kind |-> content, deleted |-> FALSE]
           X == {m} \X T
           p == [Nothing EXCEPT !.at = m, !.say = words, !.read = Touch(u, m), !.task = X]
           g == MsgAfter(p)
<1>1. m \in Ids /\ Begin(s, p)
  BY DEF Say
<1>2. words \in Messages /\ words # None
  <2>1. words \in Messages
    BY DEF Messages
  <2> QED
    BY <2>1, NothingIsNone
<1>3. Touch(u, m) \in Marks \cup {None}
  BY <1>1, TouchIsForward
<1>4. X \in SUBSET (Ids \X Tasks) /\ \A n, t : <<n, t>> \in X <=> n = m /\ t \in T
  BY <1>1
<1>5. words.kind = content /\ ~words.deleted
  OBVIOUS
<1>6. msg[m] = None
  <2>1. taken \in 0..MaxId /\ m # None
    BY <1>1, NothingIsNone DEF IInv, TypeOK
  <2> QED
    BY <1>1, <2>1, ChatAssumption DEF IInv
<1> HIDE DEF words, X
<1>7. p \in Plan
  BY <1>1, <1>2, <1>3, <1>4 DEF Nothing, Plan
<1>8. /\ p.at = m /\ p.say = words /\ p.bury = {} /\ p.task = X
      /\ p.pin = {} /\ p.unpin = {} /\ p.vote = {} /\ p.unvote = {}
      /\ p.strike = {} /\ p.tick = {} /\ p.untick = {}
  BY DEF Nothing
<1> HIDE DEF p
<1>9. /\ (pins \ p.unpin) \cup p.pin = pins /\ (votes \ p.unvote) \cup p.vote = votes
      /\ (tasks \cup p.task) \ p.strike = tasks \cup X
      /\ (done \cup p.tick) \ (p.untick \cup p.strike) = done
  BY <1>8
<1>10. \A n \in Ids : g[n] = IF n = m THEN words ELSE msg[n]
  BY <1>8 DEF MsgAfter
<1> HIDE DEF g, m
<1> SUFFICES ASSUME ~overlapped PROVE PinsOK(g, pins) /\ VotesOK(g, votes) /\ ListsOK(g, tasks \cup X, done)
  BY <1>1, <1>7, <1>9, BeginSound DEF Promise, g
<1>11. PinsOK(msg, pins) /\ VotesOK(msg, votes) /\ ListsOK(msg, tasks, done)
  BY DEF SoundInv
<1>12. PinsOK(g, pins)
  BY <1>2, <1>5, <1>10, <1>11 DEF PinsOK
<1>13. VotesOK(g, votes)
  <2>1. \A v \in votes : v[1] \in Ids /\ v[1] # m
    BY <1>6, <1>11 DEF VotesOK, IInv, TypeOK
  <2> QED
    BY <1>10, <1>11, <2>1 DEF VotesOK
<1>14. ListsOK(g, tasks \cup X, done)
  <2>1. \A x \in tasks : x[1] \in Ids /\ x[1] # m
    BY <1>6, <1>11 DEF ListsOK, IInv, TypeOK
  <2>2. \A x \in tasks \cup X : g[x[1]] # None
    <3>1. \A x \in X : x[1] = m
      BY DEF X
    <3> QED
      BY <1>1, <1>2, <1>10, <1>11, <2>1, <3>1 DEF ListsOK
  <2>3. ASSUME NEW n \in Ids, g[n] # None, g[n].kind = "list"
        PROVE  Cardinality(InList(tasks \cup X, n)) \in 1..MaxTasks
    <3>1. CASE n = m
      <4>1. InList(tasks \cup X, n) = T
        <5>1. \A t \in Tasks : <<n, t>> \notin tasks
          BY <2>1, <3>1
        <5> QED
          BY <1>4, <3>1, <5>1 DEF InList
      <4>2. T # {} /\ Cardinality(T) <= MaxTasks
        BY <1>5, <1>10, <2>3, <3>1
      <4>3. Cardinality(T) \in Nat /\ Cardinality(T) # 0
        BY <4>2, SomeTasksFinite, FS_EmptySet
      <4> QED
        BY <4>1, <4>2, <4>3, ChatAssumption
    <3>2. CASE n # m
      <4>1. InList(tasks \cup X, n) = InList(tasks, n)
        BY <1>4, <3>2 DEF InList
      <4> QED
        BY <1>10, <1>11, <2>3, <3>2, <4>1 DEF ListsOK
    <3> QED
      BY <3>1, <3>2
  <2> QED
    BY <1>11, <2>2, <2>3 DEF ListsOK
<1> QED
  BY <1>12, <1>13, <1>14

LEMMA OnMessagesSound ==
  ASSUME IInv, SoundInv, NEW s \in Sessions, NEW u \in Users, OnMessages(s, u)
  PROVE  SoundInv'
<1>1. CASE PostMessage(s, u)
  BY <1>1, SaySound DEF PostMessage
<1>2. ASSUME NEW content \in Contents, PostPoll(s, u, content) PROVE SoundInv'
  BY <1>2, SaySound DEF PostPoll
<1>3. ASSUME NEW T \in SUBSET Tasks, PostList(s, u, T) PROVE SoundInv'
  BY <1>3, SaySound DEF PostList
<1>4. ASSUME NEW m \in Ids, Stage(s, [Nothing EXCEPT !.read = Touch(u, m)]) PROVE SoundInv'
  <2> DEFINE p == [Nothing EXCEPT !.read = Touch(u, m)]
  <2>1. p \in Plan
    BY DEF Nothing, Plan, Touch, Marks
  <2>2. /\ p.at = None /\ p.bury = {} /\ p.pin = {} /\ p.unpin = {} /\ p.vote = {} /\ p.unvote = {}
        /\ p.task = {} /\ p.strike = {} /\ p.tick = {} /\ p.untick = {}
    BY DEF Nothing
  <2>3. Begin(s, p)
    BY <1>4 DEF Stage
  <2> HIDE DEF p
  <2> QED
    BY <2>1, <2>2, <2>3, AsideSound
<1>5. CASE MarkAllRead(s, u)
  BY <1>4, <1>5 DEF MarkAllRead, Live
<1>6. ASSUME NEW m \in Ids, MarkRead(s, u, m) PROVE SoundInv'
  BY <1>4, <1>6 DEF MarkRead
<1>7. ASSUME NEW m \in Ids, DeleteMessage(s, u, m) PROVE SoundInv'
  <2> DEFINE p == [Nothing EXCEPT !.bury = {m}, !.unpin = {m} \cap pins]
  <2>1. p \in Plan
    BY DEF Nothing, Plan
  <2>2. /\ p.at = None /\ p.bury = {m} /\ p.pin = {} /\ p.unpin = {m} \cap pins
        /\ p.vote = {} /\ p.unvote = {}
        /\ p.task = {} /\ p.strike = {} /\ p.tick = {} /\ p.untick = {}
    BY DEF Nothing
  <2>3. Begin(s, p)
    BY <1>7 DEF DeleteMessage, Stage
  <2> HIDE DEF p
  <2>4. /\ (pins \ p.unpin) \cup p.pin = pins \ {m} /\ (votes \ p.unvote) \cup p.vote = votes
        /\ (tasks \cup p.task) \ p.strike = tasks
        /\ (done \cup p.tick) \ (p.untick \cup p.strike) = done
    BY <2>2
  <2>5. PinsOK(msg, pins) => PinsOK(msg, pins \ {m})
    <3>1. pins \in SUBSET Ids /\ pins \ {m} \in SUBSET pins /\ pins \ {m} \in SUBSET Ids
      BY DEF IInv, TypeOK
    <3>2. Cardinality(pins \ {m}) <= Cardinality(pins) /\ Cardinality(pins) \in Nat /\ Cardinality(pins \ {m}) \in Nat
      BY <3>1, SomePinsFinite, FS_Subset
    <3> QED
      BY <3>1, <3>2, ChatAssumption DEF PinsOK
  <2> QED
    BY <2>1, <2>2, <2>3, <2>4, <2>5, QuietSound
<1>8. ASSUME NEW m \in Ids, Pin(s, u, m) PROVE SoundInv'
  <2> DEFINE p == [Nothing EXCEPT !.pin = {m}]
  <2>1. p \in Plan
    BY DEF Nothing, Plan
  <2>2. /\ p.at = None /\ p.bury = {} /\ p.pin = {m} /\ p.unpin = {}
        /\ p.vote = {} /\ p.unvote = {}
        /\ p.task = {} /\ p.strike = {} /\ p.tick = {} /\ p.untick = {}
    BY DEF Nothing
  <2>3. Begin(s, p) /\ m \in Live \ pins /\ Cardinality(pins) < MaxPins
    BY <1>8 DEF Pin, Stage
  <2> HIDE DEF p
  <2>4. /\ (pins \ p.unpin) \cup p.pin = pins \cup {m} /\ (votes \ p.unvote) \cup p.vote = votes
        /\ (tasks \cup p.task) \ p.strike = tasks
        /\ (done \cup p.tick) \ (p.untick \cup p.strike) = done
    BY <2>2
  <2>5. PinsOK(msg, pins) => PinsOK(msg, pins \cup {m})
    <3>1. IsFiniteSet(pins) /\ Cardinality(pins) \in Nat
      BY SomePinsFinite DEF IInv, TypeOK
    <3>2. Cardinality(pins \cup {m}) = Cardinality(pins) + 1
      BY <2>3, <3>1, FS_AddElement
    <3> QED
      BY <2>3, <3>1, <3>2, ChatAssumption DEF PinsOK, Live
  <2> QED
    BY <2>1, <2>2, <2>3, <2>4, <2>5, QuietSound
<1>9. ASSUME NEW m \in Ids, Unpin(s, u, m) PROVE SoundInv'
  <2> DEFINE p == [Nothing EXCEPT !.unpin = {m}]
  <2>1. p \in Plan
    BY DEF Nothing, Plan
  <2>2. /\ p.at = None /\ p.bury = {} /\ p.pin = {} /\ p.unpin = {m}
        /\ p.vote = {} /\ p.unvote = {}
        /\ p.task = {} /\ p.strike = {} /\ p.tick = {} /\ p.untick = {}
    BY DEF Nothing
  <2>3. Begin(s, p)
    BY <1>9 DEF Unpin, Stage
  <2> HIDE DEF p
  <2>4. /\ (pins \ p.unpin) \cup p.pin = pins \ {m} /\ (votes \ p.unvote) \cup p.vote = votes
        /\ (tasks \cup p.task) \ p.strike = tasks
        /\ (done \cup p.tick) \ (p.untick \cup p.strike) = done
    BY <2>2
  <2>5. PinsOK(msg, pins) => PinsOK(msg, pins \ {m})
    <3>1. pins \in SUBSET Ids /\ pins \ {m} \in SUBSET pins /\ pins \ {m} \in SUBSET Ids
      BY DEF IInv, TypeOK
    <3>2. Cardinality(pins \ {m}) <= Cardinality(pins) /\ Cardinality(pins) \in Nat /\ Cardinality(pins \ {m}) \in Nat
      BY <3>1, SomePinsFinite, FS_Subset
    <3> QED
      BY <3>1, <3>2, ChatAssumption DEF PinsOK
  <2> QED
    BY <2>1, <2>2, <2>3, <2>4, <2>5, QuietSound
<1> QED
  BY <1>1, <1>2, <1>3, <1>5, <1>6, <1>7, <1>8, <1>9 DEF OnMessages

LEMMA OnMembersSound ==
  ASSUME IInv, SoundInv, NEW s \in Sessions, NEW u \in Users, OnMembers(s, u)
  PROVE  SoundInv'
<1>1. ASSUME NEW p \in Plan, Begin(s, p), p.at = None, p.bury = {}, p.pin = {}, p.unpin = {},
             p.vote = {}, p.unvote = {}, p.task = {}, p.strike = {}, p.tick = {}, p.untick = {}
      PROVE  SoundInv'
  BY <1>1, AsideSound
<1>2. ASSUME NEW J \in SUBSET Users, Begin(s, [Nothing EXCEPT !.join = J]) PROVE SoundInv'
  <2> DEFINE p == [Nothing EXCEPT !.join = J]
  <2>1. /\ p \in Plan /\ p.at = None /\ p.bury = {} /\ p.pin = {} /\ p.unpin = {} /\ p.vote = {}
        /\ p.unvote = {} /\ p.task = {} /\ p.strike = {} /\ p.tick = {} /\ p.untick = {}
    BY DEF Nothing, Plan
  <2> QED
    BY <1>1, <1>2, <2>1
<1>3. CASE Enter(s, u) \/ \E S \in SUBSET Users : AddMembers(s, u, S)
  BY <1>2, <1>3 DEF Enter, AddMembers, Stage
<1>4. ASSUME NEW v \in Users, RemoveMember(s, u, v) PROVE SoundInv'
  <2> DEFINE L == {v}
             F == {w \in {v} : mark[w] # 0}
             p == [Nothing EXCEPT !.leave = L, !.forget = F]
  <2>1. Begin(s, p) /\ F \in SUBSET Users /\ L \in SUBSET Users
    BY <1>4 DEF RemoveMember, Stage
  <2> HIDE DEF F, L
  <2>2. /\ p \in Plan /\ p.at = None /\ p.bury = {} /\ p.pin = {} /\ p.unpin = {} /\ p.vote = {}
        /\ p.unvote = {} /\ p.task = {} /\ p.strike = {} /\ p.tick = {} /\ p.untick = {}
    BY <2>1 DEF Nothing, Plan
  <2> HIDE DEF p
  <2> QED
    BY <1>1, <2>1, <2>2
<1>5. CASE DeleteGroup(s, u)
  <2> DEFINE p == [Nothing EXCEPT !.drop = TRUE]
  <2>1. /\ p \in Plan /\ p.at = None /\ p.bury = {} /\ p.pin = {} /\ p.unpin = {} /\ p.vote = {}
        /\ p.unvote = {} /\ p.task = {} /\ p.strike = {} /\ p.tick = {} /\ p.untick = {}
    BY DEF Nothing, Plan
  <2> QED
    BY <1>1, <1>5, <2>1 DEF DeleteGroup, Stage
<1> QED
  BY <1>3, <1>4, <1>5 DEF OnMembers

\* A plan about votes only.
LEMMA BallotSound ==
  ASSUME IInv, SoundInv, NEW s \in Sessions, NEW p \in Plan, Begin(s, p), p.at = None, p.bury = {},
         p.pin = {}, p.unpin = {}, p.task = {}, p.strike = {}, p.tick = {}, p.untick = {},
         VotesOK(msg, votes) => VotesOK(msg, (votes \ p.unvote) \cup p.vote)
  PROVE  SoundInv'
<1>1. /\ (pins \ p.unpin) \cup p.pin = pins
      /\ (tasks \cup p.task) \ p.strike = tasks /\ (done \cup p.tick) \ (p.untick \cup p.strike) = done
  OBVIOUS
<1> QED
  BY <1>1, QuietSound

\* A plan about the tasks of lists only.
LEMMA ListingSound ==
  ASSUME IInv, SoundInv, NEW s \in Sessions, NEW p \in Plan, Begin(s, p), p.at = None, p.bury = {},
         p.pin = {}, p.unpin = {}, p.vote = {}, p.unvote = {},
         ListsOK(msg, tasks, done) =>
           ListsOK(msg, (tasks \cup p.task) \ p.strike, (done \cup p.tick) \ (p.untick \cup p.strike))
  PROVE  SoundInv'
<1>1. (pins \ p.unpin) \cup p.pin = pins /\ (votes \ p.unvote) \cup p.vote = votes
  OBVIOUS
<1> QED
  BY <1>1, QuietSound

LEMMA OnBoardsSound ==
  ASSUME IInv, SoundInv, NEW s \in Sessions, NEW u \in Users, OnBoards(s, u)
  PROVE  SoundInv'
<1>0. /\ votes \in SUBSET (Ids \X Users \X Options) /\ tasks \in SUBSET (Ids \X Tasks)
      /\ done \in SUBSET (Ids \X Tasks)
  BY DEF IInv, TypeOK
<1>1. ASSUME NEW m \in Ids, NEW o \in Options, Vote(s, u, m, o) PROVE SoundInv'
  <2> DEFINE v == <<m, u, o>>
             B == {v}
             W == VotesOf(m, u)
  <2>1. B \in SUBSET (Ids \X Users \X Options) /\ W \in SUBSET (Ids \X Users \X Options)
    BY <1>0 DEF VotesOf
  <2>2. v[1] = m /\ v[2] = u /\ \A w : w \in W <=> w \in votes /\ w[1] = m /\ w[2] = u
    BY DEF VotesOf
  <2>3. msg[m] # None
    BY <1>1 DEF Vote, Of
  <2>4. CASE msg[m].kind = "single"
    <3> DEFINE p == [Nothing EXCEPT !.vote = B, !.unvote = W]
    <3>1. Begin(s, p)
      BY <1>1, <2>4 DEF Vote, Stage
    <3> HIDE DEF v, W, B
    <3>2. VotesOK(msg, votes) => VotesOK(msg, (votes \ W) \cup B)
      BY <2>2, <2>3 DEF VotesOK, B
    <3>3. /\ p \in Plan /\ p.at = None /\ p.bury = {} /\ p.pin = {} /\ p.unpin = {}
          /\ p.vote = B /\ p.unvote = W /\ p.task = {} /\ p.strike = {} /\ p.tick = {} /\ p.untick = {}
      BY <2>1 DEF Nothing, Plan
    <3> HIDE DEF p
    <3> QED
      BY <3>1, <3>2, <3>3, BallotSound
  <2>5. CASE msg[m].kind # "single" /\ v \in votes
    <3> DEFINE p == [Nothing EXCEPT !.unvote = B]
    <3>1. Begin(s, p)
      BY <1>1, <2>5 DEF Vote, Stage
    <3> HIDE DEF v, B
    <3>2. VotesOK(msg, votes) => VotesOK(msg, (votes \ B) \cup {})
      BY DEF VotesOK
    <3>3. /\ p \in Plan /\ p.at = None /\ p.bury = {} /\ p.pin = {} /\ p.unpin = {}
          /\ p.vote = {} /\ p.unvote = B /\ p.task = {} /\ p.strike = {} /\ p.tick = {} /\ p.untick = {}
      BY <2>1 DEF Nothing, Plan
    <3> HIDE DEF p
    <3> QED
      BY <3>1, <3>2, <3>3, BallotSound
  <2>6. CASE msg[m].kind # "single" /\ v \notin votes
    <3> DEFINE p == [Nothing EXCEPT !.vote = B]
    <3>1. Begin(s, p)
      BY <1>1, <2>6 DEF Vote, Stage
    <3> HIDE DEF v, B
    <3>2. VotesOK(msg, votes) => VotesOK(msg, (votes \ {}) \cup B)
      BY <2>2, <2>3, <2>6 DEF VotesOK, B
    <3>3. /\ p \in Plan /\ p.at = None /\ p.bury = {} /\ p.pin = {} /\ p.unpin = {}
          /\ p.vote = B /\ p.unvote = {} /\ p.task = {} /\ p.strike = {} /\ p.tick = {} /\ p.untick = {}
      BY <2>1 DEF Nothing, Plan
    <3> HIDE DEF p
    <3> QED
      BY <3>1, <3>2, <3>3, BallotSound
  <2> QED
    BY <2>4, <2>5, <2>6
<1>2. ASSUME NEW m \in Ids, ClosePoll(s, u, m) PROVE SoundInv'
  <2> DEFINE p == [Nothing EXCEPT !.shut = {m}]
  <2>1. p \in Plan
    BY DEF Nothing, Plan
  <2>2. /\ p.at = None /\ p.bury = {} /\ p.pin = {} /\ p.unpin = {} /\ p.vote = {} /\ p.unvote = {}
        /\ p.task = {} /\ p.strike = {} /\ p.tick = {} /\ p.untick = {}
    BY DEF Nothing
  <2>3. Begin(s, p)
    BY <1>2 DEF ClosePoll, Stage
  <2> HIDE DEF p
  <2> QED
    BY <2>1, <2>2, <2>3, AsideSound
<1>3. ASSUME NEW m \in Ids, NEW t \in Tasks, Append(s, u, m, t) PROVE SoundInv'
  <2> DEFINE x == <<m, t>>
             X == {x}
             K == tasks \cup X
             p == [Nothing EXCEPT !.task = X]
  <2>1. X \in SUBSET (Ids \X Tasks) /\ x[1] = m /\ \A q \in Tasks, n \in Ids : <<n, q>> = x <=> n = m /\ q = t
    OBVIOUS
  <2>2. /\ msg[m] # None /\ Cardinality(TasksOf(m)) < MaxTasks
        /\ Begin(s, p)
    BY <1>3 DEF Append, Open, Live
  <2> HIDE DEF X
  <2>3. /\ p \in Plan /\ p.at = None /\ p.bury = {} /\ p.pin = {} /\ p.unpin = {} /\ p.vote = {}
        /\ p.unvote = {} /\ p.task = X /\ p.strike = {} /\ p.tick = {} /\ p.untick = {}
    BY <2>1 DEF Nothing, Plan
  <2> HIDE DEF x, p
  <2> USE DEF X
  <2>4. ListsOK(msg, tasks, done) => ListsOK(msg, K, done)
    <3> SUFFICES ASSUME ListsOK(msg, tasks, done), NEW n \in Ids, msg[n] # None, msg[n].kind = "list"
                 PROVE  Cardinality(InList(K, n)) \in 1..MaxTasks
      BY <2>1, <2>2 DEF ListsOK
    <3>1. Cardinality(InList(tasks, n)) \in 1..MaxTasks
      BY DEF ListsOK
    <3>2. CASE n = m
      <4>1. InList(K, n) = InList(tasks, n) \cup {t} /\ InList(tasks, n) = TasksOf(m)
        BY <2>1, <3>2 DEF InList, TasksOf
      <4>2. IsFiniteSet(InList(tasks, n))
        BY SomeTasksFinite DEF InList
      <4> QED
        <5>1. Cardinality(InList(tasks, n)) \in Nat /\ Cardinality(InList(tasks, n)) < MaxTasks
          BY <2>2, <3>1, <4>1
        <5>2. \/ Cardinality(InList(K, n)) = Cardinality(InList(tasks, n))
              \/ Cardinality(InList(K, n)) = Cardinality(InList(tasks, n)) + 1
          BY <4>1, <4>2, FS_AddElement
        <5> QED
          BY <3>1, <5>1, <5>2, ChatAssumption
    <3>3. CASE n # m
      <4>1. InList(K, n) = InList(tasks, n)
        BY <2>1, <3>3 DEF InList
      <4> QED
        BY <3>1, <4>1
    <3> QED
      BY <3>2, <3>3
  <2>5. K = (tasks \cup p.task) \ p.strike /\ done = (done \cup p.tick) \ (p.untick \cup p.strike)
    BY <2>3
  <2> HIDE DEF K, X
  <2> QED
    BY <2>2, <2>3, <2>4, <2>5, ListingSound
<1>4. ASSUME NEW m \in Ids, NEW t \in Tasks, Toggle(s, u, <<m, t>>) PROVE SoundInv'
  <2> DEFINE x == <<m, t>>
             X == {x}
  <2>1. X \in SUBSET (Ids \X Tasks) /\ X \subseteq tasks
    BY <1>4 DEF Toggle
  <2>2. CASE x \in done
    <3> DEFINE p == [Nothing EXCEPT !.untick = X]
    <3>1. Begin(s, p)
      BY <1>4, <2>2 DEF Toggle, Stage
    <3> HIDE DEF x, X
    <3>2. /\ p \in Plan /\ p.at = None /\ p.bury = {} /\ p.pin = {} /\ p.unpin = {} /\ p.vote = {}
          /\ p.unvote = {} /\ p.task = {} /\ p.strike = {} /\ p.untick = X /\ p.tick = {}
      BY <2>1 DEF Nothing, Plan
    <3> HIDE DEF p
    <3>3. /\ (tasks \cup p.task) \ p.strike = tasks
          /\ (done \cup p.tick) \ (p.untick \cup p.strike) = done \ X
      BY <3>2
    <3>4. ListsOK(msg, tasks, done) => ListsOK(msg, tasks, done \ X)
      BY <2>1 DEF ListsOK
    <3> QED
      BY <3>1, <3>2, <3>3, <3>4, ListingSound
  <2>3. CASE x \notin done
    <3> DEFINE p == [Nothing EXCEPT !.tick = X]
    <3>1. Begin(s, p)
      BY <1>4, <2>3 DEF Toggle, Stage
    <3> HIDE DEF x, X
    <3>2. /\ p \in Plan /\ p.at = None /\ p.bury = {} /\ p.pin = {} /\ p.unpin = {} /\ p.vote = {}
          /\ p.unvote = {} /\ p.task = {} /\ p.strike = {} /\ p.tick = X /\ p.untick = {}
      BY <2>1 DEF Nothing, Plan
    <3> HIDE DEF p
    <3>3. /\ (tasks \cup p.task) \ p.strike = tasks
          /\ (done \cup p.tick) \ (p.untick \cup p.strike) = done \cup X
      BY <3>2
    <3>4. ListsOK(msg, tasks, done) => ListsOK(msg, tasks, done \cup X)
      BY <2>1 DEF ListsOK
    <3> QED
      BY <3>1, <3>2, <3>3, <3>4, ListingSound
  <2> QED
    BY <2>2, <2>3
<1>5. ASSUME NEW m \in Ids, NEW t \in Tasks, RemoveTask(s, u, <<m, t>>) PROVE SoundInv'
  <2> DEFINE x == <<m, t>>
             X == {x}
             K == tasks \ X
             D == done \ X
             p == [Nothing EXCEPT !.strike = X]
  <2>1. X \in SUBSET (Ids \X Tasks) /\ \A q \in Tasks, n \in Ids : <<n, q>> = x <=> n = m /\ q = t
    OBVIOUS
  <2>2. x \in tasks /\ Cardinality(TasksOf(m)) > 1 /\ Begin(s, p)
    BY <1>5 DEF RemoveTask, Stage
  <2> HIDE DEF X
  <2>3. /\ p \in Plan /\ p.at = None /\ p.bury = {} /\ p.pin = {} /\ p.unpin = {} /\ p.vote = {}
        /\ p.unvote = {} /\ p.task = {} /\ p.strike = X /\ p.tick = {} /\ p.untick = {}
    BY <2>1 DEF Nothing, Plan
  <2> HIDE DEF x, p
  <2> USE DEF X
  <2>4. ListsOK(msg, tasks, done) => ListsOK(msg, K, D)
    <3> SUFFICES ASSUME ListsOK(msg, tasks, done), NEW n \in Ids, msg[n] # None, msg[n].kind = "list"
                 PROVE  Cardinality(InList(K, n)) \in 1..MaxTasks
      BY DEF ListsOK
    <3>1. Cardinality(InList(tasks, n)) \in 1..MaxTasks
      BY DEF ListsOK
    <3>2. CASE n = m
      <4>1. InList(K, n) = InList(tasks, n) \ {t} /\ InList(tasks, n) = TasksOf(m) /\ t \in InList(tasks, n)
        BY <2>1, <2>2, <3>2 DEF InList, TasksOf, x
      <4>2. IsFiniteSet(InList(tasks, n))
        BY SomeTasksFinite DEF InList
      <4> QED
        <5>1. Cardinality(InList(tasks, n)) \in Nat /\ Cardinality(InList(tasks, n)) > 1
          BY <2>2, <3>1, <4>1
        <5>2. Cardinality(InList(K, n)) = Cardinality(InList(tasks, n)) - 1
          BY <4>1, <4>2, FS_RemoveElement
        <5> QED
          BY <3>1, <5>1, <5>2, ChatAssumption
    <3>3. CASE n # m
      <4>1. InList(K, n) = InList(tasks, n)
        BY <2>1, <3>3 DEF InList
      <4> QED
        BY <3>1, <4>1
    <3> QED
      BY <3>2, <3>3
  <2>5. K = (tasks \cup p.task) \ p.strike /\ D = (done \cup p.tick) \ (p.untick \cup p.strike)
    BY <2>3
  <2> HIDE DEF K, D, X
  <2> QED
    BY <2>2, <2>3, <2>4, <2>5, ListingSound
<1> QED
  BY <1>1, <1>2, <1>3, <1>4, <1>5 DEF OnBoards

\* The only plan is carried out on the tables it was made from; a room that is
\* deleted leaves them empty.
LEMMA CommitSound ==
  ASSUME IInv, SoundInv, NEW s \in Sessions, Commit(s)
  PROVE  SoundInv'
<1> SUFFICES ASSUME ~overlapped' PROVE SoundInv'
  BY DEF SoundInv
<1> DEFINE p == session[s]
<1>1. /\ p # None /\ p \in Plan /\ ~overlapped
      /\ session' = [session EXCEPT ![s] = None]
  BY DEF Commit, IInv, TypeOK
<1>2. \A t \in Sessions : session'[t] = None
  BY <1>1 DEF IInv, TypeOK
<1>3. Promise(p)
  BY <1>1 DEF SoundInv
<1> SUFFICES PinsOK(msg', pins') /\ VotesOK(msg', votes') /\ ListsOK(msg', tasks', done')
  BY <1>2 DEF SoundInv, PinsOK, VotesOK, ListsOK, InList
<1>4. CASE p.drop
  <2>1. /\ pins' = {} /\ votes' = {} /\ tasks' = {} /\ done' = {}
        /\ \A m \in Ids : msg'[m] = None
    BY <1>4 DEF Commit
  <2> QED
    BY <2>1, FS_EmptySet, ChatAssumption DEF PinsOK, VotesOK, ListsOK
<1>5. CASE ~p.drop
  <2>1. /\ pins' = (pins \ p.unpin) \cup p.pin /\ votes' = (votes \ p.unvote) \cup p.vote
        /\ tasks' = (tasks \cup p.task) \ p.strike
        /\ done' = (done \cup p.tick) \ (p.untick \cup p.strike)
    BY <1>5 DEF Commit
  <2>2. msg' = MsgAfter(p)
    BY <1>5 DEF Commit, MsgAfter
  <2> QED
    BY <1>3, <1>5, <2>1, <2>2 DEF Promise
<1> QED
  BY <1>4, <1>5

LEMMA NextSound == IInv /\ SoundInv /\ [Next]_vars => SoundInv'
<1> SUFFICES ASSUME IInv, SoundInv, [Next]_vars PROVE SoundInv'
  OBVIOUS
<1>1. ASSUME UNCHANGED <<msg, pins, votes, tasks, done, overlapped>>,
             \A t \in Sessions : session'[t] = session[t] \/ session'[t] = None
      PROVE  SoundInv'
  <2> SUFFICES ASSUME ~overlapped' PROVE SoundInv'
    BY DEF SoundInv
  <2>1. (PinsOK(msg, pins) /\ VotesOK(msg, votes) /\ ListsOK(msg, tasks, done))'
    BY <1>1 DEF SoundInv, PinsOK, VotesOK, ListsOK, InList
  <2>2. ASSUME NEW t \in Sessions, session'[t] # None PROVE Promise(session[t])'
    <3>1. session'[t] = session[t] /\ Promise(session[t])
      BY <1>1, <2>2 DEF SoundInv
    <3>2. MsgAfter(session[t])' = MsgAfter(session[t])
      BY <1>1, <3>1 DEF MsgAfter
    <3> QED
      BY <1>1, <3>1, <3>2 DEF Promise, PinsOK, VotesOK, ListsOK, InList
  <2> QED
    BY <2>1, <2>2 DEF SoundInv
<1>2. CASE UNCHANGED vars
  BY <1>1, <1>2 DEF vars, said, boards
<1>3. ASSUME NEW s \in Sessions, NEW u \in Users, OnMessages(s, u) \/ OnMembers(s, u) \/ OnBoards(s, u)
      PROVE  SoundInv'
  BY <1>3, OnMessagesSound, OnMembersSound, OnBoardsSound
<1>4. ASSUME NEW s \in Sessions, Commit(s) PROVE SoundInv'
  BY <1>4, CommitSound
<1>5. ASSUME NEW s \in Sessions, Abort(s) PROVE SoundInv'
  <2>1. /\ UNCHANGED <<msg, pins, votes, tasks, done, overlapped>>
        /\ session' = [session EXCEPT ![s] = None]
    BY <1>5 DEF Abort, said, boards
  <2> QED
    BY <1>1, <2>1 DEF IInv, TypeOK
<1> QED
  BY <1>2, <1>3, <1>4, <1>5 DEF Next

LEMMA SoundInductive == Spec => [](IInv /\ SoundInv)
<1>1. Init => IInv /\ SoundInv
  <2>1. ASSUME Init PROVE PinsOK(msg, pins) /\ VotesOK(msg, votes) /\ ListsOK(msg, tasks, done)
    BY <2>1, FS_EmptySet, ChatAssumption DEF Init, PinsOK, VotesOK, ListsOK
  <2>2. Init => \A s \in Sessions : session[s] = None
    BY DEF Init
  <2> QED
    BY <2>1, <2>2, InitIInv DEF SoundInv
<1> QED
  BY <1>1, NextIInv, NextSound, PTL DEF Spec

\* As long as no handlers overlapped, pins show messages that were not deleted,
\* and no more of them than the limit.
THEOREM PinsStayLive == Spec => []PinsShowMessages
<1>1. SoundInv => PinsShowMessages
  BY DEF SoundInv, PinsOK, PinsShowMessages, Live
<1> QED
  BY <1>1, SoundInductive, PTL

\* As long as no handlers overlapped, nobody has two votes where there is one
\* choice, every list has tasks, not too many, and only these are ticked.
THEOREM BoardsStaySound == Spec => []BoardsAreSound
<1>1. IInv /\ SoundInv => BoardsAreSound
  <2> SUFFICES ASSUME IInv, SoundInv, ~overlapped PROVE BoardsAreSound
    BY DEF BoardsAreSound
  <2>1. VotesOK(msg, votes) /\ ListsOK(msg, tasks, done)
    BY DEF SoundInv
  <2>2. ASSUME NEW m \in Of({"single"}), NEW u \in Users PROVE Cardinality(VotesOf(m, u)) <= 1
    <3>1. msg[m].kind = "single"
      BY DEF Of
    <3>2. \A v, w \in VotesOf(m, u) : v = w
      BY <2>1, <3>1 DEF VotesOK, VotesOf
    <3>3. VotesOf(m, u) = {} \/ \E v : VotesOf(m, u) = {v}
      BY <3>2
    <3> QED
      <4>1. CASE VotesOf(m, u) = {}
        BY <4>1, FS_EmptySet
      <4>2. ASSUME NEW v, VotesOf(m, u) = {v} PROVE Cardinality(VotesOf(m, u)) <= 1
        <5>1. Cardinality({v}) = 1
          BY FS_Singleton
        <5> QED
          BY <4>2, <5>1
      <4> QED
        BY <3>3, <4>1, <4>2
  <2>3. ASSUME NEW m \in Of({"list"}) PROVE Cardinality(TasksOf(m)) \in 1..MaxTasks
    BY <2>1 DEF ListsOK, InList, TasksOf, Of
  <2> QED
    BY <2>1, <2>2, <2>3 DEF BoardsAreSound, ListsOK
<1> QED
  BY <1>1, SoundInductive, PTL
=============================================================================
