------------------------- MODULE CachedViews_proofs -------------------------
(***************************************************************************)
(* Proofs about one request at a time, with or without the caches: the     *)
(* handlers that run statement by statement implement the atomic ones of   *)
(* TaskWorkflow, and a stale answer of a cache has one of the known        *)
(* reasons.                                                                *)
(***************************************************************************)
EXTENDS CachedViews, TaskViews_proofs, TaskRequests_proofs

-----------------------------------------------------------------------------
(* What a request knows: the checks it has made hold of the rows as they    *)
(* are now, and what it remembers of them is what they say.                 *)

StillHolds(q, x) ==
  LET t == q.task
  IN  CASE x = "task"        -> TaskCheck(q, task[t])
        [] x = "application" -> ApplicationCheck(q, application[t][q.developer])
        [] x = "accepted"    -> application[t][q.developer] # "ACCEPTED"
        [] x = "invite"      -> InviteCheck(q, invite[t][q.developer])
        [] x = "thread"      -> thread[t] = NoDeveloper
        [] x = "dispute"     -> DisputeCheck(q, OpenDisputes(t))
        [] x = "report"      -> taskReport[t][q.choice[1]] = "OPEN"
        [] x = "project"     ->
             IF q.op = "PublishTask"
             THEN task[t].project # NoProject => HasRoom(project[task[t].project])
             ELSE MayUseProject(q.project)

\* The columns a remembered row is used for.
Agrees(row, now) ==
  /\ row.project = now.project /\ row.accepted = now.accepted
  /\ row.rejectionCount = now.rejectionCount /\ Live(row) = Live(now)

Remembering == {"PublishTask", "GetThreadByTaskId", "RejectCompletion", "ResolveTaskReport"}

RemembersRight(q, x) ==
  LET t == q.task
  IN  /\ x \in {"task", "report"} /\ q.op \in Remembering => Agrees(q.row, task[t])
      /\ x = "application" /\ Starts(q) => q.app = application[t][q.developer]
      /\ x = "dispute" => q.found = LatestOpen(t)

Known(q, x) == StillHolds(q, x) /\ RemembersRight(q, x)

\* After the commit of an accept, the developer has the task.
HasTheTask(q) ==
  /\ task[q.task].accepted = q.developer /\ task[q.task].status = "IN_PROGRESS"
  /\ Starts(q)

Sound(q) ==
  /\ q.reads = <<"chat">> => HasTheTask(q)
  /\ q.reads # <<"chat">> => \A x \in RowsRead(q.op) \ Columns(q.reads) : Known(q, x)
  /\ q.op = "PublishTask" => q.reads \in {<<"task", "project">>, <<"project">>, << >>}

-----------------------------------------------------------------------------
(* A read adds to what is known *)

\* The fields that say what was asked decide what a check asks for.
LEMMA SameAsked ==
  ASSUME NEW q, NEW n, NEW x \in Rows,
         n.op = q.op, n.task = q.task, n.developer = q.developer,
         n.project = q.project, n.choice = q.choice, StillHolds(q, x)
  PROVE  StillHolds(n, x)
  <1>1. TaskCheck(q, task[q.task]) => TaskCheck(n, task[n.task])
    BY DEF TaskCheck
  <1>2. ApplicationCheck(q, application[q.task][q.developer]) =>
          ApplicationCheck(n, application[n.task][n.developer])
    BY DEF ApplicationCheck
  <1>3. InviteCheck(q, invite[q.task][q.developer]) =>
          InviteCheck(n, invite[n.task][n.developer])
    BY DEF InviteCheck
  <1>4. DisputeCheck(q, OpenDisputes(q.task)) => DisputeCheck(n, OpenDisputes(n.task))
    BY DEF DisputeCheck
  <1>5. MayUseProject(q.project) => MayUseProject(n.project)
    OBVIOUS
  <1> QED
    BY <1>1, <1>2, <1>3, <1>4, <1>5 DEF StillHolds, Rows

LEMMA StaysRemembered ==
  ASSUME NEW q, NEW x, RemembersRight(q, x), NEW n,
         n.op = q.op, n.task = q.task, n.developer = q.developer,
         n.row \in {q.row, task[q.task]},
         n.app = q.app \/ n.app = application[q.task][q.developer],
         n.found \in {q.found, LatestOpen(q.task)}
  PROVE  RemembersRight(n, x)
  <1>1. Agrees(q.row, task[q.task]) => Agrees(n.row, task[q.task])
    BY DEF Agrees
  <1> QED
    BY <1>1 DEF RemembersRight, Starts

\* What the read just made has shown.
LEMMA NewlyRead ==
  ASSUME NEW q, Fits(q), Sound(q), q.reads \notin {<< >>, <<"chat">>}, Check(q)
  PROVE  StillHolds(q, Head(q.reads))
  <1>1. CASE q.op = "PublishTask" /\ Head(q.reads) = "project"
    <2>1. q.reads = <<"project">>
      BY <1>1 DEF Sound
    <2>2. "task" \in RowsRead(q.op) \ Columns(q.reads)
      BY <1>1, <2>1, RowsOfDrafts, ColumnsOfTuple
    <2>3. q.row.project = task[q.task].project
      BY <1>1, <2>2 DEF Sound, Known, RemembersRight, Remembering, Agrees
    <2>4. q.row.project # NoProject => HasRoom(project[q.row.project])
      BY <1>1 DEF Check, ProjectCheck
    <2> QED
      BY <1>1, <2>3, <2>4 DEF StillHolds
  <1>2. CASE q.op # "PublishTask" /\ Head(q.reads) = "project"
    BY <1>2 DEF Check, ProjectCheck, StillHolds
  <1>3. CASE Head(q.reads) # "project"
    <2>1. q.reads \in Seq(Rows)
      BY DEF Fits, RequestRow
    <2>2. Head(q.reads) \in Rows
      BY <2>1
    <2> QED
      BY <1>3, <2>2 DEF Check, StillHolds, Rows
  <1> QED
    BY <1>1, <1>2, <1>3

LEMMA ReadSound ==
  ASSUME NEW q, Fits(q), Sound(q), q.reads \notin {<< >>, <<"chat">>}, Check(q),
         NEW n, n = AfterRead(q)
  PROVE  Sound(n)
  <1>1. q.reads \in Seq(Rows)
    BY DEF Fits, RequestRow
  <1>2. /\ n.op = q.op /\ n.task = q.task /\ n.developer = q.developer
        /\ n.project = q.project /\ n.choice = q.choice /\ n.reads = Tail(q.reads)
        /\ n.row = IF Head(q.reads) \in {"task", "report"} THEN task[q.task] ELSE q.row
        /\ n.app = IF Head(q.reads) = "application" /\ Starts(q)
                   THEN application[q.task][q.developer] ELSE q.app
        /\ n.found = IF Head(q.reads) = "dispute" THEN LatestOpen(q.task) ELSE q.found
    BY ReadEffect DEF Fits
  <1>3. n.reads \in Seq(Rows) /\ n.reads # <<"chat">>
    <2>1. Tail(q.reads) \in Seq(Rows)
      BY <1>1
    <2> QED
      BY <1>2, <2>1, ChatIsNoRead
  <1>4. ASSUME NEW x \in RowsRead(n.op) \ Columns(n.reads) PROVE Known(n, x)
    <2>1. CASE x = Head(q.reads)
      <3>1. x \in Rows
        BY <1>1, <2>1
      <3>2. StillHolds(n, x)
        BY <1>2, <2>1, <3>1, NewlyRead, SameAsked
      <3>3. Agrees(task[q.task], task[q.task])
        BY DEF Agrees
      <3>4. RemembersRight(n, x)
        BY <1>2, <2>1, <3>3 DEF RemembersRight, Starts
      <3> QED
        BY <3>2, <3>4 DEF Known
    <2>2. CASE x # Head(q.reads)
      <3>1. x \in RowsRead(q.op) \ Columns(q.reads)
        BY <1>1, <1>2, <2>2, ColumnsOfTail
      <3>2. Known(q, x)
        BY <3>1 DEF Sound
      <3>3. StillHolds(n, x)
        <4>1. x \in Rows
          BY <3>1, RowsReadAreRows DEF Fits, RequestRow
        <4> QED
          BY <1>2, <3>2, <4>1, SameAsked DEF Known
      <3>4. RemembersRight(n, x)
        BY <1>2, <3>2, StaysRemembered DEF Known
      <3> QED
        BY <3>3, <3>4 DEF Known
    <2> QED
      BY <2>1, <2>2
  <1>5. ASSUME n.op = "PublishTask" PROVE n.reads \in {<<"task", "project">>, <<"project">>, << >>}
    <2>1. q.reads \in {<<"task", "project">>, <<"project">>}
      BY <1>2, <1>5 DEF Sound
    <2>2. Tail(<<"task", "project">>) = <<"project">> /\ Tail(<<"project">>) = << >>
      OBVIOUS
    <2> QED
      BY <1>2, <2>1, <2>2
  <1> QED
    BY <1>3, <1>4, <1>5 DEF Sound

\* Nothing has been read of a request that has not begun.
LEMMA BeginSound ==
  ASSUME NEW q, q.reads = Reads[q.op], q.op \in DOMAIN Reads
  PROVE  Sound(q)
  <1>1. q.reads # <<"chat">>
    BY ReadsType, ChatIsNoRead
  <1>2. RowsRead(q.op) \ Columns(q.reads) = {}
    BY DEF RowsRead
  <1>3. Reads["PublishTask"] = <<"task", "project">>
    BY DEF Reads
  <1> QED
    BY <1>1, <1>2, <1>3 DEF Sound

-----------------------------------------------------------------------------
(* What may happen behind the back of a single request: the clock, and a    *)
(* new project.                                                             *)

LEMMA SoundUnchanged ==
  ASSUME NEW q, Sound(q), UNCHANGED vars
  PROVE  Sound(q)'
  <1>1. UNCHANGED <<task, application, invite, dispute, thread, taskReport, project>>
    BY DEF vars, taskTables, hiringTables, projectTables
  <1>2. ASSUME NEW x, Known(q, x) PROVE Known(q, x)'
    <2>1. StillHolds(q, x)'
      BY <1>1, <1>2 DEF Known, StillHolds, OpenDisputes, MayUseProject
    <2>2. RemembersRight(q, x)'
      BY <1>1, <1>2 DEF Known, RemembersRight, LatestOpen, OpenDisputes
    <2> QED
      BY <2>1, <2>2 DEF Known
  <1> QED
    BY <1>1, <1>2 DEF Sound, HasTheTask

\* A row as the clock may leave it.
Later(row, old) ==
  /\ row.status = old.status /\ row.accepted = old.accepted /\ row.deleted = old.deleted
  /\ row.rejectionCount = old.rejectionCount /\ row.project = old.project
  /\ old.deadline = "passed" => row.deadline = "passed"

LEMMA ClockTick ==
  ASSUME TypeOK, NEW t \in Tasks, ResponseDeadlinePasses(t)
  PROVE  \A u \in Tasks : Later(task'[u], task[u])
  <1>1. task[t] \in TaskRow
    BY DEF TypeOK
  <1>2. task'[t] = [task[t] EXCEPT !.deadline = "passed"]
        /\ \A u \in Tasks \ {t} : task'[u] = task[u]
    BY DEF TypeOK, ResponseDeadlinePasses
  <1>3. Later(task'[t], task[t])
    BY <1>1, <1>2 DEF Later, TaskRow
  <1>4. \A u \in Tasks \ {t} : Later(task'[u], task[u])
    BY <1>2 DEF Later
  <1> QED
    BY <1>3, <1>4

LEMMA LaterCheck ==
  ASSUME NEW q, q.op \in TaskReaders, NEW row, NEW old, Later(row, old), TaskCheck(q, old)
  PROVE  TaskCheck(q, row)
  <1>1. Live(row) = Live(old)
    BY DEF Later, Live
  <1>2. /\ MayUpdateDraft(old) => MayUpdateDraft(row)
        /\ MayPublish(old) => MayPublish(row)
        /\ MayClose(old) => MayClose(row)
        /\ MayDelete(old) => MayDelete(row)
        /\ MayApply(old) => MayApply(row)
        /\ MayStart(old) => MayStart(row)
        /\ MayInvite(old) => MayInvite(row)
        /\ MayCreateThread(old) => MayCreateThread(row)
        /\ MayRequestCompletion(old, q.developer) => MayRequestCompletion(row, q.developer)
    BY <1>1 DEF Later, MayUpdateDraft, MayPublish, MayClose, MayDelete, MayApply, MayStart,
       MayInvite, MayCreateThread, MayRequestCompletion
  <1>3. /\ MayAnswerCompletion(old) => MayAnswerCompletion(row)
        /\ MayOpenDispute(old) => MayOpenDispute(row)
        /\ MayEscalate(old, q.developer) => MayEscalate(row, q.developer)
        /\ MayReview(old) => MayReview(row)
    BY <1>1 DEF Later, MayAnswerCompletion, MayOpenDispute, MayEscalate, MayReview
  <1>4. CASE q.op \in {"UpdateTaskDraft", "PublishTask", "CloseTask", "DeleteTask"}
    BY <1>2, <1>4 DEF TaskCheck
  <1>5. CASE q.op \in {"ApplyToTask", "AcceptApplication", "CreateTaskInvite", "AcceptInvite",
                       "GetThreadByTaskId", "RequestCompletion"}
    BY <1>2, <1>5 DEF TaskCheck
  <1>6. CASE q.op \in {"RejectCompletion", "ConfirmCompletion", "OpenDispute",
                       "EscalateDispute", "ResolveDispute", "CreateReview", "ReportTask"}
    BY <1>1, <1>3, <1>6 DEF TaskCheck
  <1> QED
    BY <1>4, <1>5, <1>6, TaskReadersAre

\* The clock takes no answer back.
LEMMA ClockSound ==
  ASSUME TypeOK, NEW t \in Tasks, ResponseDeadlinePasses(t), NEW q, Fits(q), Sound(q)
  PROVE  Sound(q)'
  <1>1. UNCHANGED <<application, invite, dispute, thread, taskReport, project>>
    BY DEF ResponseDeadlinePasses, taskTables, hiringTables, projectTables
  <1>2. ASSUME q.task \in Tasks PROVE Later(task'[q.task], task[q.task])
    BY <1>2, ClockTick
  <1>3. q.op \in DOMAIN Reads /\ (q.op \notin OnlyAProject => q.task \in Tasks)
    BY DEF Fits, RequestRow, Named
  <1>4. ASSUME NEW x \in RowsRead(q.op), Known(q, x) PROVE Known(q, x)'
    <2>1. x \in Rows
      BY <1>3, RowsReadAreRows
    <2>2. x \in {"task", "report"} \/ q.op = "PublishTask" => q.task \in Tasks
      BY <1>3, RowsOfDrafts DEF OnlyAProject
    <2>3. CASE x = "task"
      <3>1. q.op \in TaskReaders
        BY <1>3, <2>3 DEF TaskReaders
      <3>2. TaskCheck(q, task'[q.task])
        BY <1>2, <1>4, <2>2, <2>3, <3>1, LaterCheck DEF Known, StillHolds
      <3>3. StillHolds(q, x)'
        BY <2>3, <3>2 DEF StillHolds
      <3>4. RemembersRight(q, x)'
        BY <1>2, <1>4, <2>2, <2>3
           DEF Known, RemembersRight, Agrees, Later, Live
      <3> QED
        BY <3>3, <3>4 DEF Known
    <2>4. CASE x = "project"
      <3>1. StillHolds(q, x)'
        BY <1>1, <1>2, <1>4, <2>2, <2>4 DEF Known, StillHolds, Later, MayUseProject
      <3> QED
        BY <2>4, <3>1 DEF Known, RemembersRight
    <2>5. CASE x = "report"
      <3>1. StillHolds(q, x)'
        BY <1>1, <1>4, <2>5 DEF Known, StillHolds
      <3>2. RemembersRight(q, x)'
        BY <1>2, <1>4, <2>2, <2>5 DEF Known, RemembersRight, Agrees, Later, Live
      <3> QED
        BY <3>1, <3>2 DEF Known
    <2>6. CASE x \in Rows \ {"task", "project", "report"}
      <3>1. StillHolds(q, x)'
        BY <1>1, <1>4, <2>6 DEF Known, StillHolds, OpenDisputes, Rows
      <3>2. RemembersRight(q, x)'
        BY <1>1, <1>4, <2>6 DEF Known, RemembersRight, LatestOpen, OpenDisputes
      <3> QED
        BY <3>1, <3>2 DEF Known
    <2> QED
      BY <2>1, <2>3, <2>4, <2>5, <2>6
  <1>5. ASSUME HasTheTask(q) PROVE HasTheTask(q)'
    <2>1. q.task \in Tasks
      BY <1>3, <1>5 DEF HasTheTask, Starts, OnlyAProject
    <2> QED
      BY <1>2, <1>5, <2>1 DEF HasTheTask, Later
  <1> QED
    BY <1>4, <1>5 DEF Sound

\* A project that is created is neither the one a client named, which was live, nor
\* the one a task is in, which has a row.
LEMMA NewProjectSound ==
  ASSUME EmptyInv, NEW p \in Projects, NEW limit, CreateProject(p, limit),
         NEW q, Fits(q), Sound(q)
  PROVE  Sound(q)'
  <1>1. UNCHANGED <<task, application, invite, dispute, thread, taskReport>>
    BY DEF CreateProject, taskTables, hiringTables
  <1>2. /\ project[p].state = "ABSENT"
        /\ \A x \in Projects \ {p} : project'[x] = project[x]
    BY DEF CreateProject, EmptyInv, TypeOK
  <1>3. q.op \in DOMAIN Reads /\ (q.op \notin OnlyAProject => q.task \in Tasks)
        /\ q.project \in Projects \cup {NoProject}
    BY DEF Fits, RequestRow, Named
  <1>4. ASSUME NEW x \in RowsRead(q.op), Known(q, x) PROVE Known(q, x)'
    <2>1. x \in Rows
      BY <1>3, RowsReadAreRows
    <2>2. CASE x = "project" /\ q.op = "PublishTask"
      <3>1. q.task \in Tasks /\ task[q.task].project \in Projects \cup {NoProject}
        BY <1>3, <2>2 DEF OnlyAProject, EmptyInv, TypeOK, TaskRow
      <3>2. task[q.task].project # p
        BY <1>2, <3>1 DEF EmptyInv
      <3>3. task[q.task].project # NoProject => HasRoom(project'[task[q.task].project])
        BY <1>2, <1>4, <2>2, <3>1, <3>2 DEF Known, StillHolds
      <3>4. StillHolds(q, x)'
        BY <1>1, <2>2, <3>3 DEF StillHolds
      <3> QED
        BY <2>2, <3>4 DEF Known, RemembersRight
    <2>3. CASE x = "project" /\ q.op # "PublishTask"
      <3>1. MayUseProject(q.project)
        BY <1>4, <2>3 DEF Known, StillHolds
      <3>2. MayUseProject(q.project)'
        BY <1>2, <1>3, <3>1 DEF MayUseProject, LiveProject
      <3>3. StillHolds(q, x)'
        BY <2>3, <3>2 DEF StillHolds
      <3> QED
        BY <2>3, <3>3 DEF Known, RemembersRight
    <2>4. CASE x # "project"
      <3>1. StillHolds(q, x)'
        BY <1>1, <1>4, <2>1, <2>4 DEF Known, StillHolds, OpenDisputes, Rows
      <3>2. RemembersRight(q, x)'
        BY <1>1, <1>4 DEF Known, RemembersRight, LatestOpen, OpenDisputes
      <3> QED
        BY <3>1, <3>2 DEF Known
    <2> QED
      BY <2>2, <2>3, <2>4
  <1> QED
    BY <1>1, <1>4 DEF Sound, HasTheTask

-----------------------------------------------------------------------------
(* The writes of a request are the atomic handler of TaskWorkflow *)

SerialHiring(q) ==
  LET t == q.task  d == q.developer
  IN  \/ q.op = "ApplyToTask"       /\ ApplyToTask(t, d)
      \/ q.op = "AcceptApplication" /\ AcceptApplication(t, d) /\ UNCHANGED thread
      \/ q.op = "RejectApplication" /\ RejectApplication(t, d)
      \/ q.op = "CreateTaskInvite"  /\ CreateTaskInvite(t, d)
      \/ q.op = "AcceptInvite"      /\ AcceptInvite(t, d) /\ UNCHANGED thread
      \/ q.op = "DeclineInvite"     /\ DeclineInvite(t, d)
      \/ q.op = "CancelInvite"      /\ CancelInvite(t, d)
      \/ /\ q.op = "GetThreadByTaskId" /\ GetThreadByTaskId(t)
         /\ q.row.accepted = task[t].accepted

SerialDraft(q) ==
  LET t == q.task
  IN  \/ q.op = "CreateTaskDraft"   /\ CreateTaskDraft(t, q.project)
      \/ q.op = "UpdateTaskDraft"   /\ UpdateTaskDraft(t, q.project)
      \/ q.op = "PublishTask"       /\ PublishTask(t)
      \/ q.op = "CloseTask"         /\ CloseTask(t)
      \/ q.op = "DeleteTask"        /\ DeleteTask(t)
      \/ q.op = "ReportTask"        /\ ReportTask(t, q.choice)
      \/ q.op = "ResolveTaskReport" /\ ResolveTaskReport(t, q.choice[1], q.choice[2])
      \/ q.op = "UpdateProject"     /\ UpdateProject(q.project, q.choice)
      \/ q.op = "DeleteProject"     /\ DeleteProject(q.project)

SerialWork(q) ==
  LET t == q.task
  IN  \/ q.op = "RequestCompletion" /\ RequestTaskCompletion(t, q.developer)
      \/ q.op = "RejectCompletion"  /\ RejectTaskCompletion(t)
      \/ q.op = "ConfirmCompletion" /\ ConfirmTaskCompletion(t)
      \/ q.op = "OpenDispute"       /\ OpenTaskDispute(t)
      \/ q.op = "EscalateDispute"   /\ EscalateTaskCompletionDispute(t, q.developer)
      \/ q.op = "ResolveDispute"    /\ ResolveTaskDispute(t, q.choice)
      \/ q.op = "CreateReview"      /\ CreateReview(t, q.choice)

Serial(q) == SerialHiring(q) \/ SerialDraft(q) \/ SerialWork(q)

LEMMA AllRead ==
  ASSUME NEW q, Sound(q), q.reads = << >>, NEW x \in RowsRead(q.op)
  PROVE  Known(q, x)
  <1>1. Columns(<< >>) = {} /\ << >> # <<"chat">>
    BY ColumnsOfTuple
  <1> QED
    BY <1>1 DEF Sound

LEMMA HiringIsSerial ==
  ASSUME NEW q, Sound(q), q.reads = << >>, HiringWrites(q)
  PROVE  SerialHiring(q)
  <1> USE RowsOfHiring, AllRead DEF Known, StillHolds
  <1>1. CASE q.op = "ApplyToTask"
    BY <1>1 DEF HiringWrites, SerialHiring, TaskCheck, ApplyToTask
  <1>2. CASE q.op = "AcceptApplication"
    BY <1>2 DEF HiringWrites, SerialHiring, TaskCheck, ApplicationCheck, RemembersRight,
       Starts, AcceptApplication, ThreadAfterStart
  <1>3. CASE q.op = "RejectApplication"
    BY <1>3 DEF HiringWrites, SerialHiring, ApplicationCheck, RejectApplication
  <1>4. CASE q.op = "CreateTaskInvite"
    BY <1>4 DEF HiringWrites, SerialHiring, TaskCheck, ApplicationCheck, InviteCheck,
       MayBeInvited, CreateTaskInvite
  <1>5. CASE q.op = "AcceptInvite"
    BY <1>5 DEF HiringWrites, SerialHiring, TaskCheck, InviteCheck, RemembersRight,
       Starts, AcceptInvite, ThreadAfterStart
  <1>6. CASE q.op = "DeclineInvite"
    BY <1>6 DEF HiringWrites, SerialHiring, InviteCheck, DeclineInvite
  <1>7. CASE q.op = "CancelInvite"
    BY <1>7 DEF HiringWrites, SerialHiring, InviteCheck, CancelInvite
  <1>8. CASE q.op = "GetThreadByTaskId"
    BY <1>8 DEF HiringWrites, SerialHiring, TaskCheck, RemembersRight, Remembering, Agrees,
       GetThreadByTaskId
  <1> QED
    BY <1>1, <1>2, <1>3, <1>4, <1>5, <1>6, <1>7, <1>8 DEF HiringWrites

LEMMA DraftIsSerial ==
  ASSUME NEW q, Fits(q), Sound(q), q.reads = << >>, DraftWrites(q)
  PROVE  SerialDraft(q)
  <1> USE RowsOfDrafts, AllRead DEF Known, StillHolds
  <1>1. CASE q.op = "CreateTaskDraft"
    BY <1>1 DEF DraftWrites, SerialDraft, CreateTaskDraft
  <1>2. CASE q.op = "UpdateTaskDraft"
    BY <1>2 DEF DraftWrites, SerialDraft, TaskCheck, UpdateTaskDraft
  <1>3. CASE q.op = "PublishTask"
    BY <1>3 DEF DraftWrites, SerialDraft, TaskCheck, RemembersRight, Remembering, Agrees,
       PublishTask
  <1>4. CASE q.op = "CloseTask"
    BY <1>4 DEF DraftWrites, SerialDraft, TaskCheck, CloseTask
  <1>5. CASE q.op = "DeleteTask"
    BY <1>5 DEF DraftWrites, SerialDraft, TaskCheck, DeleteTask
  <1>6. CASE q.op = "ReportTask"
    BY <1>6 DEF DraftWrites, SerialDraft, TaskCheck, ReportTask
  <1>7. CASE q.op = "ResolveTaskReport"
    BY <1>7 DEF DraftWrites, SerialDraft, RemembersRight, Remembering, Agrees,
       ResolveTaskReport, ResolveTaskReportWrite
  <1>8. CASE q.op \in OnlyAProject
    <2>1. q.project # NoProject
      BY <1>8, ConstantsAssumption DEF Fits, Named
    <2> QED
      BY <1>8, <2>1 DEF DraftWrites, SerialDraft, OnlyAProject, MayUseProject, UpdateProject,
         DeleteProject
  <1> QED
    BY <1>1, <1>2, <1>3, <1>4, <1>5, <1>6, <1>7, <1>8 DEF DraftWrites, OnlyAProject

LEMMA WorkIsSerial ==
  ASSUME NEW q, Sound(q), q.reads = << >>, WorkWrites(q)
  PROVE  SerialWork(q)
  <1> USE RowsOfWork, AllRead DEF Known, StillHolds
  <1>1. CASE q.op = "RequestCompletion"
    BY <1>1 DEF WorkWrites, SerialWork, TaskCheck, RequestTaskCompletion
  <1>2. CASE q.op = "RejectCompletion"
    BY <1>2 DEF WorkWrites, SerialWork, TaskCheck, RemembersRight, Remembering, Agrees,
       RejectTaskCompletion
  <1>3. CASE q.op = "ConfirmCompletion"
    BY <1>3 DEF WorkWrites, SerialWork, TaskCheck, RemembersRight, ConfirmTaskCompletion
  <1>4. CASE q.op = "OpenDispute"
    BY <1>4 DEF WorkWrites, SerialWork, TaskCheck, DisputeCheck, OpenTaskDispute
  <1>5. CASE q.op = "EscalateDispute"
    BY <1>5 DEF WorkWrites, SerialWork, TaskCheck, DisputeCheck, EscalateTaskCompletionDispute
  <1>6. CASE q.op = "ResolveDispute"
    BY <1>6 DEF WorkWrites, SerialWork, TaskCheck, DisputeCheck, RemembersRight,
       ResolveTaskDispute
  <1>7. CASE q.op = "CreateReview"
    BY <1>7 DEF WorkWrites, SerialWork, TaskCheck, CreateReview
  <1> QED
    BY <1>1, <1>2, <1>3, <1>4, <1>5, <1>6, <1>7 DEF WorkWrites

LEMMA SerialIsNext ==
  ASSUME NEW q, Fits(q), Serial(q)
  PROVE  Next
  <1>1. /\ q.op \notin OnlyAProject => q.task \in Tasks
        /\ q.op \in OnlyAProject => q.project \in Projects
        /\ q.op \in AboutDeveloper => q.developer \in Developers
        /\ q.op \in WithAChoice \cup OnlyAProject => q.choice \in Choices(q.op)
        /\ q.project \in Projects \cup {NoProject}
    BY DEF Fits, Named, RequestRow
  <1>2. CASE SerialHiring(q)
    <2>1. CASE q.op = "GetThreadByTaskId"
      BY <1>1, <1>2, <2>1 DEF SerialHiring, OnlyAProject, WorkStep, Next
    <2>2. CASE q.op # "GetThreadByTaskId"
      <3>1. q.op \in AboutDeveloper /\ q.op \notin OnlyAProject
        BY <1>2, <2>2 DEF SerialHiring, AboutDeveloper, OnlyAProject
      <3>2. HiringStep(q.task)
        BY <1>1, <1>2, <2>2, <3>1 DEF SerialHiring, HiringStep
      <3> QED
        BY <1>1, <3>1, <3>2 DEF Next
    <2> QED
      BY <2>1, <2>2
  <1>3. CASE SerialDraft(q)
    <2>1. CASE q.op \in {"CreateTaskDraft", "UpdateTaskDraft", "PublishTask", "CloseTask",
                         "DeleteTask"}
      <3>1. DraftStep(q.task)
        BY <1>1, <1>3, <2>1 DEF SerialDraft, DraftStep
      <3> QED
        BY <1>1, <2>1, <3>1 DEF Next, OnlyAProject
    <2>2. CASE q.op = "ReportTask"
      <3>1. q.choice \in Reporters
        BY <1>1, <2>2 DEF WithAChoice, Choices
      <3>2. TaskReportStep(q.task)
        BY <1>3, <2>2, <3>1 DEF SerialDraft, TaskReportStep
      <3> QED
        BY <1>1, <2>2, <3>2 DEF Next, OnlyAProject
    <2>3. CASE q.op = "ResolveTaskReport"
      <3>1. q.choice \in Reporters \X ReportAction
        BY <1>1, <2>3 DEF WithAChoice, Choices
      <3>2. TaskReportStep(q.task)
        BY <1>3, <2>3, <3>1 DEF SerialDraft, TaskReportStep
      <3> QED
        BY <1>1, <2>3, <3>2 DEF Next, OnlyAProject
    <2>4. CASE q.op = "UpdateProject"
      <3>1. q.choice \in TalentLimits /\ q.project \in Projects
        BY <1>1, <2>4 DEF WithAChoice, OnlyAProject, Choices
      <3>2. ProjectStep(q.project)
        BY <1>3, <2>4, <3>1 DEF SerialDraft, ProjectStep
      <3> QED
        BY <3>1, <3>2 DEF Next
    <2>5. CASE q.op = "DeleteProject"
      <3>1. q.project \in Projects
        BY <1>1, <2>5 DEF OnlyAProject
      <3>2. ProjectStep(q.project)
        BY <1>3, <2>5 DEF SerialDraft, ProjectStep
      <3> QED
        BY <3>1, <3>2 DEF Next
    <2> QED
      BY <1>3, <2>1, <2>2, <2>3, <2>4, <2>5 DEF SerialDraft
  <1>4. CASE SerialWork(q)
    <2>0. q.task \in Tasks
      BY <1>1, <1>4 DEF SerialWork, OnlyAProject
    <2>1. CASE q.op \in {"RequestCompletion", "RejectCompletion", "ConfirmCompletion"}
      <3>1. q.op = "RequestCompletion" => q.developer \in Developers
        BY <1>1 DEF AboutDeveloper
      <3>2. WorkStep(q.task)
        BY <1>4, <2>1, <3>1 DEF SerialWork, WorkStep
      <3> QED
        BY <2>0, <3>2 DEF Next
    <2>2. CASE q.op = "CreateReview"
      <3>1. q.choice \in Persona
        BY <1>1, <2>2 DEF WithAChoice, Choices
      <3>2. WorkStep(q.task)
        BY <1>4, <2>2, <3>1 DEF SerialWork, WorkStep
      <3> QED
        BY <2>0, <3>2 DEF Next
    <2>3. CASE q.op \in {"OpenDispute", "EscalateDispute", "ResolveDispute"}
      <3>1. q.op = "EscalateDispute" => q.developer \in Developers
        BY <1>1 DEF AboutDeveloper
      <3>2. q.op = "ResolveDispute" => q.choice \in ResolutionAction
        BY <1>1 DEF WithAChoice, Choices
      <3>3. DisputeStep(q.task)
        BY <1>4, <2>3, <3>1, <3>2 DEF SerialWork, DisputeStep
      <3> QED
        BY <2>0, <3>3 DEF Next
    <2> QED
      BY <1>4, <2>1, <2>2, <2>3 DEF SerialWork
  <1> QED
    BY <1>2, <1>3, <1>4 DEF Serial

\* The thread that an accept still has to create is the one a visit of the chat would.
LEMMA ThreadIsNext ==
  ASSUME IInv, NEW q, Fits(q), HasTheTask(q), GetOrCreateChatThread(q.task, q.developer),
         UNCHANGED <<task, taskTables, application, invite, told, projectTables>>
  PROVE  Next \/ UNCHANGED vars
  <1>1. q.task \in Tasks /\ q.developer \in Developers
    BY DEF HasTheTask, Starts, Fits, Named, OnlyAProject, AboutDeveloper
  <1>2. CASE thread[q.task] = NoDeveloper
    <2>1. MayCreateThread(task[q.task])
      BY <1>1, ConstantsAssumption
         DEF HasTheTask, IInv, TaskOK, RowOK, MayCreateThread, Live
    <2>2. GetThreadByTaskId(q.task)
      BY <1>2, <2>1 DEF GetThreadByTaskId, HasTheTask
    <2> QED
      BY <1>1, <2>2 DEF WorkStep, Next
  <1>3. CASE thread[q.task] # NoDeveloper
    <2>1. thread' = thread
      BY <1>3 DEF GetOrCreateChatThread, IInv, TypeOK
    <2> QED
      BY <2>1 DEF vars, hiringTables
  <1> QED
    BY <1>2, <1>3

-----------------------------------------------------------------------------
(* One request at a time *)

AllSound == \A r \in Requests : req[r] # Idle => Sound(req[r])

SerialInv == IInv /\ EmptyInv /\ AllSound

\* An accept that has committed has the task.
LEMMA StartHasTheTask ==
  ASSUME TypeOK, NEW q, Fits(q), SerialHiring(q), Starts(q), NEW n,
         n.op = q.op, n.task = q.task, n.developer = q.developer
  PROVE  HasTheTask(n)'
  <1>1. q.task \in Tasks /\ q.developer \in Developers
    BY DEF Starts, Fits, Named, OnlyAProject, AboutDeveloper
  <1>2. task' = [task EXCEPT ![q.task] =
                   [task[q.task] EXCEPT !.status = "IN_PROGRESS", !.accepted = q.developer]]
    BY DEF SerialHiring, Starts, AcceptApplication, AcceptApplicationWrite, AcceptInvite,
       AcceptInviteWrite, StartWrite
  <1>3. task[q.task] \in TaskRow /\ task'[q.task] =
          [task[q.task] EXCEPT !.status = "IN_PROGRESS", !.accepted = q.developer]
    BY <1>1, <1>2 DEF TypeOK
  <1> QED
    BY <1>3 DEF HasTheTask, Starts, TaskRow

LEMMA SerialReadStep ==
  ASSUME SerialInv, UNCHANGED vars, NEW r \in Requests, Requests = {r}, DOMAIN req = Requests,
         NEW q, Fits(q), Sound(q), q.reads \notin {<< >>, <<"chat">>}, Check(q),
         Goes(r, AfterRead(q))
  PROVE  AllSound'
  <1> PICK n : n = AfterRead(q)
    OBVIOUS
  <1>1. Sound(n)
    BY ReadSound
  <1>2. Sound(n)'
    BY <1>1, SoundUnchanged
  <1>3. req'[r] = n
    BY DEF Goes
  <1> QED
    BY <1>2, <1>3 DEF AllSound

LEMMA CommitStep ==
  ASSUME SerialInv, NEW r \in Requests, Requests = {r}, DOMAIN req = Requests, Fits(req[r]),
         Commit(r)
  PROVE  Serial(req[r]) /\ Next /\ AllSound'
  <1> PICK q : q = req[r]
    OBVIOUS
  <1>1. Fits(q) /\ Sound(q) /\ q.reads = << >>
    BY DEF Commit, SerialInv, AllSound
  <1>2. Serial(q)
    BY <1>1, HiringIsSerial, DraftIsSerial, WorkIsSerial DEF Commit, Serial
  <1>3. AllSound'
    <2>1. CASE Starts(q)
      <3> PICK n : n = [q EXCEPT !.reads = <<"chat">>, !.app = "NONE"]
        OBVIOUS
      <3>1. /\ n.op = q.op /\ n.task = q.task /\ n.developer = q.developer
            /\ n.reads = <<"chat">>
        BY <1>1 DEF Fits, RequestRow
      <3>2. SerialHiring(q)
        BY <1>2, <2>1 DEF Serial, Starts, SerialDraft, SerialWork
      <3>3. HasTheTask(n)'
        BY <1>1, <2>1, <3>1, <3>2, StartHasTheTask DEF SerialInv, IInv
      <3>4. Sound(n)'
        BY <2>1, <3>1, <3>3 DEF Sound, Starts
      <3>5. req'[r] = n
        BY <2>1 DEF Commit, Goes
      <3> QED
        BY <3>4, <3>5 DEF AllSound
    <2>2. CASE ~Starts(q)
      <3>1. req'[r] = Idle
        BY <2>2 DEF Commit, Goes
      <3> QED
        BY <3>1 DEF AllSound
    <2> QED
      BY <2>1, <2>2
  <1> QED
    BY <1>1, <1>2, <1>3, SerialIsNext

\* With one request in flight, a step of its handler is its atomic counterpart or
\* changes no row, and what it knows stays right.
LEMMA OneRequestStep ==
  ASSUME NEW r \in Requests, Requests = {r}, OverlapInv, SerialInv, [RequestsNext]_reqVars
  PROVE  (Next \/ UNCHANGED vars) /\ AllSound'
  <1>0. /\ DOMAIN req = Requests /\ (req[r] # Idle => Fits(req[r]) /\ Sound(req[r]))
        /\ group \in Groups
    BY DEF OverlapInv, RInv, SerialInv, AllSound
  <1>1. CASE UNCHANGED reqVars
    <2>1. req[r] # Idle => Sound(req[r])'
      <3> PICK q : q = req[r]
        OBVIOUS
      <3> QED
        BY <1>0, <1>1, SoundUnchanged DEF reqVars
    <2> QED
      BY <1>1, <2>1 DEF reqVars, AllSound
  <1>2. CASE Begin(r)
    <2> PICK q \in Possible : Check(q) /\ Goes(r, AfterRead(q))
      BY <1>2 DEF Begin
    <2>1. Fits(q) /\ q.reads = Reads[q.op] /\ q.reads \notin {<< >>, <<"chat">>}
      BY PossibleFits DEF OverlapInv
    <2>2. Sound(q)
      BY <2>1, BeginSound DEF Fits, RequestRow
    <2>3. UNCHANGED vars
      BY <1>2 DEF Begin
    <2> QED
      BY <1>0, <2>1, <2>2, <2>3, SerialReadStep
  <1>3. CASE Read(r)
    <2> PICK q : q = req[r]
      OBVIOUS
    <2>1. /\ Fits(q) /\ Sound(q) /\ q.reads \notin {<< >>, <<"chat">>}
          /\ Check(q) /\ Goes(r, AfterRead(q)) /\ UNCHANGED vars
      BY <1>0, <1>3 DEF Read
    <2> QED
      BY <1>0, <2>1, SerialReadStep
  <1>4. CASE Commit(r)
    BY <1>0, <1>4, CommitStep DEF Commit
  <1>5. CASE CreateThread(r)
    <2>1. Next \/ UNCHANGED vars
      <3> PICK q : q = req[r]
        OBVIOUS
      <3>1. /\ Fits(q) /\ HasTheTask(q) /\ GetOrCreateChatThread(q.task, q.developer)
            /\ UNCHANGED <<task, taskTables, application, invite, told, projectTables>>
        BY <1>0, <1>5 DEF CreateThread, Sound
      <3> QED
        BY <3>1, ThreadIsNext DEF SerialInv
    <2>2. req'[r] = Idle
      BY <1>0, <1>5 DEF CreateThread, Goes
    <2> QED
      BY <2>1, <2>2 DEF AllSound
  <1>6. CASE GiveUp(r)
    <2>1. req'[r] = Idle /\ UNCHANGED vars
      BY <1>0, <1>6 DEF GiveUp, Goes
    <2> QED
      BY <2>1 DEF AllSound
  <1>7. CASE Background
    <2>0. UNCHANGED req
      BY <1>7 DEF Background
    <2>1. CASE \E t \in Tasks : ResponseDeadlinePasses(t)
      <3> PICK t \in Tasks : ResponseDeadlinePasses(t)
        BY <2>1
      <3>1. Next
        BY DEF WorkStep, Next
      <3>2. req[r] # Idle => Sound(req[r])'
        <4> PICK q : q = req[r]
          OBVIOUS
        <4> QED
          BY <1>0, <2>0, ClockSound DEF SerialInv, IInv
      <3> QED
        BY <2>0, <3>1, <3>2 DEF AllSound
    <2>2. CASE \E p \in group.projects, limit \in TalentLimits : CreateProject(p, limit)
      <3> PICK p \in group.projects, limit \in TalentLimits : CreateProject(p, limit)
        BY <2>2
      <3>0. p \in Projects
        BY <1>0, GroupsAssumption
      <3>1. Next
        BY <3>0 DEF ProjectStep, Next
      <3>2. req[r] # Idle => Sound(req[r])'
        <4> PICK q : q = req[r]
          OBVIOUS
        <4> QED
          BY <1>0, <2>0, <3>0, NewProjectSound DEF SerialInv
      <3> QED
        BY <2>0, <3>1, <3>2 DEF AllSound
    <2> QED
      BY <1>7, <2>1, <2>2 DEF Background
  <1> QED
    BY <1>1, <1>2, <1>3, <1>4, <1>5, <1>6, <1>7 DEF RequestsNext

LEMMA SerialInvStep ==
  ASSUME NEW r \in Requests, Requests = {r}, OverlapInv, SerialInv, [RequestsNext]_reqVars
  PROVE  SerialInv' /\ [Next]_vars
  <1>1. [Next]_vars /\ AllSound'
    BY OneRequestStep
  <1> QED
    BY <1>1, NextIInv, NextEmpty DEF SerialInv

LEMMA SerialInvariance ==
  ASSUME NEW r \in Requests, Requests = {r}
  PROVE  RequestsSpec => []SerialInv
  <1>1. RequestsInit => SerialInv
    BY InitIInv, InitEmpty DEF RequestsInit, SerialInv, AllSound
  <1>2. OverlapInv /\ SerialInv /\ [RequestsNext]_reqVars => SerialInv'
    BY SerialInvStep
  <1> QED
    BY <1>1, <1>2, OverlapInvariance, PTL DEF RequestsSpec

\* With one request at a time the handlers that run statement by statement, and may end
\* early after any of them, do what the atomic handlers of TaskWorkflow do: whatever is
\* proved of those holds of these.
THEOREM OneRequestIsSerial ==
  ASSUME NEW r \in Requests, Requests = {r}
  PROVE  RequestsSpec => ImplementsSerial
  <1>1. RequestsInit => Init
    BY DEF RequestsInit
  <1>2. OverlapInv /\ SerialInv /\ [RequestsNext]_reqVars => [Next]_vars
    BY SerialInvStep
  <1> QED
    BY <1>1, <1>2, OverlapInvariance, SerialInvariance, PTL
       DEF RequestsSpec, ImplementsSerial, Spec

-----------------------------------------------------------------------------
(* The caches change nothing for the handlers *)

LEMMA CacheStepIsRequestStep == CachedNext => RequestsNext \/ UNCHANGED reqVars
  <1>1. HandlerStep => RequestsNext
    BY DEF HandlerStep, RequestsNext, Background
  <1>2. CacheStep => UNCHANGED reqVars
    BY DEF CacheStep, Miss, Store, Invalidate, InvalidationLost, Expires
  <1> QED
    BY <1>1, <1>2 DEF CachedNext

\* A cache is only read from and deleted by the handlers; a failed call of src/cache is
\* caught there, so that the tables see the same requests with it and without.
THEOREM CachesAreInvisible == CachedSpec => RequestsSpec
  <1>1. CachedInit => RequestsInit
    BY DEF CachedInit
  <1>2. [CachedNext]_cachedVars => [RequestsNext]_reqVars
    BY CacheStepIsRequestStep DEF cachedVars
  <1> QED
    BY <1>1, <1>2, PTL DEF CachedSpec, RequestsSpec

\* So one request at a time does what the atomic handlers of TaskWorkflow do whatever
\* the caches of src/cache hold, lose or keep for too long.
THEOREM CachedRequestIsSerial ==
  ASSUME NEW r \in Requests, Requests = {r}
  PROVE  CachedSpec => ImplementsSerial
  BY CachesAreInvisible, OneRequestIsSerial, PTL

-----------------------------------------------------------------------------
(* A commit that neither deletes the key of a list nor is known to be       *)
(* forgotten leaves the answer of the list as it was                       *)

\* The status of one task moves; nothing else that a list shows of a task does.
Moved(t, from, to) ==
  /\ task[t].status \in from /\ task'[t].status \in to
  /\ task'[t].deleted = task[t].deleted
  /\ \A u \in Tasks \ {t} : task'[u] = task[u]

LEMMA StatusMoves ==
  ASSUME TypeOK, NEW t \in Tasks, NEW from, task[t].status \in from, NEW s, NEW to, s \in to,
         NEW n, NEW dl, NEW x,
         \/ task' = [task EXCEPT ![t] = [task[t] EXCEPT !.status = s]]
         \/ task' = [task EXCEPT ![t] = [task[t] EXCEPT !.status = s, !.project = x]]
         \/ task' = [task EXCEPT ![t] = [task[t] EXCEPT !.status = s, !.accepted = x]]
         \/ task' = [task EXCEPT ![t] = [task[t] EXCEPT !.status = s, !.deadline = dl]]
         \/ task' = [task EXCEPT ![t] = [task[t] EXCEPT !.rejectionCount = n, !.deadline = dl,
                                                        !.status = s]]
  PROVE  Moved(t, from, to)
  <1>1. task[t] \in TaskRow
    BY DEF TypeOK
  <1>2. \A u \in Tasks \ {t} : task'[u] = task[u]
    BY DEF TypeOK
  <1>3. \/ task'[t] = [task[t] EXCEPT !.status = s]
        \/ task'[t] = [task[t] EXCEPT !.status = s, !.project = x]
        \/ task'[t] = [task[t] EXCEPT !.status = s, !.accepted = x]
        \/ task'[t] = [task[t] EXCEPT !.status = s, !.deadline = dl]
        \/ task'[t] = [task[t] EXCEPT !.rejectionCount = n, !.deadline = dl, !.status = s]
    BY DEF TypeOK
  <1>4. task'[t].status = s /\ task'[t].deleted = task[t].deleted
    BY <1>1, <1>3 DEF TaskRow
  <1> QED
    BY <1>2, <1>4 DEF Moved

Working == {"IN_PROGRESS", "DISPUTE", "COMPLETION_REQUESTED", "COMPLETED", "FAILED", "DELETED"}

LEMMA WorkMoves ==
  ASSUME IInv, NEW q, q.task \in Tasks, SerialWork(q), q.op # "CreateReview"
  PROVE  Moved(q.task, Working, Working)
  <1> DEFINE t == q.task
  <1>0. TypeOK
    BY DEF IInv
  <1>1. CASE q.op = "RequestCompletion"
    <2>1. /\ task[t].status \in Working
          /\ task' = [task EXCEPT ![t] =
               [task[t] EXCEPT !.status = "COMPLETION_REQUESTED", !.deadline = "running"]]
      BY <1>1 DEF SerialWork, RequestTaskCompletion, MayRequestCompletion,
         RequestCompletionWrite, Working
    <2>2. "COMPLETION_REQUESTED" \in Working
      BY DEF Working
    <2> QED
      BY <1>0, <2>1, <2>2, StatusMoves
  <1>2. CASE q.op = "RejectCompletion"
    <2> DEFINE n == task[t].rejectionCount + 1
    <2>1. /\ task[t].status \in Working
          /\ task' = [task EXCEPT ![t] = [task[t] EXCEPT !.rejectionCount = n,
                        !.deadline = "none", !.status = StatusAfterRejection(n)]]
      BY <1>2 DEF SerialWork, RejectTaskCompletion, MayAnswerCompletion,
         RejectCompletionWrite, Working
    <2>2. StatusAfterRejection(n) \in Working
      BY DEF StatusAfterRejection, Working
    <2> HIDE DEF n
    <2> QED
      BY <1>0, <2>1, <2>2, StatusMoves
  <1>3. CASE q.op = "ConfirmCompletion"
    <2>1. /\ task[t].status \in Working
          /\ task' = [task EXCEPT ![t] =
               [task[t] EXCEPT !.status = "COMPLETED", !.deadline = "none"]]
      BY <1>3 DEF SerialWork, ConfirmTaskCompletion, MayAnswerCompletion, ConfirmWrite, Working
    <2>2. "COMPLETED" \in Working
      BY DEF Working
    <2> QED
      BY <1>0, <2>1, <2>2, StatusMoves
  <1>4. CASE q.op \in {"OpenDispute", "EscalateDispute"}
    <2>1. /\ task[t].status \in Working
          /\ task' = [task EXCEPT ![t] = [task[t] EXCEPT !.status = "DISPUTE"]]
      BY <1>4 DEF SerialWork, OpenTaskDispute, EscalateTaskCompletionDispute, MayOpenDispute,
         MayEscalate, DisputeWrite, Working
    <2>2. "DISPUTE" \in Working
      BY DEF Working
    <2> QED
      BY <1>0, <2>1, <2>2, StatusMoves
  <1>5. CASE q.op = "ResolveDispute"
    <2>1. task[t].status \in Working
      BY <1>5 DEF SerialWork, ResolveTaskDispute, OpenDisputes, IInv, TaskOK, WorkedOK, Working
    <2>2. task' = [task EXCEPT ![t] =
             [task[t] EXCEPT !.status = StatusAfterResolution(q.choice), !.deadline = "none"]]
      BY <1>5 DEF SerialWork, ResolveTaskDispute, ResolveWrite
    <2>3. StatusAfterResolution(q.choice) \in Working
      BY DEF StatusAfterResolution, Working
    <2> QED
      BY <1>0, <2>1, <2>2, <2>3, StatusMoves
  <1> QED
    BY <1>1, <1>2, <1>3, <1>4, <1>5 DEF SerialWork

\* Before it has a developer, or after it was deleted, no thread list shows a task.
Unlisted == {"ABSENT", "DRAFT", "PUBLISHED", "CLOSED", "DELETED"}

LEMMA DraftMoves ==
  ASSUME TypeOK, NEW q, q.task \in Tasks, SerialDraft(q),
         q.op \in {"CreateTaskDraft", "PublishTask", "CloseTask", "DeleteTask"}
  PROVE  /\ task[q.task].status \in Unlisted /\ task'[q.task].status \in Unlisted
         /\ \A u \in Tasks \ {q.task} : task'[u] = task[u]
         /\ q.op = "CreateTaskDraft" => Moved(q.task, {"ABSENT"}, {"DRAFT"})
  <1> DEFINE t == q.task
  <1>0. task[t] \in TaskRow
    BY DEF TypeOK
  <1>1. CASE q.op = "CreateTaskDraft"
    <2>1. /\ task[t].status \in {"ABSENT"}
          /\ task' = [task EXCEPT ![t] =
                        [task[t] EXCEPT !.status = "DRAFT", !.project = q.project]]
      BY <1>1 DEF SerialDraft, CreateTaskDraft, CreateDraftWrite
    <2>2. Moved(t, {"ABSENT"}, {"DRAFT"})
      BY <2>1, StatusMoves
    <2> QED
      BY <1>1, <2>2 DEF Moved, Unlisted
  <1>2. CASE q.op = "PublishTask"
    <2>1. /\ task[t].status \in Unlisted
          /\ task' = [task EXCEPT ![t] = [task[t] EXCEPT !.status = "PUBLISHED"]]
      BY <1>2 DEF SerialDraft, PublishTask, PublishWrite, MayPublish, Unlisted
    <2>2. "PUBLISHED" \in Unlisted
      BY DEF Unlisted
    <2>3. Moved(t, Unlisted, Unlisted)
      BY <2>1, <2>2, StatusMoves
    <2> QED
      BY <1>2, <2>3 DEF Moved
  <1>3. CASE q.op = "CloseTask"
    <2>1. /\ task[t].status \in Unlisted
          /\ task' = [task EXCEPT ![t] = [task[t] EXCEPT !.status = "CLOSED"]]
      BY <1>3 DEF SerialDraft, CloseTask, CloseWrite, MayClose, Unlisted
    <2>2. "CLOSED" \in Unlisted
      BY DEF Unlisted
    <2>3. Moved(t, Unlisted, Unlisted)
      BY <2>1, <2>2, StatusMoves
    <2> QED
      BY <1>3, <2>3 DEF Moved
  <1>4. CASE q.op = "DeleteTask"
    <2>1. /\ task[t].status \in Unlisted
          /\ task' = [task EXCEPT ![t] = Deleted(task[t])]
      BY <1>4 DEF SerialDraft, DeleteTask, DeleteWrite, MayDelete, NotStarted, Unlisted
    <2>2. task'[t] = Deleted(task[t]) /\ \A u \in Tasks \ {t} : task'[u] = task[u]
      BY <2>1 DEF TypeOK
    <2> QED
      BY <1>0, <1>4, <2>1, <2>2 DEF Deleted, TaskRow, Unlisted
  <1> QED
    BY <1>1, <1>2, <1>3, <1>4

LEMMA UpdateMoves ==
  ASSUME TypeOK, NEW q, q.task \in Tasks, SerialDraft(q), q.op = "UpdateTaskDraft"
  PROVE  \A u \in Tasks : task'[u].status = task[u].status /\ task'[u].deleted = task[u].deleted
  <1>1. task' = [task EXCEPT ![q.task] = [task[q.task] EXCEPT !.project = q.project]]
    BY DEF SerialDraft, UpdateTaskDraft, UpdateDraftWrite
  <1>2. task[q.task] \in TaskRow
    BY DEF TypeOK
  <1>3. /\ task'[q.task] = [task[q.task] EXCEPT !.project = q.project]
        /\ \A u \in Tasks \ {q.task} : task'[u] = task[u]
    BY <1>1 DEF TypeOK
  <1> QED
    BY <1>2, <1>3 DEF TaskRow

\* Which tables the other handlers leave alone.
LEMMA OtherTables ==
  ASSUME NEW q, Serial(q)
  PROVE  /\ q.op \in {"ApplyToTask", "RejectApplication", "CreateTaskInvite", "DeclineInvite",
                      "CancelInvite", "GetThreadByTaskId", "ReportTask", "UpdateProject",
                      "CreateReview"} => UNCHANGED task
         /\ q.op # "GetThreadByTaskId" => UNCHANGED thread
         /\ q.op \notin OpsInvalidatingInvites => UNCHANGED invite
         /\ q.op \notin {"PublishTask", "UpdateProject", "DeleteProject"} => UNCHANGED project
  <1>1. CASE SerialHiring(q)
    BY <1>1 DEF SerialHiring, ApplyToTask, ApplyWrite, AcceptApplication,
       AcceptApplicationWrite, RejectApplication, RejectApplicationWrite, CreateTaskInvite,
       InviteWrite, AcceptInvite, AcceptInviteWrite, DeclineInvite, CancelInvite,
       AnswerInviteWrite, GetThreadByTaskId, OpsInvalidatingInvites, projectTables
  <1>2. CASE SerialDraft(q)
    BY <1>2 DEF SerialDraft, CreateTaskDraft, CreateDraftWrite, UpdateTaskDraft,
       UpdateDraftWrite, PublishTask, PublishWrite, CloseTask, CloseWrite, DeleteTask,
       DeleteWrite, ReportTask, ReportTaskWrite, ResolveTaskReport, ResolveTaskReportWrite,
       UpdateProject, UpdateProjectWrite, DeleteProject, DeleteProjectWrite,
       OpsInvalidatingInvites, projectTables, hiringTables
  <1>3. CASE SerialWork(q)
    BY <1>3 DEF SerialWork, RequestTaskCompletion, RequestCompletionWrite,
       RejectTaskCompletion, RejectCompletionWrite, ConfirmTaskCompletion, ConfirmWrite,
       OpenTaskDispute, EscalateTaskCompletionDispute, DisputeWrite, ResolveTaskDispute,
       ResolveWrite, CreateReview, ReviewWrite,
       OpsInvalidatingInvites, projectTables, hiringTables
  <1> QED
    BY <1>1, <1>2, <1>3 DEF Serial

LEMMA PublicTasksKept ==
  ASSUME IInv, NEW q, Fits(q), Serial(q), ~InvalidatesPublicTasks(q), q.op # "DeleteProject"
  PROVE  TasksCatalog' = TasksCatalog
  <1>1. ASSUME UNCHANGED task PROVE TasksCatalog' = TasksCatalog
    BY <1>1 DEF TasksCatalog
  <1>2. ASSUME NEW t \in Tasks, NEW from, NEW to, Moved(t, from, to), "PUBLISHED" \notin from,
               "PUBLISHED" \notin to
        PROVE  TasksCatalog' = TasksCatalog
    <2>1. \A u \in Tasks : (~task'[u].deleted /\ task'[u].status = "PUBLISHED")
                             <=> (~task[u].deleted /\ task[u].status = "PUBLISHED")
      BY <1>2 DEF Moved
    <2> QED
      BY <2>1 DEF TasksCatalog
  <1>3. q.op \notin OnlyAProject => q.task \in Tasks
    BY DEF Fits, Named
  <1>4. CASE SerialHiring(q)
    BY <1>1, <1>4, OtherTables
       DEF SerialHiring, InvalidatesPublicTasks, OpsInvalidatingPublicTasks
  <1>5. CASE SerialDraft(q)
    <2>1. CASE q.op = "CreateTaskDraft"
      BY <1>2, <1>3, <1>5, <2>1, DraftMoves DEF OnlyAProject, IInv
    <2>2. CASE q.op = "ResolveTaskReport"
      <3>1. UNCHANGED task
        BY <1>5, <2>2 DEF SerialDraft, ResolveTaskReport, ResolveTaskReportWrite,
           InvalidatesPublicTasks
      <3> QED
        BY <1>1, <3>1
    <2>3. CASE q.op \in {"ReportTask", "UpdateProject"}
      BY <1>1, <2>3, OtherTables
    <2> QED
      BY <1>5, <2>1, <2>2, <2>3
         DEF SerialDraft, InvalidatesPublicTasks, OpsInvalidatingPublicTasks
  <1>6. CASE SerialWork(q)
    <2>1. CASE q.op = "CreateReview"
      BY <1>1, <2>1, OtherTables
    <2>2. CASE q.op # "CreateReview"
      <3>1. q.task \in Tasks
        BY <1>3, <1>6 DEF SerialWork, OnlyAProject
      <3>2. Moved(q.task, Working, Working)
        BY <1>6, <2>2, <3>1, WorkMoves
      <3> QED
        BY <1>2, <3>1, <3>2 DEF Working
    <2> QED
      BY <2>1, <2>2
  <1> QED
    BY <1>4, <1>5, <1>6 DEF Serial

LEMMA PublicProjectsKept ==
  ASSUME TypeOK, NEW q, Fits(q), Serial(q), ~InvalidatesPublicProjects(q)
  PROVE  ProjectsCatalog' = ProjectsCatalog
  <1>1. CASE q.op = "PublishTask"
    <2>1. PublishWrite(q.task, task[q.task].project) /\ q.task \in Tasks
      BY <1>1 DEF Serial, SerialHiring, SerialDraft, SerialWork, PublishTask, Fits, Named,
         OnlyAProject
    <2> PICK x : x = task[q.task].project
      OBVIOUS
    <2>2. \/ project' = project
          \/ project' = [project EXCEPT ![x].publishedTasksCount = @ + 1]
      BY <2>1 DEF PublishWrite
    <2>3. ASSUME NEW p \in Projects PROVE project'[p].state = project[p].state
      <3>1. project[p] \in ProjectRow
        BY DEF TypeOK
      <3>2. \/ project'[p] = project[p]
            \/ project'[p] = [project[p] EXCEPT !.publishedTasksCount = @ + 1]
        BY <2>2 DEF TypeOK
      <3> QED
        BY <3>1, <3>2 DEF ProjectRow
    <2> QED
      BY <2>3 DEF ProjectsCatalog, FindProjectsCatalog, LiveProject
  <1>2. CASE q.op # "PublishTask"
    <2>1. UNCHANGED project
      BY <1>2, OtherTables DEF InvalidatesPublicProjects
    <2> QED
      BY <2>1 DEF ProjectsCatalog, FindProjectsCatalog
  <1> QED
    BY <1>1, <1>2

LEMMA InviteWrites ==
  ASSUME TypeOK, NEW q, Fits(q), Serial(q), q.op \in OpsInvalidatingInvites
  PROVE  /\ \A t \in Tasks \ {q.task} : invite'[t] = invite[t]
         /\ q.op # "AcceptInvite" =>
              \A t \in Tasks, d \in Developers \ {q.developer} : invite'[t][d] = invite[t][d]
  <1>1. SerialHiring(q)
    BY DEF Serial, SerialDraft, SerialWork, OpsInvalidatingInvites
  <1>2. CASE q.op = "AcceptInvite"
    <2>1. AcceptInviteWrite(q.task, q.developer, application[q.task][q.developer])
      BY <1>1, <1>2 DEF SerialHiring, AcceptInvite
    <2>2. \A t \in Tasks \ {q.task} : invite'[t] = invite[t]
      BY <2>1 DEF AcceptInviteWrite, TypeOK
    <2> QED
      BY <1>2, <2>2
  <1>3. CASE q.op # "AcceptInvite"
    <2>1. PICK answer : invite' = [invite EXCEPT ![q.task][q.developer] = answer]
      BY <1>1, <1>3 DEF SerialHiring, OpsInvalidatingInvites, CreateTaskInvite, InviteWrite,
         DeclineInvite, CancelInvite, AnswerInviteWrite
    <2> QED
      BY <2>1 DEF TypeOK
  <1> QED
    BY <1>2, <1>3

LEMMA TaskInvitesKept ==
  ASSUME TypeOK, NEW q, Fits(q), Serial(q), NEW t \in Tasks, ~InvalidatesTaskInvites(q, t)
  PROVE  invite'[t] = invite[t]
  BY InviteWrites, OtherTables DEF InvalidatesTaskInvites

LEMMA MyInvitesKept ==
  ASSUME TypeOK, NEW q, Fits(q), Serial(q), NEW d \in Developers, ~InvalidatesMyInvites(q, d),
         q.op # "AcceptInvite"
  PROVE  \A t \in Tasks : invite'[t][d] = invite[t][d]
  BY InviteWrites, OtherTables DEF InvalidatesMyInvites

\* What a developer's list of threads shows of a task.
SameThread(t, d) ==
  /\ (t \in MyThreads(d))' <=> t \in MyThreads(d)
  /\ t \in MyThreads(d) => task'[t].status = task[t].status

LEMMA ThreadsKept ==
  ASSUME NEW d, \A t \in Tasks : SameThread(t, d)
  PROVE  {<<t, task[t].status>> : t \in MyThreads(d)}' = {<<t, task[t].status>> : t \in MyThreads(d)}
  <1>1. MyThreads(d)' = MyThreads(d)
    BY DEF SameThread, MyThreads
  <1>2. \A t \in MyThreads(d) : task'[t].status = task[t].status
    BY DEF SameThread, MyThreads
  <1> QED
    BY <1>1, <1>2

LEMMA ThreadCreated ==
  ASSUME TypeOK, NEW d \in Developers, NEW t \in Tasks, NEW e, e # d,
         GetOrCreateChatThread(t, e), UNCHANGED task
  PROVE  \A u \in Tasks : SameThread(u, d)
  <1>1. \A u \in Tasks : thread'[u] = d <=> thread[u] = d
    BY ConstantsAssumption DEF TypeOK, GetOrCreateChatThread
  <1> QED
    BY <1>1 DEF SameThread, MyThreads

LEMMA MyThreadsKept ==
  ASSUME IInv, NEW q, Fits(q), Serial(q), NEW d \in Developers, ~InvalidatesMyThreads(q, d),
         <<"my threads", q.op>> \notin Forgotten
  PROVE  \A t \in Tasks : SameThread(t, d)
  <1>0. TypeOK /\ (q.op \notin OnlyAProject => q.task \in Tasks)
    BY DEF IInv, Fits, Named
  <1>1. q.op \notin {"RequestCompletion", "RejectCompletion", "ConfirmCompletion",
                     "OpenDispute", "EscalateDispute", "ResolveDispute",
                     "DeleteProject", "ResolveTaskReport"}
    BY DEF Forgotten
  <1>2. ASSUME UNCHANGED thread,
               \A u \in Tasks : /\ task'[u].status = task[u].status
                                /\ task'[u].deleted = task[u].deleted
        PROVE  \A u \in Tasks : SameThread(u, d)
    BY <1>2 DEF SameThread, MyThreads
  <1>3. ASSUME UNCHANGED thread, \A u \in Tasks \ {q.task} : task'[u] = task[u],
               thread[q.task] # d \/
                 {task[q.task].status, task'[q.task].status} \cap ChatStatuses = {}
        PROVE  \A u \in Tasks : SameThread(u, d)
    BY <1>3 DEF SameThread, MyThreads
  <1>4. CASE q.op \in {"CreateTaskDraft", "PublishTask", "CloseTask", "DeleteTask"}
    <2>1. SerialDraft(q) /\ q.task \in Tasks
      BY <1>0, <1>4 DEF Serial, SerialHiring, SerialWork, OnlyAProject
    <2>2. {task[q.task].status, task'[q.task].status} \cap ChatStatuses = {}
      BY <1>0, <1>4, <2>1, DraftMoves DEF Unlisted, ChatStatuses
    <2> QED
      BY <1>0, <1>3, <1>4, <2>1, <2>2, DraftMoves, OtherTables
  <1>5. CASE q.op = "UpdateTaskDraft"
    <2>1. SerialDraft(q) /\ q.task \in Tasks
      BY <1>0, <1>5 DEF Serial, SerialHiring, SerialWork, OnlyAProject
    <2> QED
      BY <1>0, <1>2, <1>5, <2>1, UpdateMoves, OtherTables
  <1>6. CASE Starts(q)
    <2>1. SerialHiring(q) /\ q.task \in Tasks /\ UNCHANGED thread
      BY <1>0, <1>6, OtherTables DEF Serial, SerialDraft, SerialWork, OnlyAProject, Starts
    <2>2. /\ task[q.task].accepted = NoDeveloper
          /\ task' = [task EXCEPT ![q.task] =
               [task[q.task] EXCEPT !.status = "IN_PROGRESS", !.accepted = q.developer]]
      BY <1>6, <2>1 DEF SerialHiring, Starts, AcceptApplication, AcceptApplicationWrite,
         AcceptInvite, AcceptInviteWrite, StartWrite, MayStart
    <2>3. thread[q.task] = NoDeveloper
      BY <2>1, <2>2 DEF IInv, TaskOK, HiredOK
    <2>4. \A u \in Tasks \ {q.task} : task'[u] = task[u]
      BY <1>0, <2>2 DEF TypeOK
    <2> QED
      BY <1>3, <2>1, <2>3, <2>4, ConstantsAssumption
  <1>7. CASE q.op = "GetThreadByTaskId"
    <2>1. /\ q.task \in Tasks /\ UNCHANGED task
          /\ GetOrCreateChatThread(q.task, task[q.task].accepted)
          /\ q.row.accepted = task[q.task].accepted
      BY <1>0, <1>7, OtherTables DEF Serial, SerialHiring, SerialDraft, SerialWork,
         OnlyAProject, GetThreadByTaskId
    <2>2. task[q.task].accepted # d
      BY <1>7, <2>1 DEF InvalidatesMyThreads
    <2> QED
      BY <1>0, <2>1, <2>2, ThreadCreated
  <1>8. CASE q.op \in {"ApplyToTask", "RejectApplication", "CreateTaskInvite", "DeclineInvite",
                       "CancelInvite", "ReportTask", "UpdateProject", "CreateReview"}
    BY <1>2, <1>8, OtherTables
  <1> QED
    BY <1>1, <1>4, <1>5, <1>6, <1>7, <1>8
       DEF Serial, SerialHiring, SerialDraft, SerialWork, Starts

\* What each list answers, and who deletes its key.
LEMMA ListAnswers ==
  ASSUME NEW w
  PROVE  /\ w[1] = "public tasks" =>
              Value(w) = TasksCatalog /\ Value(w)' = TasksCatalog'
         /\ w[1] = "public projects" =>
              Value(w) = ProjectsCatalog /\ Value(w)' = ProjectsCatalog'
         /\ w[1] = "task invites" =>
              /\ Value(w) = {<<d, invite[w[2]][d]>> : d \in Developers}
              /\ Value(w)' = {<<d, invite[w[2]][d]>> : d \in Developers}'
         /\ w[1] = "my invites" =>
              /\ Value(w) = {<<t, invite[t][w[2]]>> : t \in Tasks}
              /\ Value(w)' = {<<t, invite[t][w[2]]>> : t \in Tasks}'
         /\ w[1] = "my threads" =>
              /\ Value(w) = {<<t, task[t].status>> : t \in MyThreads(w[2])}
              /\ Value(w)' = {<<t, task[t].status>> : t \in MyThreads(w[2])}'
  BY DEF Value

LEMMA ListKeys ==
  ASSUME NEW w, NEW q
  PROVE  /\ w[1] = "public tasks" => Invalidates(q, w) <=> InvalidatesPublicTasks(q)
         /\ w[1] = "public projects" => Invalidates(q, w) <=> InvalidatesPublicProjects(q)
         /\ w[1] = "task invites" => Invalidates(q, w) <=> InvalidatesTaskInvites(q, w[2])
         /\ w[1] = "my invites" => Invalidates(q, w) <=> InvalidatesMyInvites(q, w[2])
         /\ w[1] = "my threads" => Invalidates(q, w) <=> InvalidatesMyThreads(q, w[2])
  BY DEF Invalidates

LEMMA ViewKinds ==
  ASSUME NEW w \in Views
  PROVE  \/ w[1] \in {"public tasks", "public projects"}
         \/ w[1] = "task invites" /\ w[2] \in Tasks
         \/ w[1] \in {"my invites", "my threads"} /\ w[2] \in Developers
  <1>1. ASSUME NEW name \in {"public tasks", "public projects"}, w = <<name, NoDeveloper>>
        PROVE  w[1] \in {"public tasks", "public projects"}
    <2>1. w[1] = name
      BY <1>1
    <2> QED
      BY <2>1
  <1>2. ASSUME NEW t \in Tasks, w = <<"task invites", t>>
        PROVE  w[1] = "task invites" /\ w[2] \in Tasks
    BY <1>2
  <1>3. ASSUME w \in {"my invites", "my threads"} \X Developers
        PROVE  w[1] \in {"my invites", "my threads"} /\ w[2] \in Developers
    BY <1>3
  <1>4. \/ \E name \in {"public tasks", "public projects"} : w = <<name, NoDeveloper>>
        \/ \E t \in Tasks : w = <<"task invites", t>>
        \/ w \in {"my invites", "my threads"} \X Developers
    BY DEF Views
  <1> QED
    BY <1>1, <1>2, <1>3, <1>4, Zenon

LEMMA SameAnswer ==
  ASSUME NEW w \in Views,
         w[1] = "public tasks" => TasksCatalog' = TasksCatalog,
         w[1] = "public projects" => ProjectsCatalog' = ProjectsCatalog,
         w[1] = "task invites" /\ w[2] \in Tasks => invite'[w[2]] = invite[w[2]],
         w[1] = "my invites" /\ w[2] \in Developers =>
           \A t \in Tasks : invite'[t][w[2]] = invite[t][w[2]],
         w[1] = "my threads" /\ w[2] \in Developers => \A t \in Tasks : SameThread(t, w[2])
  PROVE  Value(w)' = Value(w)
  <1>1. CASE w[1] \in {"public tasks", "public projects"}
    BY <1>1, ListAnswers
  <1>2. CASE w[1] = "task invites" /\ w[2] \in Tasks
    <2>1. {<<d, invite[w[2]][d]>> : d \in Developers}' =
            {<<d, invite[w[2]][d]>> : d \in Developers}
      BY <1>2
    <2> QED
      BY <1>2, <2>1, ListAnswers
  <1>3. CASE w[1] = "my invites" /\ w[2] \in Developers
    <2>1. {<<t, invite[t][w[2]]>> : t \in Tasks}' = {<<t, invite[t][w[2]]>> : t \in Tasks}
      BY <1>3
    <2> QED
      BY <1>3, <2>1, ListAnswers
  <1>4. CASE w[1] = "my threads" /\ w[2] \in Developers
    <2>1. {<<t, task[t].status>> : t \in MyThreads(w[2])}' =
            {<<t, task[t].status>> : t \in MyThreads(w[2])}
      BY <1>4, ThreadsKept
    <2> QED
      BY <1>4, <2>1, ListAnswers
  <1> QED
    BY <1>1, <1>2, <1>3, <1>4, ViewKinds

\* The answer of a list, after a commit that has nothing to do with it.
LEMMA ValueKept ==
  ASSUME IInv, NEW q, Fits(q), Serial(q), NEW w \in Views,
         ~Invalidates(q, w), <<w[1], q.op>> \notin Forgotten
  PROVE  Value(w)' = Value(w)
  <1>0. TypeOK
    BY DEF IInv
  <1>1. ASSUME w[1] = "public tasks" PROVE TasksCatalog' = TasksCatalog
    <2>1. ~InvalidatesPublicTasks(q) /\ q.op # "DeleteProject"
      BY <1>1, ListKeys DEF Forgotten
    <2> QED
      BY <2>1, PublicTasksKept
  <1>2. ASSUME w[1] = "public projects" PROVE ProjectsCatalog' = ProjectsCatalog
    BY <1>0, <1>2, ListKeys, PublicProjectsKept
  <1>3. ASSUME w[1] = "task invites", w[2] \in Tasks PROVE invite'[w[2]] = invite[w[2]]
    BY <1>0, <1>3, ListKeys, TaskInvitesKept
  <1>4. ASSUME w[1] = "my invites", w[2] \in Developers
        PROVE  \A t \in Tasks : invite'[t][w[2]] = invite[t][w[2]]
    <2>1. ~InvalidatesMyInvites(q, w[2]) /\ q.op # "AcceptInvite"
      BY <1>4, ListKeys DEF Forgotten
    <2> QED
      BY <1>0, <1>4, <2>1, MyInvitesKept
  <1>5. ASSUME w[1] = "my threads", w[2] \in Developers
        PROVE  \A t \in Tasks : SameThread(t, w[2])
    BY <1>5, ListKeys, MyThreadsKept
  <1> QED
    BY <1>1, <1>2, <1>3, <1>4, <1>5, SameAnswer

\* The thread an accept creates is new to no list but its developer's, whose key is
\* deleted.
LEMMA ThreadValueKept ==
  ASSUME IInv, NEW q, Fits(q), HasTheTask(q), q.reads = <<"chat">>,
         GetOrCreateChatThread(q.task, q.developer),
         UNCHANGED <<task, taskTables, application, invite, told, projectTables>>,
         NEW w \in Views, ~Invalidates(q, w)
  PROVE  Value(w)' = Value(w)
  <1>0. q.task \in Tasks /\ q.developer \in Developers
    BY DEF HasTheTask, Starts, Fits, Named, OnlyAProject, AboutDeveloper
  <1>1. TasksCatalog' = TasksCatalog /\ ProjectsCatalog' = ProjectsCatalog
    BY DEF TasksCatalog, ProjectsCatalog, FindProjectsCatalog, projectTables
  <1>2. ASSUME w[1] = "my threads", w[2] \in Developers
        PROVE  \A t \in Tasks : SameThread(t, w[2])
    <2>1. q.developer # w[2]
      BY <1>2, ListKeys DEF InvalidatesMyThreads
    <2> QED
      BY <1>0, <1>2, <2>1, ThreadCreated DEF IInv
  <1> QED
    BY <1>1, <1>2, SameAnswer

\* The clock moves deadlines only.
LEMMA ClockValueKept ==
  ASSUME TypeOK, NEW t \in Tasks, ResponseDeadlinePasses(t), NEW w \in Views
  PROVE  Value(w)' = Value(w)
  <1>1. UNCHANGED <<invite, thread, project>>
    BY DEF ResponseDeadlinePasses, hiringTables, projectTables
  <1>2. \A u \in Tasks : Later(task'[u], task[u])
    BY ClockTick
  <1>3. TasksCatalog' = TasksCatalog /\ ProjectsCatalog' = ProjectsCatalog
    BY <1>1, <1>2 DEF TasksCatalog, ProjectsCatalog, FindProjectsCatalog, Later
  <1>4. \A u \in Tasks : SameThread(u, w[2])
    BY <1>1, <1>2 DEF SameThread, MyThreads, Later
  <1> QED
    BY <1>1, <1>3, <1>4, SameAnswer

\* A new project changes the catalogue of projects, whose key is deleted.
LEMMA NewProjectValueKept ==
  ASSUME NEW p, NEW limit, CreateProject(p, limit), NEW w \in Views, w[1] # "public projects"
  PROVE  Value(w)' = Value(w)
  <1>1. UNCHANGED <<task, invite, thread>>
    BY DEF CreateProject, hiringTables
  <1>2. TasksCatalog' = TasksCatalog
    BY <1>1 DEF TasksCatalog
  <1>3. \A u \in Tasks : SameThread(u, w[2])
    BY <1>1 DEF SameThread, MyThreads
  <1> QED
    BY <1>1, <1>2, <1>3, SameAnswer

-----------------------------------------------------------------------------
(* An answer of a cache is fresh, or known to be stale.  What a reader      *)
(* holds and has not stored yet must be so too: it will be an answer.       *)

HasReason(entries) ==
  \A e \in entries :
    /\ e = [value |-> e.value, why |-> e.why]
    /\ e.value # Value(watched) => pending \/ e.why # "nothing"

CacheInv ==
  /\ watched \in Views \cup {NoRedis}
  /\ watched = NoRedis => cached = {} /\ fill = {}
  /\ HasReason(cached) /\ HasReason(fill)

LEMMA SpoiledHasReason ==
  ASSUME NEW entries, HasReason(entries), NEW why, why # "nothing"
  PROVE  \A e \in Spoil(entries, why) :
           e = [value |-> e.value, why |-> e.why] /\ e.why # "nothing"
  <1> SUFFICES ASSUME NEW o \in entries, NEW e, e = [o EXCEPT !.why = why]
               PROVE  e = [value |-> e.value, why |-> e.why] /\ e.why # "nothing"
    BY DEF Spoil
  <1>1. o = [value |-> o.value, why |-> o.why]
    BY DEF HasReason
  <1>2. e = [value |-> o.value, why |-> why]
    BY <1>1
  <1> QED
    BY <1>2

\* A list that answers as before.
LEMMA SameListKeeps ==
  ASSUME CacheInv, UNCHANGED <<watched, cached, fill>>, pending => pending',
         watched \in Views => Value(watched)' = Value(watched) \/ pending'
  PROVE  CacheInv'
  <1>1. CASE watched = NoRedis
    BY <1>1 DEF CacheInv, HasReason
  <1>2. CASE watched \in Views
    BY <1>2 DEF CacheInv, HasReason
  <1> QED
    BY <1>1, <1>2 DEF CacheInv

\* A commit: it deletes the key, is known to be forgotten, or changes nothing here.
LEMMA CommittedKeeps ==
  ASSUME CacheInv, NEW q, Committed(q),
         watched \in Views /\ ~Invalidates(q, watched) /\ <<watched[1], q.op>> \notin Forgotten
           => Value(watched)' = Value(watched)
  PROVE  CacheInv'
  <1>1. watched' = watched /\ pending' = (pending \/ Invalidates(q, watched))
    BY DEF Committed
  <1>2. CASE /\ ~Invalidates(q, watched) /\ <<watched[1], q.op>> \in Forgotten
             /\ Value(watched)' # Value(watched)
    <2>1. cached' = Spoil(cached, "forgotten") /\ fill' = Spoil(fill, "forgotten")
      BY <1>2 DEF Committed
    <2>2. HasReason(cached)' /\ HasReason(fill)'
      BY <2>1, SpoiledHasReason DEF CacheInv, HasReason
    <2>3. watched = NoRedis => cached' = {} /\ fill' = {}
      BY <2>1 DEF CacheInv, Spoil
    <2> QED
      BY <1>1, <2>2, <2>3 DEF CacheInv
  <1>3. CASE ~ (/\ ~Invalidates(q, watched) /\ <<watched[1], q.op>> \in Forgotten
                /\ Value(watched)' # Value(watched))
    <2>1. UNCHANGED <<cached, fill>>
      BY <1>3 DEF Committed
    <2>2. watched \in Views => Value(watched)' = Value(watched) \/ pending'
      BY <1>1, <1>3
    <2> QED
      BY <1>1, <2>1, <2>2, SameListKeeps
  <1> QED
    BY <1>2, <1>3

LEMMA CacheStepKeeps ==
  ASSUME CacheInv, CacheStep
  PROVE  CacheInv'
  <1>0. UNCHANGED <<vars, watched>>
    BY DEF CacheStep, Miss, Store, Invalidate, InvalidationLost, Expires, reqVars
  <1>1. Value(watched)' = Value(watched)
    BY <1>0 DEF vars, taskTables, hiringTables, projectTables, Value, TasksCatalog,
       ProjectsCatalog, FindProjectsCatalog, MyThreads
  <1>2. CASE Miss
    BY <1>0, <1>1, <1>2 DEF Miss, Entry, CacheInv, HasReason
  <1>3. CASE Store
    BY <1>0, <1>1, <1>3 DEF Store, CacheInv, HasReason
  <1>4. CASE Invalidate
    BY <1>0, <1>4, SpoiledHasReason DEF Invalidate, CacheInv, HasReason, Spoil
  <1>5. CASE InvalidationLost
    BY <1>0, <1>5, SpoiledHasReason DEF InvalidationLost, CacheInv, HasReason, Spoil
  <1>6. CASE Expires
    BY <1>0, <1>1, <1>6 DEF Expires, CacheInv, HasReason
  <1> QED
    BY <1>2, <1>3, <1>4, <1>5, <1>6 DEF CacheStep

LEMMA HandlerStepKeeps ==
  ASSUME NEW r \in Requests, Requests = {r}, OverlapInv, SerialInv, CacheInv, HandlerStep
  PROVE  CacheInv'
  <1>0. /\ DOMAIN req = Requests /\ (req[r] # Idle => Fits(req[r]) /\ Sound(req[r]))
        /\ IInv /\ TypeOK /\ group \in Groups
    BY DEF OverlapInv, RInv, SerialInv, AllSound, IInv
  <1>1. CASE (Begin(r) \/ Read(r) \/ GiveUp(r)) /\ UNCHANGED cacheVars
    <2>1. UNCHANGED vars
      BY <1>1 DEF Begin, Read, GiveUp
    <2>2. Value(watched)' = Value(watched)
      BY <1>1, <2>1 DEF cacheVars, vars, taskTables, hiringTables, projectTables, Value,
         TasksCatalog, ProjectsCatalog, FindProjectsCatalog, MyThreads
    <2> QED
      BY <1>1, <2>2, SameListKeeps DEF cacheVars
  <1>2. CASE Commit(r) /\ Committed(req[r])
    <2> PICK q : q = req[r]
      OBVIOUS
    <2>1. Fits(q) /\ Serial(q)
      BY <1>0, <1>2, CommitStep DEF Commit
    <2> PICK w : w = watched
      OBVIOUS
    <2>2. w \in Views /\ ~Invalidates(q, w) /\ <<w[1], q.op>> \notin Forgotten
            => Value(w)' = Value(w)
      BY <1>0, <2>1, ValueKept
    <2>3. watched' = watched
      BY <1>2 DEF Committed
    <2> QED
      BY <1>2, <2>2, <2>3, CommittedKeeps
  <1>3. CASE CreateThread(r) /\ Committed(req[r])
    <2> PICK q : q = req[r]
      OBVIOUS
    <2>1. /\ Fits(q) /\ HasTheTask(q) /\ q.reads = <<"chat">>
          /\ GetOrCreateChatThread(q.task, q.developer)
          /\ UNCHANGED <<task, taskTables, application, invite, told, projectTables>>
      BY <1>0, <1>3 DEF CreateThread, Sound
    <2> PICK w : w = watched
      OBVIOUS
    <2>2. w \in Views /\ ~Invalidates(q, w) => Value(w)' = Value(w)
      BY <1>0, <2>1, ThreadValueKept
    <2>3. watched' = watched
      BY <1>3 DEF Committed
    <2> QED
      BY <1>3, <2>2, <2>3, CommittedKeeps
  <1>4. CASE \E t \in Tasks : ResponseDeadlinePasses(t) /\ UNCHANGED <<req, cacheVars>>
    <2> PICK w : w = watched
      OBVIOUS
    <2>1. w \in Views => Value(w)' = Value(w)
      BY <1>0, <1>4, ClockValueKept
    <2> QED
      BY <1>4, <2>1, SameListKeeps DEF cacheVars
  <1>5. CASE /\ \E p \in group.projects, limit \in TalentLimits : CreateProject(p, limit)
             /\ pending' = (pending \/ watched[1] = "public projects")
             /\ UNCHANGED <<req, watched, cached, fill>>
    <2> PICK w : w = watched
      OBVIOUS
    <2>1. w \in Views /\ w[1] # "public projects" => Value(w)' = Value(w)
      BY <1>5, NewProjectValueKept
    <2> QED
      BY <1>5, <2>1, SameListKeeps
  <1> QED
    BY <1>1, <1>2, <1>3, <1>4, <1>5 DEF HandlerStep

LEMMA CacheInvStep ==
  ASSUME NEW r \in Requests, Requests = {r}, OverlapInv, SerialInv, CacheInv,
         [CachedNext]_cachedVars
  PROVE  CacheInv'
  <1>1. CASE HandlerStep
    BY <1>1, HandlerStepKeeps
  <1>2. CASE CacheStep
    BY <1>2, CacheStepKeeps
  <1>3. CASE UNCHANGED cachedVars
    <2>1. UNCHANGED vars /\ UNCHANGED cacheVars
      BY <1>3 DEF cachedVars, reqVars
    <2>2. Value(watched)' = Value(watched)
      BY <2>1 DEF cacheVars, vars, taskTables, hiringTables, projectTables, Value,
         TasksCatalog, ProjectsCatalog, FindProjectsCatalog, MyThreads
    <2> QED
      BY <2>1, <2>2, SameListKeeps DEF cacheVars
  <1> QED
    BY <1>1, <1>2, <1>3 DEF CachedNext

LEMMA CacheInvInit == CachedInit => CacheInv
  <1> SUFFICES ASSUME CachedInit PROVE CacheInv
    OBVIOUS
  <1>1. cached = {} /\ fill = {}
    BY DEF CachedInit
  <1>2. watched \in Views \cup {NoRedis}
    BY ScenesAssumption DEF CachedInit
  <1> QED
    BY <1>1, <1>2 DEF CacheInv, HasReason

\* However the read-through fills of src/cache interleave with the commits of one request
\* at a time and the deletions that follow them, a cached answer that is not what the
\* tables say has one of the four known reasons: for any number of tasks, developers and
\* projects, and whichever list is watched.
THEOREM StaleHasReasonCorrect ==
  ASSUME NEW r \in Requests, Requests = {r}
  PROVE  CachedSpec => []StaleHasReason
  <1>1. OverlapInv /\ SerialInv /\ CacheInv /\ [CachedNext]_cachedVars => CacheInv'
    BY CacheInvStep
  <1>2. CacheInv => StaleHasReason
    BY DEF CacheInv, HasReason, StaleHasReason
  <1>3. CachedSpec => []OverlapInv /\ []SerialInv
    BY CachesAreInvisible, OverlapInvariance, SerialInvariance, PTL
  <1> QED
    BY <1>1, <1>2, <1>3, CacheInvInit, PTL DEF CachedSpec
=============================================================================
