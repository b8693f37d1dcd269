---------------------------- MODULE TaskRequests ----------------------------
(***************************************************************************)
(* The handlers of TaskWorkflow.tla as they really run: several requests   *)
(* at a time, each a sequence of reads followed by its writes.             *)
(*                                                                         *)
(* Prisma transactions run under PostgreSQL's default READ COMMITTED, and  *)
(* several handlers read before they open one.  Every read therefore sees  *)
(* the rows committed at that moment, nothing keeps a row that was read    *)
(* from changing, and the writes go by id without repeating the checks.    *)
(* The writes of a request take effect together, at its commit: they       *)
(* become visible there, and until then the row locks of the first write   *)
(* keep the other writers of the task (and, since its                      *)
(* acceptedApplicationId is a unique column, inserts that refer to it)     *)
(* waiting.  An INSERT that meets a row with the same unique key fails.    *)
(*                                                                         *)
(* A request can end early at any point: a check that fails, an error, a   *)
(* deadlock the database breaks, a crash of the process.                   *)
(***************************************************************************)
EXTENDS TaskWorkflow, Sequences

CONSTANTS
  Requests,   \* bound: requests in flight at the same time
  Groups,     \* who takes part: the operations clients use, the developers, the projects
  Idle        \* a request slot with no request

\* What each handler reads before it writes, in order.
Reads ==
  [CreateTaskDraft     |-> <<"project">>,
   UpdateTaskDraft     |-> <<"task", "project">>,
   PublishTask         |-> <<"task", "project">>,
   CloseTask           |-> <<"task">>,
   DeleteTask          |-> <<"task">>,
   ApplyToTask         |-> <<"task", "application">>,
   AcceptApplication   |-> <<"task", "application">>,
   RejectApplication   |-> <<"application">>,
   CreateTaskInvite    |-> <<"task", "accepted", "invite", "application">>,
   AcceptInvite        |-> <<"invite", "task", "application">>,
   DeclineInvite       |-> <<"invite">>,
   CancelInvite        |-> <<"invite">>,
   GetThreadByTaskId   |-> <<"thread", "task">>,
   RequestCompletion   |-> <<"task">>,
   RejectCompletion    |-> <<"task", "dispute">>,
   ConfirmCompletion   |-> <<"task", "dispute">>,
   OpenDispute         |-> <<"task", "dispute">>,
   EscalateDispute     |-> <<"task", "dispute">>,
   ResolveDispute      |-> <<"task", "dispute">>,
   CreateReview        |-> <<"task">>,
   ReportTask          |-> <<"task">>,
   ResolveTaskReport   |-> <<"report">>,
   UpdateProject       |-> <<"project">>,
   DeleteProject       |-> <<"project">>]

ASSUME GroupsAssumption ==
  \A g \in Groups : /\ g.ops \subseteq DOMAIN Reads
                     /\ g.developers \subseteq Developers
                     /\ g.projects \subseteq Projects

VARIABLES
  req,   \* [Requests -> {Idle} or a request]
  group  \* who takes part in this behaviour, chosen at the start

reqVars == <<vars, req, group>>

\* A request: what was asked, what is still to be read, and what has been seen of
\* the rows that the writes depend on.
Request(op, t, d, p, choice) ==
  [op |-> op, task |-> t, developer |-> d, project |-> p, choice |-> choice,
   reads |-> Reads[op], row |-> NoTaskRow, app |-> "NONE", found |-> {}]

AboutDeveloper == {"ApplyToTask", "AcceptApplication", "RejectApplication",
                   "CreateTaskInvite", "AcceptInvite", "DeclineInvite", "CancelInvite",
                   "RequestCompletion", "EscalateDispute"}
AboutProject   == {"CreateTaskDraft", "UpdateTaskDraft"}
OnlyAProject   == {"UpdateProject", "DeleteProject"}
WithAChoice    == {"ResolveDispute", "CreateReview", "ReportTask", "ResolveTaskReport"}
AboutTask      == DOMAIN Reads \ (AboutDeveloper \cup AboutProject
                                  \cup OnlyAProject \cup WithAChoice)

Choices(op) ==
  CASE op = "ResolveDispute"    -> ResolutionAction
    [] op = "CreateReview"      -> Persona
    [] op = "ReportTask"        -> Reporters
    [] op = "ResolveTaskReport" -> Reporters \X ReportAction
    [] op = "UpdateProject"     -> TalentLimits
    [] OTHER                    -> {"none"}

\* Everything a client can ask for; a project is named only where it matters.
Possible ==
  UNION {
    {Request(op, t, d, NoProject, "none") :
       op \in group.ops \cap AboutDeveloper, t \in Tasks, d \in group.developers},
    {Request(op, t, NoDeveloper, p, "none") :
       op \in group.ops \cap AboutProject, t \in Tasks, p \in group.projects \cup {NoProject}},
    {Request(op, t, NoDeveloper, NoProject, "none") :
       op \in group.ops \cap AboutTask, t \in Tasks},
    UNION {{Request(op, t, NoDeveloper, NoProject, c) : t \in Tasks, c \in Choices(op)} :
             op \in group.ops \cap WithAChoice},
    UNION {{Request(op, CHOOSE t \in Tasks : TRUE, NoDeveloper, p, c) :
              p \in group.projects, c \in Choices(op)} : op \in group.ops \cap OnlyAProject}}

-----------------------------------------------------------------------------
(* The check a handler makes on each row it reads *)

TaskCheck(q, row) ==
  CASE q.op = "UpdateTaskDraft"   -> MayUpdateDraft(row)
    [] q.op = "PublishTask"       -> MayPublish(row)
    [] q.op = "CloseTask"         -> MayClose(row)
    [] q.op = "DeleteTask"        -> MayDelete(row)
    [] q.op = "ApplyToTask"       -> MayApply(row)
    [] q.op \in {"AcceptApplication", "AcceptInvite"} -> MayStart(row)
    [] q.op = "CreateTaskInvite"  -> MayInvite(row)
    [] q.op = "GetThreadByTaskId" -> MayCreateThread(row)
    [] q.op = "RequestCompletion" -> MayRequestCompletion(row, q.developer)
    [] q.op \in {"RejectCompletion", "ConfirmCompletion"} -> MayAnswerCompletion(row)
    [] q.op = "OpenDispute"       -> MayOpenDispute(row)
    [] q.op = "EscalateDispute"   -> MayEscalate(row, q.developer)
    [] q.op = "ResolveDispute"    -> Live(row)
    [] q.op = "CreateReview"      -> MayReview(row)
    [] q.op = "ReportTask"        -> Live(row)

ApplicationCheck(q, app) ==
  CASE q.op = "ApplyToTask" -> app = "NONE"
    [] q.op \in {"AcceptApplication", "RejectApplication"} -> app = "APPLIED"
    [] q.op = "CreateTaskInvite" -> app # "APPLIED"
    [] q.op = "AcceptInvite" -> TRUE

InviteCheck(q, inv) ==
  IF q.op = "CreateTaskInvite" THEN inv # "PENDING" ELSE inv = "PENDING"

\* Mutant: a second dispute may be opened.
DisputeCheckForgotten(q, open) == q.op = "ResolveDispute" => open # {}

DisputeCheck(q, open) ==
  CASE q.op \in {"OpenDispute", "EscalateDispute"} -> open = {}
    [] q.op = "ResolveDispute" -> open # {}
    [] OTHER -> TRUE

\* PublishTask looks at the project the task had when it was read, and only at its
\* counter; the others at the project the client named.
ProjectCheck(q) ==
  CASE q.op = "PublishTask" ->
         q.row.project # NoProject => HasRoom(project[q.row.project])
    [] OTHER -> MayUseProject(q.project)

Check(q) ==
  LET t == q.task
  IN  CASE Head(q.reads) = "task"        -> TaskCheck(q, task[t])
        [] Head(q.reads) = "application" -> ApplicationCheck(q, application[t][q.developer])
        [] Head(q.reads) = "accepted"    -> application[t][q.developer] # "ACCEPTED"
        [] Head(q.reads) = "invite"      -> InviteCheck(q, invite[t][q.developer])
        [] Head(q.reads) = "thread"      -> thread[t] = NoDeveloper
        [] Head(q.reads) = "dispute"     -> DisputeCheck(q, OpenDisputes(t))
        [] Head(q.reads) = "report"      -> taskReport[t][q.choice[1]] = "OPEN"
        [] Head(q.reads) = "project"     -> ProjectCheck(q)

\* The request after its next read.  The task's row is remembered as it was checked, of
\* the other rows only what the writes use.
AfterRead(q) ==
  LET t    == q.task
      rest == [q EXCEPT !.reads = Tail(@)]
  IN  CASE Head(q.reads) \in {"task", "report"}
             -> [rest EXCEPT !.row = task[t]]
        [] Head(q.reads) = "application" /\ q.op \in {"AcceptApplication", "AcceptInvite"}
             -> [rest EXCEPT !.app = application[t][q.developer]]
        [] Head(q.reads) = "dispute"
             -> [rest EXCEPT !.found = LatestOpen(t)]
        [] OTHER -> rest

-----------------------------------------------------------------------------
(* The writes of a request, applied to the rows as they are at its commit *)

HiringWrites(q) ==
  LET t == q.task  d == q.developer
  IN  \/ q.op = "ApplyToTask"       /\ ApplyWrite(t, d)
      \/ q.op = "AcceptApplication" /\ AcceptApplicationWrite(t, d, q.app) /\ UNCHANGED thread
      \/ q.op = "RejectApplication" /\ RejectApplicationWrite(t, d)
      \/ q.op = "CreateTaskInvite"  /\ InviteWrite(t, d)
      \/ q.op = "AcceptInvite"      /\ AcceptInviteWrite(t, d, q.app) /\ UNCHANGED thread
      \/ q.op = "DeclineInvite"     /\ AnswerInviteWrite(t, d, "DECLINED")
      \/ q.op = "CancelInvite"      /\ AnswerInviteWrite(t, d, "CANCELLED")
      \/ /\ q.op = "GetThreadByTaskId"
         /\ GetOrCreateChatThread(t, q.row.accepted)
         /\ UNCHANGED <<task, taskTables, application, invite, told, projectTables>>

DraftWrites(q) ==
  LET t == q.task
  IN  \/ q.op = "CreateTaskDraft"   /\ CreateDraftWrite(t, q.project)
      \/ q.op = "UpdateTaskDraft"   /\ UpdateDraftWrite(t, q.project)
      \/ q.op = "PublishTask"       /\ PublishWrite(t, q.row.project)
      \/ q.op = "CloseTask"         /\ CloseWrite(t)
      \/ q.op = "DeleteTask"        /\ DeleteWrite(t)
      \/ q.op = "ReportTask"        /\ ReportTaskWrite(t, q.choice)
      \/ /\ q.op = "ResolveTaskReport"
         /\ ResolveTaskReportWrite(t, q.choice[1], q.choice[2], q.row)
      \/ q.op = "UpdateProject"     /\ UpdateProjectWrite(q.project, q.choice)
      \/ q.op = "DeleteProject"     /\ DeleteProjectWrite(q.project)

WorkWrites(q) ==
  LET t == q.task
  IN  \/ q.op = "RequestCompletion" /\ RequestCompletionWrite(t)
      \/ q.op = "RejectCompletion"  /\ RejectCompletionWrite(t, q.row.rejectionCount + 1, q.found)
      \/ q.op = "ConfirmCompletion" /\ ConfirmWrite(t, q.found)
      \/ q.op \in {"OpenDispute", "EscalateDispute"} /\ DisputeWrite(t)
      \/ q.op = "ResolveDispute"    /\ ResolveWrite(t, q.found, q.choice)
      \/ q.op = "CreateReview"      /\ ReviewWrite(t, q.choice)

-----------------------------------------------------------------------------
RequestsInit == Init /\ req = [r \in Requests |-> Idle] /\ group \in Groups

Goes(r, q) == req' = [req EXCEPT ![r] = q]

\* A request starts with its first read.
Begin(r) ==
  /\ req[r] = Idle
  /\ \E q \in Possible : Check(q) /\ Goes(r, AfterRead(q))
  /\ UNCHANGED vars

Read(r) ==
  /\ req[r] # Idle
  /\ req[r].reads \notin {<< >>, <<"chat">>}
  /\ Check(req[r])
  /\ Goes(r, AfterRead(req[r]))
  /\ UNCHANGED vars

Starts(q) == q.op \in {"AcceptApplication", "AcceptInvite"}

\* After the commit of an accept the same handler still has to create the thread.
Commit(r) ==
  /\ req[r] # Idle
  /\ req[r].reads = << >>
  /\ HiringWrites(req[r]) \/ DraftWrites(req[r]) \/ WorkWrites(req[r])
  /\ Goes(r, IF Starts(req[r])
             THEN [req[r] EXCEPT !.reads = <<"chat">>, !.app = "NONE"] ELSE Idle)

CreateThread(r) ==
  /\ req[r] # Idle
  /\ req[r].reads = <<"chat">>
  /\ GetOrCreateChatThread(req[r].task, req[r].developer)
  /\ Goes(r, Idle)
  /\ UNCHANGED <<task, taskTables, application, invite, told, projectTables>>

\* A refused check, an error or a crash: nothing uncommitted is kept.
GiveUp(r) == req[r] # Idle /\ Goes(r, Idle) /\ UNCHANGED vars

\* Creating a project depends on no row; the clock does not wait for requests.
Background ==
  /\ \/ \E t \in Tasks : ResponseDeadlinePasses(t)
     \/ \E p \in group.projects, limit \in TalentLimits : CreateProject(p, limit)
  /\ UNCHANGED req

RequestsNext ==
  /\ \/ \E r \in Requests : Begin(r) \/ Read(r) \/ Commit(r) \/ CreateThread(r) \/ GiveUp(r)
     \/ Background
  /\ UNCHANGED group

RequestsSpec == RequestsInit /\ [][RequestsNext]_reqVars

-----------------------------------------------------------------------------
(* What stays true when requests overlap *)

\* With one request at a time the statement-by-statement handlers do what the
\* atomic ones do; a crash between an accept and its thread is a failed thread.
ImplementsSerial == Spec

\* Rejections are never lost or counted twice, even by two rejects that read the
\* same counter: the log is 1..rejectionCount.
RejectionsCounted == \A t \in Tasks : rejections[t] = 1..task[t].rejectionCount

\* Whoever the task points at, has an ACCEPTED application or an accepted invite,
\* was told so; whoever is REJECTED was told so.
OutcomesWereTold ==
  \A t \in Tasks, d \in Developers :
    /\ task[t].accepted = d \/ application[t][d] = "ACCEPTED" \/ invite[t][d] = "ACCEPTED"
         => "APPLICATION_ACCEPTED" \in told[t][d]
    /\ application[t][d] = "REJECTED" => "APPLICATION_REJECTED" \in told[t][d]

\* A task in DISPUTE always has an open dispute, whatever overlapped.  A moderator can then
\* decide it, unless the task was deleted: a dispute written after the deletion leaves a
\* row that resolveTaskDispute (dispute.js) answers with 404.
DisputeHasOpenRow ==
  \A t \in Tasks : task[t].status = "DISPUTE" => OpenDisputes(t) # {}

\* The chat of a task is opened with somebody who was told to be accepted, and it
\* never changes hands afterwards.
ThreadForGood ==
  [][\A t \in Tasks :
       /\ thread[t] # NoDeveloper => thread'[t] = thread[t]
       /\ thread'[t] # NoDeveloper => "APPLICATION_ACCEPTED" \in told'[t][thread'[t]]]_vars

\* What a request can change of a task, or hang on it; the answers to its applicants, the
\* reports about it and the clock are left out.
Substance(t) ==
  <<[task[t] EXCEPT !.deadline = "none"], dispute[t], rejections[t], review[t],
    {d \in Developers : application[t][d] # "NONE"},
    {d \in Developers : invite[t][d] # "NONE"}>>

\* The writes go by id, so a publish, close or delete may overwrite the status of a task
\* that was deleted or started meanwhile.  But only a request that had checked the row
\* before does so, and nothing builds on what it wrote: whatever status a deleted task
\* has got, later requests leave the task alone, except an accept, which does not look at
\* deletedAt; a developer loses the task only to an accept that saw it without one; and a
\* started task goes back to a status before the start only by a request that saw such a
\* status, or because a moderator or its project deletes it.
OnlyLateWriters ==
  [][\A t \in Tasks :
       /\ task[t].deleted /\ Substance(t)' # Substance(t) =>
            \E r \in Requests : /\ Commit(r) /\ req[r].task = t
                                /\ ~req[r].row.deleted \/ Starts(req[r])
       /\ task[t].accepted # NoDeveloper /\ task'[t].accepted # task[t].accepted =>
            \E r \in Requests : /\ Commit(r) /\ req[r].task = t
                                /\ Starts(req[r]) /\ req[r].row.accepted = NoDeveloper
       /\ task[t].status \in Started /\ task'[t].status \notin Started =>
            \E r \in Requests : /\ Commit(r)
                                /\ \/ req[r].op \in {"ResolveTaskReport", "DeleteProject"}
                                   \/ req[r].task = t /\ req[r].row.status \notin Started]_vars

-----------------------------------------------------------------------------
(* What the code means to keep true and overlapping requests break *)

\* startTaskWithDeveloper refuses a task that 'already has an accepted application'
\* (application.js:265): a task never has two accepted applications.
OneAcceptedApplication ==
  \A t \in Tasks, d, e \in Developers :
    application[t][d] = "ACCEPTED" /\ application[t][e] = "ACCEPTED" => d = e

\* rejection_count is documented as '(1-3)' (tasks.schemas.js:461).
AtMostThreeRejections == \A t \in Tasks : task[t].rejectionCount <= MaxRejections

\* publishTask refuses beyond the project's 'maximum published tasks limit'
\* (task-drafts.js:142): publishing never takes the counter above max_talents.
PublishedWithinLimit ==
  [][\A p \in Projects :
       project'[p].publishedTasksCount > project[p].publishedTasksCount =>
         project'[p].publishedTasksCount <= project'[p].maxTalents]_vars
=============================================================================
