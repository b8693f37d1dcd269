---------------------------- MODULE TaskWorkflow ----------------------------
(***************************************************************************)
(* The task workflow of the marketplace: a company drafts and publishes    *)
(* tasks (optionally inside a project), developers apply or are invited,   *)
(* one of them is accepted, works, asks for completion, and the company    *)
(* confirms or rejects; either side can open a dispute that a moderator    *)
(* resolves; moderators can delete reported tasks and projects.            *)
(*                                                                         *)
(* Here every request handler is ONE atomic action: its checks, then all   *)
(* the rows it writes.  The checks take the rows they look at as           *)
(* parameters and the writes are operators of their own, so that           *)
(* TaskRequests.tla can run the same handlers statement by statement.      *)
(*                                                                         *)
(* The rows of one task are those of prisma/schema.prisma: `task`,         *)
(* `application` and `invite` (unique per task and developer), `dispute`   *)
(* (numbered in order of creation), `rejections` (unique per task and      *)
(* number), `thread` (unique per task) and `review` (unique per author).   *)
(* The owner of every task and project is one company, so the 403          *)
(* NOT_OWNER branches never fire; chat messages, caches, e-mail and the    *)
(* notifications other than the outcome of an application are left out.    *)
(***************************************************************************)
EXTENDS Naturals, FiniteSets

CONSTANTS
  Tasks,          \* ids a task can get
  Developers,     \* users with a developer profile
  Projects,       \* ids a project can get
  Reporters,      \* users who may report a task or a project
  NoDeveloper,    \* acceptedApplicationId IS NULL, or no thread row
  NoProject,      \* projectId IS NULL
  MaxRejections,  \* 3 in the code
  MaxDisputes,    \* bound: dispute rows a task may get
  TalentLimits    \* bound: the values of max_talents a company picks

ASSUME ConstantsAssumption ==
  /\ NoDeveloper \notin Developers
  /\ NoProject \notin Projects
  /\ MaxRejections \in Nat \ {0}
  /\ MaxDisputes \in Nat
  /\ TalentLimits \subseteq Nat \ {0}

VARIABLES
  task,           \* the tasks table; status "ABSENT" before the row exists
  application,    \* [Tasks -> [Developers -> ApplicationStatus]]
  invite,         \* [Tasks -> [Developers -> InviteStatus]]
  dispute,        \* [Tasks -> [DisputeIds -> DisputeStatus]]
  rejections,     \* rejection numbers in task_completion_rejections
  thread,         \* developer of the task's chat thread
  review,         \* personas that have reviewed the task
  told,           \* outcome notifications a developer has received
  taskReport,     \* [Tasks -> [Reporters -> ReportStatus]]
  project,        \* the projects table
  projectReport   \* [Projects -> [Reporters -> ReportStatus]]

taskTables    == <<dispute, rejections, review, taskReport>>
hiringTables  == <<application, invite, thread, told>>
projectTables == <<project, projectReport>>
vars == <<task, taskTables, hiringTables, projectTables>>

-----------------------------------------------------------------------------
(* Rows *)

Started    == {"IN_PROGRESS", "DISPUTE", "COMPLETION_REQUESTED", "COMPLETED", "FAILED"}
NotStarted == {"DRAFT", "PUBLISHED", "CLOSED"}
TaskStatus == {"ABSENT", "DELETED"} \cup NotStarted \cup Started

ApplicationStatus == {"NONE", "APPLIED", "ACCEPTED", "REJECTED"}
InviteStatus      == {"NONE", "PENDING", "ACCEPTED", "DECLINED", "CANCELLED"}
ResolutionAction  == {"RETURN_TO_PROGRESS", "MARK_FAILED", "MARK_COMPLETED"}
DisputeStatus     == {"NONE", "OPEN"} \cup ResolutionAction
ReportStatus      == {"NONE", "OPEN", "RESOLVED"}
ReportAction      == {"DISMISS", "DELETE"}
Outcome           == {"APPLICATION_ACCEPTED", "APPLICATION_REJECTED"}
Persona           == {"company", "developer"}
DisputeIds        == 1..MaxDisputes

\* deadline abstracts completionRequestExpiresAt: NULL, in the future, or past.
TaskRow == [status : TaskStatus, accepted : Developers \cup {NoDeveloper},
            rejectionCount : Nat, deadline : {"none", "running", "passed"},
            deleted : BOOLEAN, project : Projects \cup {NoProject}]
ProjectRow == [state : {"ABSENT", "ACTIVE", "ARCHIVED"}, maxTalents : Nat,
               publishedTasksCount : Nat]

NoTaskRow == [status |-> "ABSENT", accepted |-> NoDeveloper, rejectionCount |-> 0,
              deadline |-> "none", deleted |-> FALSE, project |-> NoProject]
NoProjectRow == [state |-> "ABSENT", maxTalents |-> 0, publishedTasksCount |-> 0]

Init ==
  /\ task          = [t \in Tasks |-> NoTaskRow]
  /\ application   = [t \in Tasks |-> [d \in Developers |-> "NONE"]]
  /\ invite        = [t \in Tasks |-> [d \in Developers |-> "NONE"]]
  /\ dispute       = [t \in Tasks |-> [k \in DisputeIds |-> "NONE"]]
  /\ rejections    = [t \in Tasks |-> {}]
  /\ thread        = [t \in Tasks |-> NoDeveloper]
  /\ review        = [t \in Tasks |-> {}]
  /\ told          = [t \in Tasks |-> [d \in Developers |-> {}]]
  /\ taskReport    = [t \in Tasks |-> [r \in Reporters |-> "NONE"]]
  /\ project       = [p \in Projects |-> NoProjectRow]
  /\ projectReport = [p \in Projects |-> [r \in Reporters |-> "NONE"]]

Live(row) == row.status # "ABSENT" /\ ~row.deleted
LiveProject(row) == row.state = "ACTIVE"

-----------------------------------------------------------------------------
(* Drafting, publishing, closing and deleting *)

\* Mutant: deletedAt of the project is not looked at.
MayUseArchivedProject(p) == p # NoProject => project[p].state # "ABSENT"

MayUseProject(p) == p # NoProject => LiveProject(project[p])

CreateDraftWrite(t, p) ==
  /\ task[t].status = "ABSENT"
  /\ task' = [task EXCEPT ![t] = [@ EXCEPT !.status = "DRAFT", !.project = p]]
  /\ UNCHANGED <<taskTables, hiringTables, projectTables>>

CreateTaskDraft(t, p) == MayUseProject(p) /\ CreateDraftWrite(t, p)

MayUpdateDraft(row) == Live(row) /\ row.status \in {"DRAFT", "PUBLISHED"}

UpdateDraftWrite(t, p) ==
  /\ task' = [task EXCEPT ![t].project = p]
  /\ UNCHANGED <<taskTables, hiringTables, projectTables>>

UpdateTaskDraft(t, p) ==
  /\ MayUpdateDraft(task[t])
  /\ MayUseProject(p)
  /\ UpdateDraftWrite(t, p)

MayPublish(row) == Live(row) /\ row.status = "DRAFT"

\* The row a publish finds for its project; it need not be live.
HasRoom(proj) == proj.publishedTasksCount < proj.maxTalents

PublishWrite(t, p) ==
  /\ task' = [task EXCEPT ![t].status = "PUBLISHED"]
  /\ project' = IF p = NoProject THEN project
                ELSE [project EXCEPT ![p].publishedTasksCount = @ + 1]
  /\ UNCHANGED <<taskTables, hiringTables, projectReport>>

PublishTask(t) ==
  LET p == task[t].project
  IN  /\ MayPublish(task[t])
      /\ p # NoProject => HasRoom(project[p])
      /\ PublishWrite(t, p)

\* Mutant: deletedAt is not looked at.
MayCloseDeleted(row) == row.status \in {"DRAFT", "PUBLISHED"}

MayClose(row) == Live(row) /\ row.status \in {"DRAFT", "PUBLISHED"}

CloseWrite(t) ==
  /\ task' = [task EXCEPT ![t].status = "CLOSED"]
  /\ UNCHANGED <<taskTables, hiringTables, projectTables>>

CloseTask(t) == MayClose(task[t]) /\ CloseWrite(t)

MayDelete(row) == Live(row) /\ row.status \in NotStarted

\* Mutant: the status is left as it was.
DeletedAtOnly(row) == [row EXCEPT !.deleted = TRUE]

Deleted(row) == [row EXCEPT !.status = "DELETED", !.deleted = TRUE]

DeleteWrite(t) ==
  /\ task' = [task EXCEPT ![t] = Deleted(@)]
  /\ UNCHANGED <<taskTables, hiringTables, projectTables>>

DeleteTask(t) == MayDelete(task[t]) /\ DeleteWrite(t)

-----------------------------------------------------------------------------
(* Applications and invites *)

MayApply(row) == Live(row) /\ row.status = "PUBLISHED"

ApplyWrite(t, d) ==
  /\ application[t][d] = "NONE"          \* unique (task, developer)
  /\ application' = [application EXCEPT ![t][d] = "APPLIED"]
  /\ UNCHANGED <<task, taskTables, invite, thread, told, projectTables>>

ApplyToTask(t, d) == MayApply(task[t]) /\ ApplyWrite(t, d)

\* Mutant: only finished tasks are refused.
MayRestart(row) == row.status \in {"PUBLISHED", "IN_PROGRESS"}

\* startTaskWithDeveloper looks at the status only, not at deletedAt.
MayStart(row) == row.status = "PUBLISHED" /\ row.accepted = NoDeveloper

\* Mutant: the other applications are left alone.
NobodyWaiting(t, d) == {}

\* The others still APPLIED when the task row has been written are rejected.
Waiting(t, d) == {e \in Developers \ {d} : application[t][e] = "APPLIED"}

\* app is what was read of the developer's own application: it is created or
\* updated unless it was ACCEPTED already.
StartWrite(t, d, app) ==
  /\ app = "NONE" => application[t][d] = "NONE"     \* unique (task, developer)
  /\ task' = [task EXCEPT ![t] = [@ EXCEPT !.status = "IN_PROGRESS", !.accepted = d]]
  /\ application' = [application EXCEPT ![t] =
       [e \in Developers |-> IF e = d THEN (IF app = "ACCEPTED" THEN @[e] ELSE "ACCEPTED")
                             ELSE IF e \in Waiting(t, d) THEN "REJECTED" ELSE @[e]]]
  /\ told' = [told EXCEPT ![t] =
       [e \in Developers |-> IF e = d THEN @[e] \cup {"APPLICATION_ACCEPTED"}
                             ELSE IF e \in Waiting(t, d)
                                  THEN @[e] \cup {"APPLICATION_REJECTED"} ELSE @[e]]]

\* Mutant: the upsert updates an existing thread.
ReassignChatThread(t, d) == thread' = [thread EXCEPT ![t] = d]

\* An upsert by taskId with an empty update: an existing thread keeps its people.
GetOrCreateChatThread(t, d) ==
  thread' = [thread EXCEPT ![t] = IF @ = NoDeveloper THEN d ELSE @]

\* The thread is created after the commit, and a failure there is swallowed.
ThreadAfterStart(t, d) == GetOrCreateChatThread(t, d) \/ UNCHANGED thread

AcceptApplicationWrite(t, d, app) ==
  /\ StartWrite(t, d, app)
  /\ UNCHANGED <<taskTables, invite, projectTables>>

AcceptApplication(t, d) ==
  /\ application[t][d] = "APPLIED"
  /\ MayStart(task[t])
  /\ AcceptApplicationWrite(t, d, application[t][d])
  /\ ThreadAfterStart(t, d)

\* Mutant: the developer is not notified.
RejectSilently(t, d) ==
  /\ application' = [application EXCEPT ![t][d] = "REJECTED"]
  /\ UNCHANGED <<task, taskTables, invite, thread, told, projectTables>>

RejectApplicationWrite(t, d) ==
  /\ application' = [application EXCEPT ![t][d] = "REJECTED"]
  /\ told' = [told EXCEPT ![t][d] = @ \cup {"APPLICATION_REJECTED"}]
  /\ UNCHANGED <<task, taskTables, invite, thread, projectTables>>

RejectApplication(t, d) == application[t][d] = "APPLIED" /\ RejectApplicationWrite(t, d)

MayInvite(row) == Live(row) /\ row.status = "PUBLISHED" /\ row.accepted = NoDeveloper

MayBeInvited(app, inv) == app \notin {"ACCEPTED", "APPLIED"} /\ inv # "PENDING"

\* The insert fails on any earlier invite, answered or cancelled ones included.
InviteWrite(t, d) ==
  /\ invite[t][d] = "NONE"               \* unique (task, developer)
  /\ invite' = [invite EXCEPT ![t][d] = "PENDING"]
  /\ UNCHANGED <<task, taskTables, application, thread, told, projectTables>>

CreateTaskInvite(t, d) ==
  /\ MayInvite(task[t])
  /\ MayBeInvited(application[t][d], invite[t][d])
  /\ InviteWrite(t, d)

\* Mutant: the other pending invites stay.
AcceptOneInviteOnly(t, d, app) ==
  /\ StartWrite(t, d, app)
  /\ invite' = [invite EXCEPT ![t][d] = "ACCEPTED"]
  /\ UNCHANGED <<taskTables, projectTables>>

AcceptInviteWrite(t, d, app) ==
  /\ StartWrite(t, d, app)
  /\ invite' = [invite EXCEPT ![t] =
       [e \in Developers |-> IF e = d THEN "ACCEPTED"
                             ELSE IF @[e] = "PENDING" THEN "CANCELLED" ELSE @[e]]]
  /\ UNCHANGED <<taskTables, projectTables>>

AcceptInvite(t, d) ==
  /\ invite[t][d] = "PENDING"
  /\ MayStart(task[t])
  /\ AcceptInviteWrite(t, d, application[t][d])
  /\ ThreadAfterStart(t, d)

AnswerInviteWrite(t, d, answer) ==
  /\ invite' = [invite EXCEPT ![t][d] = answer]
  /\ UNCHANGED <<task, taskTables, application, thread, told, projectTables>>

DeclineInvite(t, d) == invite[t][d] = "PENDING" /\ AnswerInviteWrite(t, d, "DECLINED")
CancelInvite(t, d)  == invite[t][d] = "PENDING" /\ AnswerInviteWrite(t, d, "CANCELLED")

\* Opening the chat of a running task creates a thread that is missing.
MayCreateThread(row) ==
  Live(row) /\ row.accepted # NoDeveloper /\ row.status = "IN_PROGRESS"

\* Mutant: the thread is created for whoever asks.
GetThreadForCaller(t) ==
  /\ thread[t] = NoDeveloper
  /\ MayCreateThread(task[t])
  /\ \E d \in Developers : GetOrCreateChatThread(t, d)
  /\ UNCHANGED <<task, taskTables, application, invite, told, projectTables>>

GetThreadByTaskId(t) ==
  /\ thread[t] = NoDeveloper
  /\ MayCreateThread(task[t])
  /\ GetOrCreateChatThread(t, task[t].accepted)
  /\ UNCHANGED <<task, taskTables, application, invite, told, projectTables>>

-----------------------------------------------------------------------------
(* Completion and disputes *)

OpenDisputes(t) == {k \in DisputeIds : dispute[t][k] = "OPEN"}
\* Mutant: the open dispute is not looked for.
NoDisputeFound(t) == {}
LatestOpen(t)   == {k \in OpenDisputes(t) : \A j \in OpenDisputes(t) : j <= k}

\* Closes the dispute in set S, which holds at most the one the handler found.
Resolve(t, S, action) ==
  dispute' = [dispute EXCEPT ![t] = [k \in DisputeIds |-> IF k \in S THEN action ELSE @[k]]]

NextDispute(t, k) == \A j \in DisputeIds : (j < k) <=> (dispute[t][j] # "NONE")

MayRequestCompletion(row, d) ==
  Live(row) /\ row.status \in {"IN_PROGRESS", "DISPUTE"} /\ row.accepted = d

RequestCompletionWrite(t) ==
  /\ task' = [task EXCEPT ![t] =
                [@ EXCEPT !.status = "COMPLETION_REQUESTED", !.deadline = "running"]]
  /\ UNCHANGED <<taskTables, hiringTables, projectTables>>

RequestTaskCompletion(t, d) ==
  MayRequestCompletion(task[t], d) /\ RequestCompletionWrite(t)

MayAnswerCompletion(row) ==
  Live(row) /\ row.status = "COMPLETION_REQUESTED" /\ row.accepted # NoDeveloper

IsFinal(count) == count >= MaxRejections

StatusAfterRejection(count) == IF IsFinal(count) THEN "FAILED" ELSE "IN_PROGRESS"

\* Mutant: the status column's value in the action column.
ResolutionIsStatus(count) == "RESOLVED"

RejectionResolution(count) ==
  IF IsFinal(count) THEN "MARK_FAILED" ELSE "RETURN_TO_PROGRESS"

\* Mutant: no unique key on the rejection number.
RejectWithoutKey(t, count, S) ==
  /\ task' = [task EXCEPT ![t] = [@ EXCEPT !.rejectionCount = count,
                !.deadline = "none", !.status = StatusAfterRejection(count)]]
  /\ rejections' = [rejections EXCEPT ![t] = @ \cup {count}]
  /\ Resolve(t, S, RejectionResolution(count))
  /\ UNCHANGED <<review, taskReport, hiringTables, projectTables>>

\* count is the new rejectionCount, computed from the row that was read; S holds
\* the open dispute that was found.
RejectCompletionWrite(t, count, S) ==
  /\ count \notin rejections[t]          \* unique (task, rejectionNumber)
  /\ task' = [task EXCEPT ![t] = [@ EXCEPT !.rejectionCount = count,
                !.deadline = "none", !.status = StatusAfterRejection(count)]]
  /\ rejections' = [rejections EXCEPT ![t] = @ \cup {count}]
  /\ Resolve(t, S, RejectionResolution(count))
  /\ UNCHANGED <<review, taskReport, hiringTables, projectTables>>

RejectTaskCompletion(t) ==
  /\ MayAnswerCompletion(task[t])
  /\ RejectCompletionWrite(t, task[t].rejectionCount + 1, LatestOpen(t))

ConfirmWrite(t, S) ==
  /\ task' = [task EXCEPT ![t] = [@ EXCEPT !.status = "COMPLETED", !.deadline = "none"]]
  /\ Resolve(t, S, "MARK_COMPLETED")
  /\ UNCHANGED <<rejections, review, taskReport, hiringTables, projectTables>>

ConfirmTaskCompletion(t) ==
  MayAnswerCompletion(task[t]) /\ ConfirmWrite(t, LatestOpen(t))

\* The clock reaches completionRequestExpiresAt.
ResponseDeadlinePasses(t) ==
  /\ task[t].deadline = "running"
  /\ task' = [task EXCEPT ![t].deadline = "passed"]
  /\ UNCHANGED <<taskTables, hiringTables, projectTables>>

\* Mutant: a completed task may be disputed.
MayDisputeCompleted(row) ==
  Live(row) /\ row.status \in {"IN_PROGRESS", "COMPLETED"} /\ row.accepted # NoDeveloper

MayOpenDispute(row) ==
  Live(row) /\ row.status = "IN_PROGRESS" /\ row.accepted # NoDeveloper

MayEscalate(row, d) ==
  /\ Live(row)
  /\ row.status = "COMPLETION_REQUESTED"
  /\ row.accepted = d
  /\ row.deadline = "passed"

\* Both ways into a dispute write the same rows; the request's timestamps stay.
DisputeWrite(t) ==
  /\ \E k \in DisputeIds : NextDispute(t, k) /\ dispute' = [dispute EXCEPT ![t][k] = "OPEN"]
  /\ task' = [task EXCEPT ![t].status = "DISPUTE"]
  /\ UNCHANGED <<rejections, review, taskReport, hiringTables, projectTables>>

OpenTaskDispute(t) ==
  MayOpenDispute(task[t]) /\ OpenDisputes(t) = {} /\ DisputeWrite(t)

EscalateTaskCompletionDispute(t, d) ==
  MayEscalate(task[t], d) /\ OpenDisputes(t) = {} /\ DisputeWrite(t)

\* Mutant: the two final actions are swapped.
StatusAfterSwapped(action) ==
  CASE action = "MARK_FAILED"    -> "COMPLETED"
    [] action = "MARK_COMPLETED" -> "FAILED"
    [] OTHER                     -> "IN_PROGRESS"

\* Mutant: returning to progress leaves the task in DISPUTE.
StatusUnlessReturned(action) ==
  CASE action = "MARK_FAILED"    -> "FAILED"
    [] action = "MARK_COMPLETED" -> "COMPLETED"
    [] OTHER                     -> "DISPUTE"

StatusAfterResolution(action) ==
  CASE action = "MARK_FAILED"    -> "FAILED"
    [] action = "MARK_COMPLETED" -> "COMPLETED"
    [] OTHER                     -> "IN_PROGRESS"

ResolveWrite(t, S, action) ==
  /\ task' = [task EXCEPT ![t] =
                [@ EXCEPT !.status = StatusAfterResolution(action), !.deadline = "none"]]
  /\ Resolve(t, S, action)
  /\ UNCHANGED <<rejections, review, taskReport, hiringTables, projectTables>>

\* The moderator's handler asks for an open dispute, not for the status DISPUTE.
ResolveTaskDispute(t, action) ==
  /\ Live(task[t])
  /\ OpenDisputes(t) # {}
  /\ ResolveWrite(t, LatestOpen(t), action)

MayReview(row) ==
  Live(row) /\ row.status \in {"COMPLETED", "FAILED"} /\ row.accepted # NoDeveloper

ReviewWrite(t, author) ==
  /\ author \notin review[t]             \* unique (task, author)
  /\ review' = [review EXCEPT ![t] = @ \cup {author}]
  /\ UNCHANGED <<task, dispute, rejections, taskReport, hiringTables, projectTables>>

CreateReview(t, author) == MayReview(task[t]) /\ ReviewWrite(t, author)

-----------------------------------------------------------------------------
(* Projects and moderation *)

CreateProject(p, limit) ==
  /\ project[p].state = "ABSENT"
  /\ project' = [project EXCEPT ![p] = [@ EXCEPT !.state = "ACTIVE", !.maxTalents = limit]]
  /\ UNCHANGED <<task, taskTables, hiringTables, projectReport>>

UpdateProjectWrite(p, limit) ==
  /\ project' = [project EXCEPT ![p].maxTalents = limit]
  /\ UNCHANGED <<task, taskTables, hiringTables, projectReport>>

UpdateProject(p, limit) == LiveProject(project[p]) /\ UpdateProjectWrite(p, limit)

\* Archives the project and deletes every task of it, whatever its status.
ArchiveWrite(p) ==
  /\ project' = [project EXCEPT ![p].state = "ARCHIVED"]
  /\ task' = [t \in Tasks |-> IF task[t].project = p /\ Live(task[t])
                              THEN Deleted(task[t]) ELSE task[t]]

DeleteProjectWrite(p) ==
  ArchiveWrite(p) /\ UNCHANGED <<taskTables, hiringTables, projectReport>>

DeleteProject(p) == LiveProject(project[p]) /\ DeleteProjectWrite(p)

ReportTaskWrite(t, r) ==
  /\ taskReport[t][r] = "NONE"           \* unique (task, reporter)
  /\ taskReport' = [taskReport EXCEPT ![t][r] = "OPEN"]
  /\ UNCHANGED <<task, dispute, rejections, review, hiringTables, projectTables>>

ReportTask(t, r) == Live(task[t]) /\ ReportTaskWrite(t, r)

\* row is what the handler read of the task before its transaction.
ResolveTaskReportWrite(t, r, action, row) ==
  /\ task' = IF action = "DELETE" /\ Live(row)
             THEN [task EXCEPT ![t] = Deleted(@)] ELSE task
  /\ taskReport' = [taskReport EXCEPT ![t][r] = "RESOLVED"]
  /\ UNCHANGED <<dispute, rejections, review, hiringTables, projectTables>>

ResolveTaskReport(t, r, action) ==
  taskReport[t][r] = "OPEN" /\ ResolveTaskReportWrite(t, r, action, task[t])

ReportProject(p, r) ==
  /\ LiveProject(project[p])
  /\ projectReport[p][r] = "NONE"        \* unique (project, reporter)
  /\ projectReport' = [projectReport EXCEPT ![p][r] = "OPEN"]
  /\ UNCHANGED <<task, taskTables, hiringTables, project>>

ResolveProjectReport(p, r, action) ==
  /\ projectReport[p][r] = "OPEN"
  /\ projectReport' = [projectReport EXCEPT ![p][r] = "RESOLVED"]
  /\ IF action = "DELETE" /\ LiveProject(project[p])
     THEN ArchiveWrite(p)
     ELSE UNCHANGED <<task, project>>
  /\ UNCHANGED <<taskTables, hiringTables>>

-----------------------------------------------------------------------------
DraftStep(t) ==
  \/ \E p \in Projects \cup {NoProject} : CreateTaskDraft(t, p) \/ UpdateTaskDraft(t, p)
  \/ PublishTask(t) \/ CloseTask(t) \/ DeleteTask(t)

HiringStep(t) == \E d \in Developers :
  \/ ApplyToTask(t, d) \/ AcceptApplication(t, d) \/ RejectApplication(t, d)
  \/ CreateTaskInvite(t, d) \/ AcceptInvite(t, d)
  \/ DeclineInvite(t, d) \/ CancelInvite(t, d)

WorkStep(t) ==
  \/ GetThreadByTaskId(t)
  \/ \E d \in Developers : RequestTaskCompletion(t, d)
  \/ RejectTaskCompletion(t) \/ ConfirmTaskCompletion(t)
  \/ ResponseDeadlinePasses(t)
  \/ \E author \in Persona : CreateReview(t, author)

DisputeStep(t) ==
  \/ OpenTaskDispute(t)
  \/ \E d \in Developers : EscalateTaskCompletionDispute(t, d)
  \/ \E action \in ResolutionAction : ResolveTaskDispute(t, action)

TaskReportStep(t) == \E r \in Reporters :
  \/ ReportTask(t, r)
  \/ \E action \in ReportAction : ResolveTaskReport(t, r, action)

ProjectStep(p) ==
  \/ \E limit \in TalentLimits : CreateProject(p, limit) \/ UpdateProject(p, limit)
  \/ DeleteProject(p)
  \/ \E r \in Reporters : ReportProject(p, r)
  \/ \E r \in Reporters, action \in ReportAction : ResolveProjectReport(p, r, action)

Next ==
  \/ \E t \in Tasks : DraftStep(t) \/ HiringStep(t) \/ WorkStep(t)
                      \/ DisputeStep(t) \/ TaskReportStep(t)
  \/ \E p \in Projects : ProjectStep(p)

Spec == Init /\ [][Next]_vars

-----------------------------------------------------------------------------
(* What the handlers keep true, as long as they do not overlap *)

\* Every column holds a value of its type.
TypeOK ==
  /\ task \in [Tasks -> TaskRow]
  /\ application \in [Tasks -> [Developers -> ApplicationStatus]]
  /\ invite \in [Tasks -> [Developers -> InviteStatus]]
  /\ dispute \in [Tasks -> [DisputeIds -> DisputeStatus]]
  /\ rejections \in [Tasks -> SUBSET Nat]
  /\ thread \in [Tasks -> Developers \cup {NoDeveloper}]
  /\ review \in [Tasks -> SUBSET Persona]
  /\ told \in [Tasks -> [Developers -> SUBSET Outcome]]
  /\ taskReport \in [Tasks -> [Reporters -> ReportStatus]]
  /\ project \in [Projects -> ProjectRow]
  /\ projectReport \in [Projects -> [Reporters -> ReportStatus]]

\* deletedAt is set exactly on tasks whose status is DELETED: no later handler
\* gives a deleted task another status, although startTaskWithDeveloper and the
\* moderator's handlers never test both columns.
SoftDelete == \A t \in Tasks : task[t].deleted <=> task[t].status = "DELETED"

\* The developer a task points at is the one whose application is ACCEPTED, and
\* nobody else's is: acceptedApplicationId and the applications table, written by
\* different statements and by two ways of hiring, never disagree.
AcceptedApplication ==
  \A t \in Tasks, d \in Developers :
    application[t][d] = "ACCEPTED" <=> task[t].accepted = d

\* Work runs only with a developer, and an open task has none.
WorkHasDeveloper ==
  \A t \in Tasks :
    /\ task[t].status \in Started => task[t].accepted # NoDeveloper
    /\ task[t].status \in NotStarted => task[t].accepted = NoDeveloper

\* Once somebody has the task, no application waits for an answer that no
\* handler would give any more.
NobodyLeftWaiting ==
  \A t \in Tasks, d \in Developers :
    task[t].accepted # NoDeveloper => application[t][d] # "APPLIED"

\* Every answered applicant was notified of the answer, through whichever handler
\* it came (accept, reject, the bulk rejection of a start, an accepted invite).
ApplicantsWereTold ==
  \A t \in Tasks, d \in Developers :
    /\ application[t][d] = "REJECTED" => "APPLICATION_REJECTED" \in told[t][d]
    /\ application[t][d] = "ACCEPTED" <=> "APPLICATION_ACCEPTED" \in told[t][d]

\* An invite is ACCEPTED only by the developer who got the task, and then no other
\* invite of the task is still pending.
InviteSettled ==
  \A t \in Tasks, d \in Developers :
    invite[t][d] = "ACCEPTED" =>
      /\ task[t].accepted = d
      /\ \A e \in Developers : invite[t][e] # "PENDING"

\* The chat of a task is with the developer who has the task, whether it was
\* created by the accept, by the invite or later by opening the chat.
ThreadOfWorker ==
  \A t \in Tasks : thread[t] # NoDeveloper => thread[t] = task[t].accepted

\* The disputes table and the task's status agree: at most one dispute is open, a
\* task in DISPUTE has an open one (so a moderator can resolve it), and an open one
\* belongs to a task in DISPUTE, to one whose developer asked for completion from
\* there, or to a deleted task.
DisputeMatchesStatus ==
  \A t \in Tasks :
    /\ \A j, k \in OpenDisputes(t) : j = k
    /\ task[t].status = "DISPUTE" => OpenDisputes(t) # {}
    /\ OpenDisputes(t) # {} =>
         task[t].status \in {"DISPUTE", "COMPLETION_REQUESTED", "DELETED"}

\* A dispute recorded as MARK_COMPLETED or MARK_FAILED ended the task that way, and
\* nothing reopened it afterwards.
DisputeOutcomeStands ==
  \A t \in Tasks, k \in DisputeIds :
    /\ dispute[t][k] = "MARK_COMPLETED" => task[t].status \in {"COMPLETED", "DELETED"}
    /\ dispute[t][k] = "MARK_FAILED" => task[t].status \in {"FAILED", "DELETED"}

\* The rejection log is numbered 1, 2, ... up to the counter of the task, never
\* beyond the limit, and at the limit the task has failed.
RejectionLog ==
  \A t \in Tasks :
    /\ rejections[t] = 1..task[t].rejectionCount
    /\ task[t].rejectionCount <= MaxRejections
    /\ task[t].rejectionCount = MaxRejections => task[t].status \in {"FAILED", "DELETED"}

\* A response deadline exists while completion is requested and is gone once the
\* request was answered; a task back in progress never carries an old deadline that
\* would let the developer escalate the next request at once.
DeadlineMatchesStatus ==
  \A t \in Tasks :
    /\ task[t].status = "COMPLETION_REQUESTED" => task[t].deadline # "none"
    /\ task[t].deadline # "none" =>
         task[t].status \in {"COMPLETION_REQUESTED", "DISPUTE", "DELETED"}

\* Reviews exist only of finished work, and the finish they rate is never undone.
ReviewedIsFinished ==
  \A t \in Tasks :
    review[t] # {} => /\ task[t].status \in {"COMPLETED", "FAILED", "DELETED"}
                      /\ task[t].accepted # NoDeveloper

\* An archived project has no live task, whatever was moved or created into it.
ArchivedProjectIsEmpty ==
  \A t \in Tasks, p \in Projects :
    project[p].state = "ARCHIVED" /\ task[t].project = p => task[t].deleted

\* A dispute listed as OPEN offers the moderator its actions (dispute-list.js:29), so
\* an open dispute belongs to a task the resolve handler still finds.
OpenDisputeIsDecidable == \A t \in Tasks : OpenDisputes(t) # {} => Live(task[t])

\* A task once given to a developer is never given to another, and no handler takes
\* it back: every guard on acceptedApplicationId rests on this.
AcceptedForGood ==
  [][\A t \in Tasks : task[t].accepted # NoDeveloper =>
       task'[t].accepted = task[t].accepted]_vars
-----------------------------------------------------------------------------
(* The handlers implement the documented life of a task *)

stage     == [t \in Tasks |-> task[t].status]
worker    == [t \in Tasks |-> task[t].accepted]
attempts  == [t \in Tasks |-> task[t].rejectionCount]
contested == [t \in Tasks |-> OpenDisputes(t) # {}]

Lifecycle ==
  INSTANCE TaskLifecycle
    WITH Tasks <- Tasks, Developers <- Developers, NoDeveloper <- NoDeveloper,
         MaxRejections <- MaxRejections, stage <- stage, worker <- worker,
         attempts <- attempts, contested <- contested

\* Every handler moves a task along the documented arrows, and only there: in
\* particular a finished task changes only by being deleted, a rejection counts
\* exactly once, and a moderator never decides a finished task.
ImplementsLifecycle == Lifecycle!Spec
=============================================================================
