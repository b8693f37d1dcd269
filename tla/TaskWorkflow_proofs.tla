------------------------- MODULE TaskWorkflow_proofs -------------------------
(***************************************************************************)
(* Proofs about the serial task workflow, for every number of tasks,       *)
(* developers, projects and reporters and every rejection limit: what its  *)
(* handlers keep true, and that they implement the documented life of a    *)
(* task.                                                                   *)
(***************************************************************************)
EXTENDS TaskWorkflow, TLAPS

-----------------------------------------------------------------------------
(* Type correctness *)

LEMMA InitTypeOK == Init => TypeOK
  <1> SUFFICES ASSUME Init PROVE TypeOK
    OBVIOUS
  <1>1. NoTaskRow \in TaskRow
    BY DEF NoTaskRow, TaskRow, TaskStatus
  <1>2. NoProjectRow \in ProjectRow
    BY DEF NoProjectRow, ProjectRow
  <1> QED
    BY <1>1, <1>2 DEF Init, TypeOK, ApplicationStatus, InviteStatus, DisputeStatus,
       ReportStatus

\* A task row stays one when a handler changes its columns.
LEMMA RowType ==
  ASSUME NEW row \in TaskRow, NEW s \in TaskStatus, NEW dl \in {"none", "running", "passed"},
         NEW d \in Developers \cup {NoDeveloper}, NEW n \in Nat
  PROVE  /\ [row EXCEPT !.status = s] \in TaskRow
         /\ [row EXCEPT !.status = s, !.deadline = dl] \in TaskRow
         /\ [row EXCEPT !.status = s, !.accepted = d] \in TaskRow
         /\ [row EXCEPT !.status = s, !.deleted = TRUE] \in TaskRow
         /\ [row EXCEPT !.rejectionCount = n, !.deadline = dl, !.status = s] \in TaskRow
  BY DEF TaskRow

LEMMA StatusType ==
  /\ {"DRAFT", "PUBLISHED", "CLOSED", "DELETED", "IN_PROGRESS", "DISPUTE"} \subseteq TaskStatus
  /\ {"COMPLETION_REQUESTED", "COMPLETED", "FAILED"} \subseteq TaskStatus
  /\ \A n \in Nat : StatusAfterRejection(n) \in TaskStatus
  /\ \A action \in ResolutionAction : StatusAfterResolution(action) \in TaskStatus
  BY DEF TaskStatus, NotStarted, Started, StatusAfterRejection, StatusAfterResolution,
     ResolutionAction

LEMMA TableWrite ==
  ASSUME TypeOK, NEW t \in Tasks, NEW row \in TaskRow, task' = [task EXCEPT ![t] = row]
  PROVE  task' \in [Tasks -> TaskRow]
  BY DEF TypeOK

LEMMA OneRow == ASSUME TypeOK, NEW t \in Tasks PROVE task[t] \in TaskRow
  BY DEF TypeOK

\* A draft handler writes well-typed rows.
LEMMA DraftTypeOK == ASSUME TypeOK, NEW t \in Tasks, DraftStep(t) PROVE TypeOK'
  <1>1. ASSUME NEW p \in Projects \cup {NoProject}, CreateTaskDraft(t, p) PROVE TypeOK'
    BY <1>1 DEF CreateTaskDraft, CreateDraftWrite, TypeOK, TaskRow, TaskStatus,
       NotStarted, taskTables, hiringTables, projectTables
  <1>2. ASSUME NEW p \in Projects \cup {NoProject}, UpdateTaskDraft(t, p) PROVE TypeOK'
    BY <1>2 DEF UpdateTaskDraft, UpdateDraftWrite, TypeOK, TaskRow,
       taskTables, hiringTables, projectTables
  <1>3. ASSUME PublishTask(t) PROVE TypeOK'
    <2>1. task' \in [Tasks -> TaskRow]
      <3>1. task' = [task EXCEPT ![t] = [task[t] EXCEPT !.status = "PUBLISHED"]]
        BY <1>3 DEF PublishTask, PublishWrite
      <3> QED
        BY <3>1, OneRow, RowType, StatusType, TableWrite
    <2>2. project' \in [Projects -> ProjectRow]
      <3> DEFINE p == task[t].project
      <3>1. project' = IF p = NoProject THEN project
                       ELSE [project EXCEPT ![p] =
                               [project[p] EXCEPT !.publishedTasksCount = @ + 1]]
        BY <1>3 DEF PublishTask, PublishWrite
      <3>2. p \in Projects \cup {NoProject}
        BY OneRow DEF TaskRow
      <3>3. ASSUME NEW q \in Projects
            PROVE [project[q] EXCEPT !.publishedTasksCount = @ + 1] \in ProjectRow
        <4>1. project[q] \in ProjectRow
          BY DEF TypeOK
        <4>2. ASSUME NEW row \in ProjectRow, NEW n \in Nat
              PROVE [row EXCEPT !.publishedTasksCount = n] \in ProjectRow
          BY DEF ProjectRow
        <4>3. project[q].publishedTasksCount + 1 \in Nat
          BY <4>1 DEF ProjectRow
        <4> QED
          BY <4>1, <4>2, <4>3
      <3>4. project \in [Projects -> ProjectRow]
        BY DEF TypeOK
      <3> HIDE DEF p
      <3> QED
        BY <3>1, <3>2, <3>3, <3>4
    <2> QED
      BY <1>3, <2>1, <2>2 DEF PublishTask, PublishWrite, TypeOK, taskTables, hiringTables
  <1>4. ASSUME CloseTask(t) PROVE TypeOK'
    BY <1>4 DEF CloseTask, CloseWrite, TypeOK, TaskRow, TaskStatus,
       NotStarted, taskTables, hiringTables, projectTables
  <1>5. ASSUME DeleteTask(t) PROVE TypeOK'
    BY <1>5 DEF DeleteTask, DeleteWrite, Deleted, TypeOK, TaskRow, TaskStatus,
       taskTables, hiringTables, projectTables
  <1> QED
    BY <1>1, <1>2, <1>3, <1>4, <1>5 DEF DraftStep

\* A hiring handler writes well-typed rows.
LEMMA HiringTypeOK == ASSUME TypeOK, NEW t \in Tasks, HiringStep(t) PROVE TypeOK'
  <1> PICK d \in Developers :
        \/ ApplyToTask(t, d) \/ AcceptApplication(t, d) \/ RejectApplication(t, d)
        \/ CreateTaskInvite(t, d) \/ AcceptInvite(t, d)
        \/ DeclineInvite(t, d) \/ CancelInvite(t, d)
    BY DEF HiringStep
  <1>1. ASSUME ApplyToTask(t, d) PROVE TypeOK'
    BY <1>1 DEF ApplyToTask, ApplyWrite, TypeOK, ApplicationStatus, taskTables, projectTables
  <1>s. ASSUME NEW app, StartWrite(t, d, app), ThreadAfterStart(t, d)
        PROVE /\ task' \in [Tasks -> TaskRow]
              /\ application' \in [Tasks -> [Developers -> ApplicationStatus]]
              /\ told' \in [Tasks -> [Developers -> SUBSET Outcome]]
              /\ thread' \in [Tasks -> Developers \cup {NoDeveloper}]
    <2>1. task' \in [Tasks -> TaskRow]
      <3>1. task' = [task EXCEPT ![t] =
                       [task[t] EXCEPT !.status = "IN_PROGRESS", !.accepted = d]]
        BY <1>s DEF StartWrite
      <3> QED
        BY <3>1, OneRow, RowType, StatusType, TableWrite
    <2>2. application' \in [Tasks -> [Developers -> ApplicationStatus]]
      BY <1>s DEF StartWrite, TypeOK, ApplicationStatus
    <2>3. told' \in [Tasks -> [Developers -> SUBSET Outcome]]
      BY <1>s DEF StartWrite, TypeOK, Outcome
    <2>4. thread' \in [Tasks -> Developers \cup {NoDeveloper}]
      BY <1>s DEF ThreadAfterStart, GetOrCreateChatThread, TypeOK
    <2> QED
      BY <2>1, <2>2, <2>3, <2>4
  <1>2. ASSUME AcceptApplication(t, d) PROVE TypeOK'
    BY <1>2, <1>s DEF AcceptApplication, AcceptApplicationWrite, TypeOK, taskTables,
       projectTables
  <1>3. ASSUME RejectApplication(t, d) PROVE TypeOK'
    BY <1>3 DEF RejectApplication, RejectApplicationWrite, TypeOK, ApplicationStatus,
       Outcome, taskTables, projectTables
  <1>4. ASSUME CreateTaskInvite(t, d) PROVE TypeOK'
    BY <1>4 DEF CreateTaskInvite, InviteWrite, TypeOK, InviteStatus, taskTables, projectTables
  <1>5. ASSUME AcceptInvite(t, d) PROVE TypeOK'
    <2>1. invite' \in [Tasks -> [Developers -> InviteStatus]]
      BY <1>5 DEF AcceptInvite, AcceptInviteWrite, TypeOK, InviteStatus
    <2> QED
      BY <1>5, <1>s, <2>1 DEF AcceptInvite, AcceptInviteWrite, TypeOK, taskTables,
         projectTables
  <1>6. ASSUME NEW answer \in InviteStatus, AnswerInviteWrite(t, d, answer) PROVE TypeOK'
    BY <1>6 DEF AnswerInviteWrite, TypeOK, taskTables, projectTables
  <1>7. ASSUME DeclineInvite(t, d) \/ CancelInvite(t, d) PROVE TypeOK'
    BY <1>6, <1>7 DEF DeclineInvite, CancelInvite, InviteStatus
  <1> QED
    BY <1>1, <1>2, <1>3, <1>4, <1>5, <1>7

\* Closing disputes keeps the disputes table well typed.
LEMMA ResolveTypeOK ==
  ASSUME TypeOK, NEW t \in Tasks, NEW S, NEW action \in ResolutionAction,
         Resolve(t, S, action)
  PROVE  dispute' \in [Tasks -> [DisputeIds -> DisputeStatus]]
  BY DEF Resolve, TypeOK, DisputeStatus

\* A completion handler, a review or the passing of a deadline writes well-typed rows.
LEMMA WorkTypeOK == ASSUME TypeOK, NEW t \in Tasks, WorkStep(t) PROVE TypeOK'
  <1>1. ASSUME GetThreadByTaskId(t) PROVE TypeOK'
    BY <1>1 DEF GetThreadByTaskId, GetOrCreateChatThread, TypeOK, TaskRow, taskTables,
       projectTables
  <1>2. ASSUME NEW d \in Developers, RequestTaskCompletion(t, d) PROVE TypeOK'
    <2>1. task' = [task EXCEPT ![t] =
                     [task[t] EXCEPT !.status = "COMPLETION_REQUESTED", !.deadline = "running"]]
      BY <1>2 DEF RequestTaskCompletion, RequestCompletionWrite
    <2>2. task' \in [Tasks -> TaskRow]
      BY <2>1, OneRow, RowType, StatusType, TableWrite
    <2> QED
      BY <1>2, <2>2 DEF RequestTaskCompletion, RequestCompletionWrite, TypeOK, taskTables,
         hiringTables, projectTables
  <1>3. ASSUME RejectTaskCompletion(t) PROVE TypeOK'
    <2>1. task[t].rejectionCount + 1 \in Nat
      BY DEF TypeOK, TaskRow
    <2>2. task' \in [Tasks -> TaskRow]
      <3>1. task' = [task EXCEPT ![t] = [task[t] EXCEPT
                       !.rejectionCount = task[t].rejectionCount + 1, !.deadline = "none",
                       !.status = StatusAfterRejection(task[t].rejectionCount + 1)]]
        BY <1>3 DEF RejectTaskCompletion, RejectCompletionWrite
      <3> QED
        BY <2>1, <3>1, OneRow, RowType, StatusType, TableWrite
    <2>3. rejections' \in [Tasks -> SUBSET Nat]
      BY <1>3, <2>1 DEF RejectTaskCompletion, RejectCompletionWrite, TypeOK
    <2>4. dispute' \in [Tasks -> [DisputeIds -> DisputeStatus]]
      BY <1>3, ResolveTypeOK DEF RejectTaskCompletion, RejectCompletionWrite,
         RejectionResolution, ResolutionAction
    <2> QED
      BY <1>3, <2>2, <2>3, <2>4 DEF RejectTaskCompletion, RejectCompletionWrite, TypeOK,
         hiringTables, projectTables
  <1>4. ASSUME ConfirmTaskCompletion(t) PROVE TypeOK'
    <2>1. task' \in [Tasks -> TaskRow]
      <3>1. task' = [task EXCEPT ![t] =
                       [task[t] EXCEPT !.status = "COMPLETED", !.deadline = "none"]]
        BY <1>4 DEF ConfirmTaskCompletion, ConfirmWrite
      <3> QED
        BY <3>1, OneRow, RowType, StatusType, TableWrite
    <2>2. dispute' \in [Tasks -> [DisputeIds -> DisputeStatus]]
      BY <1>4, ResolveTypeOK DEF ConfirmTaskCompletion, ConfirmWrite, ResolutionAction
    <2> QED
      BY <1>4, <2>1, <2>2 DEF ConfirmTaskCompletion, ConfirmWrite, TypeOK, hiringTables,
         projectTables
  <1>5. ASSUME ResponseDeadlinePasses(t) PROVE TypeOK'
    BY <1>5 DEF ResponseDeadlinePasses, TypeOK, TaskRow, taskTables, hiringTables,
       projectTables
  <1>6. ASSUME NEW author \in Persona, CreateReview(t, author) PROVE TypeOK'
    BY <1>6 DEF CreateReview, ReviewWrite, TypeOK, hiringTables, projectTables
  <1> QED
    BY <1>1, <1>2, <1>3, <1>4, <1>5, <1>6 DEF WorkStep

\* A dispute handler writes well-typed rows.
LEMMA DisputeTypeOK == ASSUME TypeOK, NEW t \in Tasks, DisputeStep(t) PROVE TypeOK'
  <1>1. ASSUME DisputeWrite(t) PROVE TypeOK'
    <2>1. task' \in [Tasks -> TaskRow]
      <3>1. task' = [task EXCEPT ![t] = [task[t] EXCEPT !.status = "DISPUTE"]]
        BY <1>1 DEF DisputeWrite
      <3> QED
        BY <3>1, OneRow, RowType, StatusType, TableWrite
    <2>2. dispute' \in [Tasks -> [DisputeIds -> DisputeStatus]]
      BY <1>1 DEF DisputeWrite, TypeOK, DisputeStatus
    <2> QED
      BY <1>1, <2>1, <2>2 DEF DisputeWrite, TypeOK, hiringTables, projectTables
  <1>2. ASSUME NEW action \in ResolutionAction, ResolveTaskDispute(t, action) PROVE TypeOK'
    <2>1. task' \in [Tasks -> TaskRow]
      <3>1. task' = [task EXCEPT ![t] =
                       [task[t] EXCEPT !.status = StatusAfterResolution(action),
                                       !.deadline = "none"]]
        BY <1>2 DEF ResolveTaskDispute, ResolveWrite
      <3> QED
        BY <3>1, OneRow, RowType, StatusType, TableWrite
    <2>2. dispute' \in [Tasks -> [DisputeIds -> DisputeStatus]]
      BY <1>2, ResolveTypeOK DEF ResolveTaskDispute, ResolveWrite
    <2> QED
      BY <1>2, <2>1, <2>2 DEF ResolveTaskDispute, ResolveWrite, TypeOK, hiringTables,
         projectTables
  <1> QED
    BY <1>1, <1>2 DEF DisputeStep, OpenTaskDispute, EscalateTaskCompletionDispute

\* A report handler writes well-typed rows.
LEMMA ReportTypeOK == ASSUME TypeOK, NEW t \in Tasks, TaskReportStep(t) PROVE TypeOK'
  <1>1. ASSUME NEW r \in Reporters, ReportTask(t, r) PROVE TypeOK'
    BY <1>1 DEF ReportTask, ReportTaskWrite, TypeOK, ReportStatus, hiringTables, projectTables
  <1>2. ASSUME NEW r \in Reporters, NEW action \in ReportAction, ResolveTaskReport(t, r, action)
        PROVE TypeOK'
    <2>1. task' \in [Tasks -> TaskRow]
      <3>1. Deleted(task[t]) \in TaskRow
        BY OneRow, RowType, StatusType DEF Deleted
      <3>2. task' = task \/ task' = [task EXCEPT ![t] = Deleted(task[t])]
        BY <1>2 DEF ResolveTaskReport, ResolveTaskReportWrite
      <3> QED
        BY <3>1, <3>2, TableWrite DEF TypeOK
    <2> QED
      BY <1>2, <2>1 DEF ResolveTaskReport, ResolveTaskReportWrite, TypeOK, ReportStatus,
         hiringTables, projectTables
  <1> QED
    BY <1>1, <1>2 DEF TaskReportStep

\* A project handler writes well-typed rows.
LEMMA ProjectTypeOK ==
  ASSUME TypeOK, NEW p \in Projects, ProjectStep(p)
  PROVE  TypeOK'
  <1>1. ASSUME NEW limit \in TalentLimits, CreateProject(p, limit) PROVE TypeOK'
    <2>1. project' \in [Projects -> ProjectRow]
      BY <1>1, ConstantsAssumption DEF CreateProject, TypeOK, ProjectRow
    <2> QED
      BY <1>1, <2>1 DEF CreateProject, TypeOK, taskTables, hiringTables
  <1>2. ASSUME NEW limit \in TalentLimits, UpdateProject(p, limit) PROVE TypeOK'
    <2>1. project' \in [Projects -> ProjectRow]
      BY <1>2, ConstantsAssumption DEF UpdateProject, UpdateProjectWrite, TypeOK, ProjectRow
    <2> QED
      BY <1>2, <2>1 DEF UpdateProject, UpdateProjectWrite, TypeOK, taskTables, hiringTables
  <1>a. ASSUME ArchiveWrite(p)
        PROVE /\ task' \in [Tasks -> TaskRow]
              /\ project' \in [Projects -> ProjectRow]
    <2>1. task' \in [Tasks -> TaskRow]
      <3>1. \A t \in Tasks : task[t] \in TaskRow /\ Deleted(task[t]) \in TaskRow
        BY OneRow, RowType, StatusType DEF Deleted
      <3> QED
        BY <1>a, <3>1 DEF ArchiveWrite
    <2>2. project' \in [Projects -> ProjectRow]
      BY <1>a DEF ArchiveWrite, TypeOK, ProjectRow
    <2> QED
      BY <2>1, <2>2
  <1>3. ASSUME DeleteProject(p) PROVE TypeOK'
    BY <1>3, <1>a DEF DeleteProject, DeleteProjectWrite, TypeOK, taskTables, hiringTables
  <1>4. ASSUME NEW r \in Reporters, ReportProject(p, r) PROVE TypeOK'
    BY <1>4 DEF ReportProject, TypeOK, ReportStatus, taskTables, hiringTables
  <1>5. ASSUME NEW r \in Reporters, NEW action \in ReportAction,
               ResolveProjectReport(p, r, action)
        PROVE TypeOK'
    BY <1>5, <1>a DEF ResolveProjectReport, TypeOK, ReportStatus, taskTables, hiringTables
  <1> QED
    BY <1>1, <1>2, <1>3, <1>4, <1>5 DEF ProjectStep

LEMMA NextTypeOK == TypeOK /\ [Next]_vars => TypeOK'
  <1>1. ASSUME TypeOK, UNCHANGED vars PROVE TypeOK'
    BY <1>1 DEF TypeOK, vars, taskTables, hiringTables, projectTables
  <1> QED
    BY <1>1, DraftTypeOK, HiringTypeOK, WorkTypeOK, DisputeTypeOK, ReportTypeOK,
       ProjectTypeOK DEF Next

\* Whatever requests the API serves, every column keeps its type: in particular the
\* resolution written with a dispute is one of the enum's actions, and the rejection
\* counter stays a natural number.
THEOREM TypeCorrect == Spec => []TypeOK
  BY InitTypeOK, NextTypeOK, PTL DEF Spec
-----------------------------------------------------------------------------
(* The inductive invariant, task by task.  Nothing a handler does to one    *)
(* task depends on the rows of another, so a step is checked on the task it *)
(* is about, and the rows of the others are the same as before.            *)

\* The columns of the task agree: an absent row is empty, a deleted one has
\* deletedAt, only open tasks are without a developer, only answers that are still
\* due have a deadline.
RowOK(t) ==
  /\ task[t].status = "ABSENT" =>
       /\ task[t].accepted = NoDeveloper /\ task[t].rejectionCount = 0
       /\ task[t].deadline = "none" /\ ~task[t].deleted
  /\ task[t].deleted <=> task[t].status = "DELETED"
  /\ task[t].status \in Started => task[t].accepted # NoDeveloper
  /\ task[t].status \in NotStarted => task[t].accepted = NoDeveloper
  /\ task[t].status = "COMPLETION_REQUESTED" => task[t].deadline # "none"
  /\ task[t].deadline # "none" =>
       task[t].status \in {"COMPLETION_REQUESTED", "DISPUTE", "DELETED"}

\* Applications, notifications, invites and the chat agree about who has the task.
HiredOK(t) ==
  /\ \A d \in Developers :
       /\ application[t][d] = "ACCEPTED" <=> task[t].accepted = d
       /\ task[t].accepted # NoDeveloper => application[t][d] # "APPLIED"
       /\ application[t][d] = "REJECTED" => "APPLICATION_REJECTED" \in told[t][d]
       /\ application[t][d] = "ACCEPTED" <=> "APPLICATION_ACCEPTED" \in told[t][d]
       /\ invite[t][d] = "ACCEPTED" =>
            /\ task[t].accepted = d
            /\ \A e \in Developers : invite[t][e] # "PENDING"
  /\ thread[t] # NoDeveloper => thread[t] = task[t].accepted

\* The disputes, the rejection log and the reviews agree with the status.
WorkedOK(t) ==
  /\ \A j, k \in DisputeIds : dispute[t][j] = "OPEN" /\ dispute[t][k] = "OPEN" => j = k
  /\ task[t].status = "DISPUTE" => \E k \in DisputeIds : dispute[t][k] = "OPEN"
  /\ \A k \in DisputeIds :
       /\ dispute[t][k] = "OPEN" =>
            task[t].status \in {"DISPUTE", "COMPLETION_REQUESTED", "DELETED"}
       /\ dispute[t][k] = "MARK_COMPLETED" => task[t].status \in {"COMPLETED", "DELETED"}
       /\ dispute[t][k] = "MARK_FAILED" => task[t].status \in {"FAILED", "DELETED"}
  /\ rejections[t] = 1..task[t].rejectionCount
  /\ task[t].rejectionCount <= MaxRejections
  /\ task[t].rejectionCount = MaxRejections => task[t].status \in {"FAILED", "DELETED"}
  /\ review[t] # {} => /\ task[t].status \in {"COMPLETED", "FAILED", "DELETED"}
                       /\ task[t].accepted # NoDeveloper

TaskOK(t) == RowOK(t) /\ HiredOK(t) /\ WorkedOK(t)

IInv == TypeOK /\ \A t \in Tasks : TaskOK(t)

LEMMA InitIInv == Init => IInv
  <1> SUFFICES ASSUME Init, NEW t \in Tasks PROVE TaskOK(t)
    BY InitTypeOK DEF IInv
  <1>1. task[t] = NoTaskRow
    BY DEF Init
  <1>2. RowOK(t)
    BY <1>1 DEF RowOK, NoTaskRow, Started, NotStarted
  <1>3. HiredOK(t)
    BY <1>1, ConstantsAssumption DEF HiredOK, Init, NoTaskRow
  <1>4. WorkedOK(t)
    BY <1>1, ConstantsAssumption DEF WorkedOK, Init, NoTaskRow
  <1> QED
    BY <1>2, <1>3, <1>4 DEF TaskOK

-----------------------------------------------------------------------------
(* What a write does to the row of its task and to the rows of the others *)

\* The row of t after the step.
Becomes(t, s, a, c, dl, x) ==
  /\ task'[t].status = s /\ task'[t].accepted = a /\ task'[t].rejectionCount = c
  /\ task'[t].deadline = dl /\ task'[t].deleted = x

SameHiring(t) ==
  /\ application'[t] = application[t] /\ invite'[t] = invite[t]
  /\ thread'[t] = thread[t] /\ told'[t] = told[t]
SameWork(t) ==
  dispute'[t] = dispute[t] /\ rejections'[t] = rejections[t] /\ review'[t] = review[t]
SameColumns(t) ==
  Becomes(t, task[t].status, task[t].accepted, task[t].rejectionCount,
          task[t].deadline, task[t].deleted)
Same(t) == SameColumns(t) /\ SameHiring(t) /\ SameWork(t)

LEMMA SameTaskOK == ASSUME NEW t \in Tasks, TaskOK(t), Same(t) PROVE TaskOK(t)'
  <1>1. RowOK(t)'
    BY DEF TaskOK, RowOK, Same, SameColumns, Becomes
  <1>2. HiredOK(t)'
    BY DEF TaskOK, HiredOK, Same, SameColumns, SameHiring, Becomes
  <1>3. WorkedOK(t)'
    BY DEF TaskOK, WorkedOK, Same, SameColumns, SameWork, Becomes
  <1> QED
    BY <1>1, <1>2, <1>3 DEF TaskOK

LEMMA RowWrite ==
  ASSUME TypeOK, NEW t \in Tasks, NEW row, task' = [task EXCEPT ![t] = row]
  PROVE  task'[t] = row /\ \A u \in Tasks \ {t} : task'[u] = task[u]
  BY DEF TypeOK

\* The columns of a row that a handler changed.
LEMMA RowColumns ==
  ASSUME NEW row \in TaskRow, NEW t, NEW s, NEW dl, NEW d, NEW n
  PROVE  /\ task'[t] = [row EXCEPT !.status = s] =>
              Becomes(t, s, row.accepted, row.rejectionCount, row.deadline, row.deleted)
         /\ task'[t] = [row EXCEPT !.deadline = dl] =>
              Becomes(t, row.status, row.accepted, row.rejectionCount, dl, row.deleted)
         /\ task'[t] = [row EXCEPT !.status = s, !.deadline = dl] =>
              Becomes(t, s, row.accepted, row.rejectionCount, dl, row.deleted)
         /\ task'[t] = [row EXCEPT !.status = s, !.accepted = d] =>
              Becomes(t, s, d, row.rejectionCount, row.deadline, row.deleted)
         /\ task'[t] = [row EXCEPT !.status = s, !.deleted = TRUE] =>
              Becomes(t, s, row.accepted, row.rejectionCount, row.deadline, TRUE)
         /\ task'[t] = [row EXCEPT !.project = d] =>
              Becomes(t, row.status, row.accepted, row.rejectionCount, row.deadline,
                      row.deleted)
         /\ task'[t] = [row EXCEPT !.status = s, !.project = d] =>
              Becomes(t, s, row.accepted, row.rejectionCount, row.deadline, row.deleted)
         /\ task'[t] = [row EXCEPT !.rejectionCount = n, !.deadline = dl, !.status = s] =>
              Becomes(t, s, row.accepted, n, dl, row.deleted)
  BY DEF TaskRow, Becomes

-----------------------------------------------------------------------------
(* Every handler keeps the invariant *)

LEMMA OneTask ==
  ASSUME IInv, NEW t \in Tasks, TaskOK(t)', \A u \in Tasks \ {t} : Same(u)
  PROVE  \A u \in Tasks : TaskOK(u)'
  BY SameTaskOK DEF IInv

LEMMA SameRow == ASSUME NEW t, task'[t] = task[t] PROVE SameColumns(t)
  BY DEF SameColumns, Becomes

LEMMA OtherRows ==
  ASSUME TypeOK, NEW t \in Tasks, NEW row, task' = [task EXCEPT ![t] = row]
  PROVE  task'[t] = row /\ \A u \in Tasks \ {t} : SameColumns(u)
  BY RowWrite, SameRow

\* Deleting a task, whatever its status, by its owner, a moderator or with its project.
LEMMA DeletedOK ==
  ASSUME TypeOK, NEW t \in Tasks, TaskOK(t), task[t].status # "ABSENT",
         task'[t] = Deleted(task[t]), SameHiring(t), SameWork(t)
  PROVE  TaskOK(t)'
  <1>1. Becomes(t, "DELETED", task[t].accepted, task[t].rejectionCount, task[t].deadline,
                TRUE)
    BY OneRow, RowColumns DEF Deleted
  <1> QED
    BY <1>1 DEF TaskOK, RowOK, HiredOK, WorkedOK, Becomes, SameHiring, SameWork, Started,
       NotStarted

\* Drafting, publishing, closing and deleting touch the row of the task alone.
LEMMA DraftIInv ==
  ASSUME IInv, NEW t \in Tasks, DraftStep(t)
  PROVE  \A u \in Tasks : TaskOK(u)'
  <1> USE DEF IInv
  <1>0. task[t] \in TaskRow
    BY OneRow
  <1>a. ASSUME UNCHANGED <<application, invite, thread, told, dispute, rejections, review>>
        PROVE \A u \in Tasks : SameHiring(u) /\ SameWork(u)
    BY <1>a DEF SameHiring, SameWork
  <1>b. ASSUME Becomes(t, "PUBLISHED", task[t].accepted, task[t].rejectionCount,
                       task[t].deadline, task[t].deleted),
               MayPublish(task[t]), SameHiring(t), SameWork(t)
        PROVE TaskOK(t)'
    BY <1>b DEF TaskOK, RowOK, HiredOK, WorkedOK, Becomes, SameHiring, SameWork, MayPublish,
       Live, Started, NotStarted
  <1>c. ASSUME Becomes(t, "CLOSED", task[t].accepted, task[t].rejectionCount,
                       task[t].deadline, task[t].deleted),
               MayClose(task[t]), SameHiring(t), SameWork(t)
        PROVE TaskOK(t)'
    BY <1>c DEF TaskOK, RowOK, HiredOK, WorkedOK, Becomes, SameHiring, SameWork, MayClose,
       Live, Started, NotStarted
  <1>d. ASSUME Becomes(t, "DRAFT", task[t].accepted, task[t].rejectionCount,
                       task[t].deadline, task[t].deleted),
               task[t].status = "ABSENT", SameHiring(t), SameWork(t)
        PROVE TaskOK(t)'
    BY <1>d, ConstantsAssumption DEF TaskOK, RowOK, HiredOK, WorkedOK, Becomes, SameHiring,
       SameWork, Started, NotStarted
  <1>1. ASSUME NEW p \in Projects \cup {NoProject}, CreateTaskDraft(t, p)
        PROVE \A u \in Tasks : TaskOK(u)'
    <2>1. task' = [task EXCEPT ![t] = [task[t] EXCEPT !.status = "DRAFT", !.project = p]]
      BY <1>1 DEF CreateTaskDraft, CreateDraftWrite
    <2>2. UNCHANGED <<application, invite, thread, told, dispute, rejections, review>>
          /\ task[t].status = "ABSENT"
      BY <1>1 DEF CreateTaskDraft, CreateDraftWrite, taskTables, hiringTables
    <2>3. task'[t] = [task[t] EXCEPT !.status = "DRAFT", !.project = p]
          /\ \A u \in Tasks \ {t} : SameColumns(u)
      BY <2>1, OtherRows
    <2>4. Becomes(t, "DRAFT", task[t].accepted, task[t].rejectionCount, task[t].deadline,
                  task[t].deleted)
      BY <1>0, <2>3, RowColumns
    <2> QED
      BY <1>a, <1>d, <2>2, <2>3, <2>4, OneTask DEF Same
  <1>2. ASSUME NEW p \in Projects \cup {NoProject}, UpdateTaskDraft(t, p)
        PROVE \A u \in Tasks : TaskOK(u)'
    <2>1. task' = [task EXCEPT ![t] = [task[t] EXCEPT !.project = p]]
      BY <1>2 DEF UpdateTaskDraft, UpdateDraftWrite
    <2>2. UNCHANGED <<application, invite, thread, told, dispute, rejections, review>>
      BY <1>2 DEF UpdateTaskDraft, UpdateDraftWrite, taskTables, hiringTables
    <2>3. SameColumns(t)
      BY <1>0, <2>1, OtherRows, RowColumns DEF SameColumns
    <2> QED
      BY <1>a, <2>1, <2>2, <2>3, OtherRows, SameTaskOK DEF Same
  <1>3. ASSUME PublishTask(t) PROVE \A u \in Tasks : TaskOK(u)'
    <2>1. task' = [task EXCEPT ![t] = [task[t] EXCEPT !.status = "PUBLISHED"]]
      BY <1>3 DEF PublishTask, PublishWrite
    <2>2. UNCHANGED <<application, invite, thread, told, dispute, rejections, review>>
          /\ MayPublish(task[t])
      BY <1>3 DEF PublishTask, PublishWrite, taskTables, hiringTables
    <2> QED
      BY <1>0, <1>a, <1>b, <2>1, <2>2, OtherRows, RowColumns, OneTask DEF Same
  <1>4. ASSUME CloseTask(t) PROVE \A u \in Tasks : TaskOK(u)'
    <2>1. task' = [task EXCEPT ![t] = [task[t] EXCEPT !.status = "CLOSED"]]
      BY <1>4 DEF CloseTask, CloseWrite
    <2>2. UNCHANGED <<application, invite, thread, told, dispute, rejections, review>>
          /\ MayClose(task[t])
      BY <1>4 DEF CloseTask, CloseWrite, taskTables, hiringTables
    <2> QED
      BY <1>0, <1>a, <1>c, <2>1, <2>2, OtherRows, RowColumns, OneTask DEF Same
  <1>5. ASSUME DeleteTask(t) PROVE \A u \in Tasks : TaskOK(u)'
    <2>1. task' = [task EXCEPT ![t] = Deleted(task[t])]
      BY <1>5 DEF DeleteTask, DeleteWrite
    <2>2. UNCHANGED <<application, invite, thread, told, dispute, rejections, review>>
          /\ task[t].status # "ABSENT"
      BY <1>5 DEF DeleteTask, DeleteWrite, MayDelete, Live, taskTables, hiringTables
    <2> QED
      BY <1>0, <1>a, <2>1, <2>2, OtherRows, DeletedOK, OneTask DEF Same
  <1> QED
    BY <1>1, <1>2, <1>3, <1>4, <1>5 DEF DraftStep

LEMMA Outcomes == "APPLICATION_ACCEPTED" # "APPLICATION_REJECTED"
  OBVIOUS

\* Hiring: the task gets its developer, everybody who waited is refused and told.
LEMMA StartOK ==
  ASSUME IInv, NEW t \in Tasks, NEW d \in Developers, MayStart(task[t]),
         StartWrite(t, d, application[t][d]), ThreadAfterStart(t, d),
         UNCHANGED <<dispute, rejections, review>>,
         \A u \in Tasks \ {t} : invite'[u] = invite[u],
         \/ invite'[t] = invite[t]
         \/ \A e \in Developers :
              invite'[t][e] = IF e = d THEN "ACCEPTED"
                              ELSE IF invite[t][e] = "PENDING" THEN "CANCELLED"
                              ELSE invite[t][e]
  PROVE  \A u \in Tasks : TaskOK(u)'
  <1> USE DEF IInv
  <1>1. Becomes(t, "IN_PROGRESS", d, task[t].rejectionCount, task[t].deadline,
                task[t].deleted)
    <2>1. task' = [task EXCEPT ![t] =
                     [task[t] EXCEPT !.status = "IN_PROGRESS", !.accepted = d]]
      BY DEF StartWrite
    <2> QED
      BY <2>1, OneRow, RowWrite, RowColumns
  <1>2. \A u \in Tasks \ {t} : SameColumns(u)
    <2>1. \A u \in Tasks \ {t} : task'[u] = task[u]
      BY DEF StartWrite, TypeOK
    <2> QED
      BY <2>1, SameRow
  <1>3. task[t].status = "PUBLISHED" /\ task[t].accepted = NoDeveloper /\ d # NoDeveloper
    BY ConstantsAssumption DEF MayStart
  <1>4. \A e \in Developers :
          application'[t][e] = IF e = d THEN "ACCEPTED"
                               ELSE IF application[t][e] = "APPLIED" THEN "REJECTED"
                               ELSE application[t][e]
    BY DEF StartWrite, Waiting, TypeOK
  <1>5. \A e \in Developers :
          told'[t][e] = IF e = d THEN told[t][e] \cup {"APPLICATION_ACCEPTED"}
                        ELSE IF application[t][e] = "APPLIED"
                             THEN told[t][e] \cup {"APPLICATION_REJECTED"}
                        ELSE told[t][e]
    BY DEF StartWrite, Waiting, TypeOK
  <1>6. thread'[t] \in {thread[t], d}
    BY DEF ThreadAfterStart, GetOrCreateChatThread, TypeOK
  <1>7. \A u \in Tasks \ {t} : SameHiring(u) /\ SameWork(u)
    BY DEF StartWrite, ThreadAfterStart, GetOrCreateChatThread, TypeOK, SameHiring, SameWork
  <1>8. RowOK(t)'
    BY <1>1, <1>3 DEF TaskOK, RowOK, Becomes, Started, NotStarted
  <1>9. HiredOK(t)'
    <2>1. \A e \in Developers : application[t][e] # "ACCEPTED" /\ invite[t][e] # "ACCEPTED"
                                /\ "APPLICATION_ACCEPTED" \notin told[t][e]
      BY <1>3, ConstantsAssumption DEF TaskOK, HiredOK
    <2>2. thread'[t] # NoDeveloper => thread'[t] = d
      BY <1>3, <1>6 DEF TaskOK, HiredOK
    <2>3. task'[t].accepted = d
      BY <1>1 DEF Becomes
    <2>4. \A e \in Developers :
             /\ application'[t][e] = "ACCEPTED" <=> e = d
             /\ application'[t][e] # "APPLIED"
             /\ application'[t][e] = "REJECTED" => "APPLICATION_REJECTED" \in told'[t][e]
             /\ e = d <=> "APPLICATION_ACCEPTED" \in told'[t][e]
      <3> TAKE e \in Developers
      <3>1. application[t][e] = "REJECTED" => "APPLICATION_REJECTED" \in told[t][e]
        BY DEF TaskOK, HiredOK
      <3>2. "APPLICATION_ACCEPTED" \in told'[t][e] <=> e = d
        BY <1>5, <2>1, Outcomes
      <3>3. e # d /\ application[t][e] = "APPLIED" => "APPLICATION_REJECTED" \in told'[t][e]
        BY <1>5
      <3>4. told[t][e] \subseteq told'[t][e]
        BY <1>5
      <3> QED
        BY <1>4, <2>1, <3>1, <3>2, <3>3, <3>4
    <2>5. \A e \in Developers :
             invite'[t][e] = "ACCEPTED" =>
               e = d /\ \A f \in Developers : invite'[t][f] # "PENDING"
      BY <2>1
    <2> QED
      BY <2>2, <2>3, <2>4, <2>5 DEF HiredOK
  <1>10. WorkedOK(t)'
    BY <1>1, <1>3 DEF TaskOK, WorkedOK, Becomes
  <1> QED
    BY <1>2, <1>7, <1>8, <1>9, <1>10, OneTask DEF Same, TaskOK

\* Applying, answering, inviting and hiring.
LEMMA HiringIInv ==
  ASSUME IInv, NEW t \in Tasks, HiringStep(t)
  PROVE  \A u \in Tasks : TaskOK(u)'
  <1> USE DEF IInv
  <1> PICK d \in Developers :
        \/ ApplyToTask(t, d) \/ AcceptApplication(t, d) \/ RejectApplication(t, d)
        \/ CreateTaskInvite(t, d) \/ AcceptInvite(t, d)
        \/ DeclineInvite(t, d) \/ CancelInvite(t, d)
    BY DEF HiringStep
  <1>a. ASSUME UNCHANGED <<task, taskTables>>,
               \A u \in Tasks \ {t} : SameHiring(u),
               HiredOK(t)'
        PROVE \A u \in Tasks : TaskOK(u)'
    <2>1. \A u \in Tasks : SameColumns(u) /\ SameWork(u)
      BY <1>a, SameRow DEF taskTables, SameWork
    <2>2. RowOK(t)' /\ WorkedOK(t)'
      BY <2>1 DEF SameColumns, SameWork, Becomes, TaskOK, RowOK, WorkedOK
    <2> QED
      BY <1>a, <2>1, <2>2, OneTask DEF Same, TaskOK
  <1>1. ASSUME ApplyToTask(t, d) PROVE \A u \in Tasks : TaskOK(u)'
    <2>1. task[t].accepted = NoDeveloper /\ application[t][d] = "NONE"
      BY <1>1 DEF ApplyToTask, ApplyWrite, MayApply, TaskOK, RowOK, NotStarted
    <2>2. \A e \in Developers :
             application'[t][e] = IF e = d THEN "APPLIED" ELSE application[t][e]
      BY <1>1 DEF ApplyToTask, ApplyWrite, TypeOK
    <2>3. UNCHANGED <<task, taskTables, invite, thread, told>>
      BY <1>1 DEF ApplyToTask, ApplyWrite
    <2>4. \A u \in Tasks \ {t} : SameHiring(u)
      BY <1>1 DEF ApplyToTask, ApplyWrite, TypeOK, SameHiring
    <2>5. HiredOK(t)'
      BY <2>1, <2>2, <2>3 DEF TaskOK, HiredOK
    <2> QED
      BY <1>a, <2>3, <2>4, <2>5
  <1>2. ASSUME AcceptApplication(t, d) PROVE \A u \in Tasks : TaskOK(u)'
    BY <1>2, StartOK DEF AcceptApplication, AcceptApplicationWrite, taskTables
  <1>3. ASSUME RejectApplication(t, d) PROVE \A u \in Tasks : TaskOK(u)'
    <2>1. application[t][d] = "APPLIED"
      BY <1>3 DEF RejectApplication
    <2>2. \A e \in Developers :
            /\ application'[t][e] = IF e = d THEN "REJECTED" ELSE application[t][e]
            /\ told'[t][e] = IF e = d THEN told[t][e] \cup {"APPLICATION_REJECTED"}
                             ELSE told[t][e]
      BY <1>3 DEF RejectApplication, RejectApplicationWrite, TypeOK
    <2>3. UNCHANGED <<task, taskTables, invite, thread>>
      BY <1>3 DEF RejectApplication, RejectApplicationWrite
    <2>4. \A u \in Tasks \ {t} : SameHiring(u)
      BY <1>3 DEF RejectApplication, RejectApplicationWrite, TypeOK, SameHiring
    <2>5. \A e \in Developers :
            /\ "APPLICATION_ACCEPTED" \in told'[t][e] <=> "APPLICATION_ACCEPTED" \in told[t][e]
            /\ told[t][e] \subseteq told'[t][e]
            /\ e = d => "APPLICATION_REJECTED" \in told'[t][e]
      BY <2>2, Outcomes
    <2>6. HiredOK(t)'
      <3>1. \A e \in Developers :
              /\ application'[t][e] = "ACCEPTED" <=> application[t][e] = "ACCEPTED"
              /\ application'[t][e] = "APPLIED" => application[t][e] = "APPLIED"
              /\ application'[t][e] = "REJECTED" => e = d \/ application[t][e] = "REJECTED"
        BY <2>1, <2>2
      <3> QED
        BY <2>3, <2>5, <3>1 DEF TaskOK, HiredOK
    <2> QED
      BY <1>a, <2>3, <2>4, <2>6
  <1>i. ASSUME NEW answer \in {"PENDING", "DECLINED", "CANCELLED"},
               answer = "PENDING" => task[t].accepted = NoDeveloper,
               invite' = [invite EXCEPT ![t][d] = answer],
               UNCHANGED <<task, taskTables, application, thread, told>>
        PROVE \A u \in Tasks : TaskOK(u)'
    <2>1. \A e \in Developers : invite'[t][e] = IF e = d THEN answer ELSE invite[t][e]
      BY <1>i DEF TypeOK
    <2>2. \A u \in Tasks \ {t} : SameHiring(u)
      BY <1>i DEF TypeOK, SameHiring
    <2>3. HiredOK(t)'
      BY <1>i, <2>1, ConstantsAssumption DEF TaskOK, HiredOK
    <2> QED
      BY <1>a, <1>i, <2>2, <2>3
  <1>4. ASSUME CreateTaskInvite(t, d) PROVE \A u \in Tasks : TaskOK(u)'
    BY <1>4, <1>i DEF CreateTaskInvite, InviteWrite, MayInvite
  <1>5. ASSUME AcceptInvite(t, d) PROVE \A u \in Tasks : TaskOK(u)'
    <2>1. /\ \A u \in Tasks \ {t} : invite'[u] = invite[u]
          /\ \A e \in Developers :
               invite'[t][e] = IF e = d THEN "ACCEPTED"
                               ELSE IF invite[t][e] = "PENDING" THEN "CANCELLED"
                               ELSE invite[t][e]
      BY <1>5 DEF AcceptInvite, AcceptInviteWrite, TypeOK
    <2> QED
      BY <1>5, <2>1, StartOK DEF AcceptInvite, AcceptInviteWrite, taskTables
  <1>6. ASSUME DeclineInvite(t, d) \/ CancelInvite(t, d) PROVE \A u \in Tasks : TaskOK(u)'
    BY <1>6, <1>i DEF DeclineInvite, CancelInvite, AnswerInviteWrite
  <1> QED
    BY <1>1, <1>2, <1>3, <1>4, <1>5, <1>6

\* With at most one open dispute, the latest one is the open one.
LEMMA ResolveOpen ==
  ASSUME IInv, NEW t \in Tasks, NEW action \in ResolutionAction,
         Resolve(t, LatestOpen(t), action)
  PROVE  /\ \A k \in DisputeIds :
              dispute'[t][k] = IF dispute[t][k] = "OPEN" THEN action ELSE dispute[t][k]
         /\ \A k \in DisputeIds : dispute'[t][k] # "OPEN"
         /\ \A u \in Tasks \ {t} : dispute'[u] = dispute[u]
  <1> USE DEF IInv
  <1>1. \A k \in DisputeIds : k \in LatestOpen(t) <=> dispute[t][k] = "OPEN"
    <2>1. \A j, k \in OpenDisputes(t) : j = k
      BY DEF OpenDisputes, TaskOK, WorkedOK
    <2>2. \A k \in DisputeIds : k \in Nat
      BY ConstantsAssumption DEF DisputeIds
    <2> QED
      BY <2>1, <2>2 DEF LatestOpen, OpenDisputes
  <1>2. \A k \in DisputeIds :
          dispute'[t][k] = IF k \in LatestOpen(t) THEN action ELSE dispute[t][k]
    BY DEF Resolve, TypeOK
  <1>3. \A u \in Tasks \ {t} : dispute'[u] = dispute[u]
    BY DEF Resolve, TypeOK
  <1>4. action # "OPEN"
    BY DEF ResolutionAction
  <1> QED
    BY <1>1, <1>2, <1>3, <1>4

\* One more rejection extends the numbered log by one.
LEMMA NextRejection ==
  ASSUME NEW n \in Nat
  PROVE  (1..n) \cup {n + 1} = 1..(n + 1)
  OBVIOUS

\* A running task leaves its request or dispute with a final or a returned status, and
\* the open dispute, if any, is closed with the matching action.
Decided(t, action, status) ==
  /\ task' = [task EXCEPT ![t] = [task[t] EXCEPT !.status = status, !.deadline = "none"]]
  /\ Resolve(t, LatestOpen(t), action)

LEMMA DecidedOK ==
  ASSUME IInv, NEW t \in Tasks, NEW action \in ResolutionAction, NEW status,
         Decided(t, action, status),
         UNCHANGED <<hiringTables, rejections, review>>,
         task[t].status \in {"COMPLETION_REQUESTED", "DISPUTE"}, ~task[t].deleted,
         status \in {"IN_PROGRESS", "FAILED", "COMPLETED"},
         action = "MARK_COMPLETED" => status = "COMPLETED",
         action = "MARK_FAILED" => status = "FAILED"
  PROVE  \A u \in Tasks : TaskOK(u)'
  <1> USE DEF IInv
  <1>1. Becomes(t, status, task[t].accepted, task[t].rejectionCount, "none", task[t].deleted)
    BY OneRow, OtherRows, RowColumns DEF Decided
  <1>2. RowOK(t)'
    BY <1>1 DEF TaskOK, RowOK, Becomes, Started, NotStarted
  <1>3. HiredOK(t)'
    BY <1>1 DEF TaskOK, HiredOK, Becomes, hiringTables
  <1>4. WorkedOK(t)'
    <2>1. \A k \in DisputeIds :
            /\ dispute'[t][k] # "OPEN"
            /\ dispute'[t][k] = "MARK_COMPLETED" => status = "COMPLETED"
            /\ dispute'[t][k] = "MARK_FAILED" => status = "FAILED"
      BY ResolveOpen DEF Decided, TaskOK, WorkedOK
    <2>2. review'[t] = {} /\ rejections'[t] = rejections[t]
      BY DEF TaskOK, WorkedOK
    <2>3. task[t].rejectionCount # MaxRejections
      BY DEF TaskOK, WorkedOK
    <2> QED
      BY <1>1, <2>1, <2>2, <2>3 DEF TaskOK, WorkedOK, Becomes
  <1>5. \A u \in Tasks \ {t} : Same(u)
    BY OtherRows, ResolveOpen DEF Decided, Same, SameHiring, SameWork, hiringTables
  <1> QED
    BY <1>2, <1>3, <1>4, <1>5, OneTask DEF TaskOK

\* Requesting, answering and reviewing a completion, and the passing of its deadline.
LEMMA WorkIInv ==
  ASSUME IInv, NEW t \in Tasks, WorkStep(t)
  PROVE  \A u \in Tasks : TaskOK(u)'
  <1> USE DEF IInv
  <1>0. task[t] \in TaskRow
    BY OneRow
  <1>a. ASSUME UNCHANGED hiringTables, task'[t].accepted = task[t].accepted
        PROVE HiredOK(t)' /\ \A u \in Tasks : SameHiring(u)
    BY <1>a DEF TaskOK, HiredOK, hiringTables, SameHiring
  <1>1. ASSUME GetThreadByTaskId(t) PROVE \A u \in Tasks : TaskOK(u)'
    <2>1. UNCHANGED <<task, taskTables, application, invite, told>>
      BY <1>1 DEF GetThreadByTaskId
    <2>2. thread'[t] = task[t].accepted /\ \A u \in Tasks \ {t} : thread'[u] = thread[u]
      BY <1>1 DEF GetThreadByTaskId, GetOrCreateChatThread, TypeOK
    <2>3. \A u \in Tasks : SameColumns(u) /\ SameWork(u)
      BY <2>1, SameRow DEF taskTables, SameWork
    <2>4. HiredOK(t)'
      BY <2>1, <2>2 DEF TaskOK, HiredOK
    <2>5. RowOK(t)' /\ WorkedOK(t)'
      BY <2>3 DEF SameColumns, SameWork, Becomes, TaskOK, RowOK, WorkedOK
    <2> QED
      BY <2>1, <2>2, <2>3, <2>4, <2>5, OneTask DEF Same, SameHiring, TaskOK
  <1>2. ASSUME NEW d \in Developers, RequestTaskCompletion(t, d)
        PROVE \A u \in Tasks : TaskOK(u)'
    <2>1. task' = [task EXCEPT ![t] =
                     [task[t] EXCEPT !.status = "COMPLETION_REQUESTED", !.deadline = "running"]]
      BY <1>2 DEF RequestTaskCompletion, RequestCompletionWrite
    <2>2. /\ UNCHANGED <<hiringTables, dispute, rejections, review>>
          /\ task[t].status \in {"IN_PROGRESS", "DISPUTE"} /\ ~task[t].deleted
      BY <1>2 DEF RequestTaskCompletion, RequestCompletionWrite, MayRequestCompletion, Live,
         taskTables
    <2>3. Becomes(t, "COMPLETION_REQUESTED", task[t].accepted, task[t].rejectionCount,
                  "running", task[t].deleted)
      BY <1>0, <2>1, OtherRows, RowColumns
    <2>4. RowOK(t)'
      BY <2>2, <2>3 DEF TaskOK, RowOK, Becomes, Started, NotStarted
    <2>5. WorkedOK(t)'
      BY <2>2, <2>3 DEF TaskOK, WorkedOK, Becomes
    <2>6. HiredOK(t)' /\ \A u \in Tasks \ {t} : Same(u)
      BY <1>a, <2>1, <2>2, <2>3, OtherRows DEF Becomes, Same, SameWork
    <2> QED
      BY <2>4, <2>5, <2>6, OneTask DEF TaskOK
  <1>3. ASSUME RejectTaskCompletion(t) PROVE \A u \in Tasks : TaskOK(u)'
    <2> DEFINE n == task[t].rejectionCount + 1
    <2>1. task' = [task EXCEPT ![t] = [task[t] EXCEPT !.rejectionCount = n,
                     !.deadline = "none", !.status = StatusAfterRejection(n)]]
      BY <1>3 DEF RejectTaskCompletion, RejectCompletionWrite
    <2>2. /\ UNCHANGED <<hiringTables, review>>
          /\ task[t].status = "COMPLETION_REQUESTED" /\ ~task[t].deleted
      BY <1>3 DEF RejectTaskCompletion, RejectCompletionWrite, MayAnswerCompletion, Live
    <2>3. Becomes(t, StatusAfterRejection(n), task[t].accepted, n, "none", task[t].deleted)
      BY <1>0, <2>1, OtherRows, RowColumns
    <2>4. /\ rejections'[t] = rejections[t] \cup {n}
          /\ \A u \in Tasks \ {t} : rejections'[u] = rejections[u]
      BY <1>3 DEF RejectTaskCompletion, RejectCompletionWrite, TypeOK
    <2>5. RejectionResolution(n) \in ResolutionAction /\ RejectionResolution(n) # "MARK_COMPLETED"
      BY DEF RejectionResolution, ResolutionAction
    <2>6. Resolve(t, LatestOpen(t), RejectionResolution(n))
      BY <1>3 DEF RejectTaskCompletion, RejectCompletionWrite
    <2>7. task[t].rejectionCount \in Nat /\ n <= MaxRejections
      BY <1>0, <2>2, ConstantsAssumption DEF TaskRow, TaskOK, WorkedOK
    <2>8. /\ StatusAfterRejection(n) \in {"IN_PROGRESS", "FAILED"}
          /\ n = MaxRejections => StatusAfterRejection(n) = "FAILED"
          /\ RejectionResolution(n) = "MARK_FAILED" => StatusAfterRejection(n) = "FAILED"
      BY <2>7, ConstantsAssumption DEF StatusAfterRejection, RejectionResolution, IsFinal
    <2> HIDE DEF n
    <2>9. RowOK(t)'
      BY <2>2, <2>3, <2>8 DEF TaskOK, RowOK, Becomes, Started, NotStarted
    <2>10. WorkedOK(t)'
      <3>1. rejections'[t] = 1..n
        BY <2>4, <2>7, NextRejection DEF TaskOK, WorkedOK, n
      <3>2. \A k \in DisputeIds :
              /\ dispute'[t][k] # "OPEN"
              /\ dispute'[t][k] # "MARK_COMPLETED"
              /\ dispute'[t][k] = "MARK_FAILED" => StatusAfterRejection(n) = "FAILED"
        BY <2>2, <2>5, <2>6, <2>8, ResolveOpen DEF TaskOK, WorkedOK
      <3>3. review'[t] = {}
        BY <2>2 DEF TaskOK, WorkedOK
      <3> QED
        BY <2>3, <2>7, <2>8, <3>1, <3>2, <3>3 DEF WorkedOK, Becomes
    <2>11. HiredOK(t)' /\ \A u \in Tasks \ {t} : Same(u)
      BY <1>a, <2>1, <2>2, <2>3, <2>4, <2>5, <2>6, OtherRows, ResolveOpen DEF Becomes, Same, SameWork
    <2> QED
      BY <2>9, <2>10, <2>11, OneTask DEF TaskOK
  <1>4. ASSUME ConfirmTaskCompletion(t) PROVE \A u \in Tasks : TaskOK(u)'
    <2>1. task' = [task EXCEPT ![t] =
                     [task[t] EXCEPT !.status = "COMPLETED", !.deadline = "none"]]
      BY <1>4 DEF ConfirmTaskCompletion, ConfirmWrite
    <2>2. /\ UNCHANGED <<hiringTables, rejections, review>>
          /\ task[t].status = "COMPLETION_REQUESTED" /\ ~task[t].deleted
          /\ Resolve(t, LatestOpen(t), "MARK_COMPLETED")
      BY <1>4 DEF ConfirmTaskCompletion, ConfirmWrite, MayAnswerCompletion, Live
    <2>3. Decided(t, "MARK_COMPLETED", "COMPLETED")
      BY <2>1, <2>2 DEF Decided
    <2> QED
      BY <2>2, <2>3, DecidedOK DEF ResolutionAction
  <1>5. ASSUME ResponseDeadlinePasses(t) PROVE \A u \in Tasks : TaskOK(u)'
    <2>1. task' = [task EXCEPT ![t] = [task[t] EXCEPT !.deadline = "passed"]]
      BY <1>5 DEF ResponseDeadlinePasses
    <2>2. /\ UNCHANGED <<hiringTables, dispute, rejections, review>>
          /\ task[t].deadline = "running"
      BY <1>5 DEF ResponseDeadlinePasses, taskTables
    <2>3. Becomes(t, task[t].status, task[t].accepted, task[t].rejectionCount, "passed",
                  task[t].deleted)
      BY <1>0, <2>1, OtherRows, RowColumns
    <2>4. RowOK(t)'
      BY <2>2, <2>3 DEF TaskOK, RowOK, Becomes
    <2>5. WorkedOK(t)'
      BY <2>2, <2>3 DEF TaskOK, WorkedOK, Becomes
    <2>6. HiredOK(t)' /\ \A u \in Tasks \ {t} : Same(u)
      BY <1>a, <2>1, <2>2, <2>3, OtherRows DEF Becomes, Same, SameWork
    <2> QED
      BY <2>4, <2>5, <2>6, OneTask DEF TaskOK
  <1>6. ASSUME NEW author \in Persona, CreateReview(t, author)
        PROVE \A u \in Tasks : TaskOK(u)'
    <2>1. UNCHANGED <<task, dispute, rejections, hiringTables>>
      BY <1>6 DEF CreateReview, ReviewWrite
    <2>2. task[t].status \in {"COMPLETED", "FAILED"} /\ task[t].accepted # NoDeveloper
      BY <1>6 DEF CreateReview, MayReview
    <2>3. \A u \in Tasks \ {t} : review'[u] = review[u]
      BY <1>6 DEF CreateReview, ReviewWrite, TypeOK
    <2>4. RowOK(t)' /\ WorkedOK(t)'
      BY <2>1, <2>2 DEF TaskOK, RowOK, WorkedOK
    <2>5. HiredOK(t)' /\ \A u \in Tasks \ {t} : Same(u)
      BY <1>a, <2>1, <2>3, SameRow DEF Same, SameWork
    <2> QED
      BY <2>4, <2>5, OneTask DEF TaskOK
  <1> QED
    BY <1>1, <1>2, <1>3, <1>4, <1>5, <1>6 DEF WorkStep

\* Opening a dispute or deciding one.
LEMMA DisputeIInv ==
  ASSUME IInv, NEW t \in Tasks, DisputeStep(t)
  PROVE  \A u \in Tasks : TaskOK(u)'
  <1> USE DEF IInv
  <1>1. ASSUME task[t].status \in {"IN_PROGRESS", "COMPLETION_REQUESTED"}, ~task[t].deleted,
               OpenDisputes(t) = {}, DisputeWrite(t)
        PROVE \A u \in Tasks : TaskOK(u)'
    <2>1. task' = [task EXCEPT ![t] = [task[t] EXCEPT !.status = "DISPUTE"]]
      BY <1>1 DEF DisputeWrite
    <2>2. UNCHANGED <<rejections, review, hiringTables>>
      BY <1>1 DEF DisputeWrite
    <2>3. PICK k \in DisputeIds :
            NextDispute(t, k) /\ dispute' = [dispute EXCEPT ![t][k] = "OPEN"]
      BY <1>1 DEF DisputeWrite
    <2>4. /\ \A j \in DisputeIds : dispute'[t][j] = IF j = k THEN "OPEN" ELSE dispute[t][j]
          /\ \A u \in Tasks \ {t} : dispute'[u] = dispute[u]
      BY <2>3 DEF TypeOK
    <2>5. Becomes(t, "DISPUTE", task[t].accepted, task[t].rejectionCount, task[t].deadline,
                  task[t].deleted)
      BY <2>1, OneRow, OtherRows, RowColumns
    <2>6. RowOK(t)'
      BY <1>1, <2>5 DEF TaskOK, RowOK, Becomes, Started, NotStarted
    <2>7. HiredOK(t)'
      BY <2>2, <2>5 DEF TaskOK, HiredOK, Becomes, hiringTables
    <2>8. WorkedOK(t)'
      <3>1. \A j \in DisputeIds : dispute[t][j] \notin {"OPEN", "MARK_COMPLETED", "MARK_FAILED"}
        BY <1>1 DEF OpenDisputes, TaskOK, WorkedOK
      <3>2. \A j \in DisputeIds :
              /\ dispute'[t][j] = "OPEN" <=> j = k
              /\ dispute'[t][j] \notin {"MARK_COMPLETED", "MARK_FAILED"}
        BY <2>4, <3>1
      <3>3. task[t].rejectionCount # MaxRejections /\ review[t] = {}
        BY <1>1 DEF TaskOK, WorkedOK
      <3> QED
        BY <2>2, <2>5, <3>2, <3>3 DEF TaskOK, WorkedOK, Becomes
    <2>9. \A u \in Tasks \ {t} : Same(u)
      BY <2>1, <2>2, <2>4, OtherRows DEF Same, SameHiring, SameWork, hiringTables
    <2> QED
      BY <2>6, <2>7, <2>8, <2>9, OneTask DEF TaskOK
  <1>2. ASSUME NEW action \in ResolutionAction, ResolveTaskDispute(t, action)
        PROVE \A u \in Tasks : TaskOK(u)'
    <2>1. /\ Decided(t, action, StatusAfterResolution(action))
          /\ UNCHANGED <<hiringTables, rejections, review>>
          /\ ~task[t].deleted /\ OpenDisputes(t) # {}
      BY <1>2 DEF ResolveTaskDispute, ResolveWrite, Live, Decided
    <2>2. task[t].status \in {"COMPLETION_REQUESTED", "DISPUTE"}
      BY <2>1 DEF OpenDisputes, TaskOK, WorkedOK, RowOK
    <2>3. /\ StatusAfterResolution(action) \in {"IN_PROGRESS", "FAILED", "COMPLETED"}
          /\ action = "MARK_COMPLETED" => StatusAfterResolution(action) = "COMPLETED"
          /\ action = "MARK_FAILED" => StatusAfterResolution(action) = "FAILED"
      BY DEF StatusAfterResolution, ResolutionAction
    <2> QED
      BY <2>1, <2>2, <2>3, DecidedOK
  <1>3. ASSUME OpenTaskDispute(t) PROVE \A u \in Tasks : TaskOK(u)'
    BY <1>1, <1>3 DEF OpenTaskDispute, MayOpenDispute, Live
  <1>4. ASSUME NEW d \in Developers, EscalateTaskCompletionDispute(t, d)
        PROVE \A u \in Tasks : TaskOK(u)'
    BY <1>1, <1>4 DEF EscalateTaskCompletionDispute, MayEscalate, Live
  <1> QED
    BY <1>2, <1>3, <1>4 DEF DisputeStep

\* A moderator may delete a reported task, the archive of a project all of its tasks.
LEMMA ReportIInv ==
  ASSUME IInv, NEW t \in Tasks, TaskReportStep(t)
  PROVE  \A u \in Tasks : TaskOK(u)'
  <1> USE DEF IInv
  <1>1. UNCHANGED <<hiringTables, dispute, rejections, review>>
    BY DEF TaskReportStep, ReportTask, ReportTaskWrite, ResolveTaskReport,
       ResolveTaskReportWrite
  <1>2. \A u \in Tasks : SameHiring(u) /\ SameWork(u)
    BY <1>1 DEF SameHiring, SameWork, hiringTables
  <1>3. task' = task \/ (Live(task[t]) /\ task' = [task EXCEPT ![t] = Deleted(task[t])])
    BY DEF TaskReportStep, ReportTask, ReportTaskWrite, ResolveTaskReport,
       ResolveTaskReportWrite
  <1>4. CASE task' = task
    BY <1>2, <1>4, SameRow, SameTaskOK DEF Same
  <1>5. CASE Live(task[t]) /\ task' = [task EXCEPT ![t] = Deleted(task[t])]
    BY <1>2, <1>5, OtherRows, DeletedOK, OneTask DEF Live, Same
  <1> QED
    BY <1>3, <1>4, <1>5

LEMMA ProjectIInv ==
  ASSUME IInv, NEW p \in Projects, ProjectStep(p)
  PROVE  \A u \in Tasks : TaskOK(u)'
  <1> USE DEF IInv
  <1>1. UNCHANGED <<taskTables, hiringTables>>
    BY DEF ProjectStep, CreateProject, UpdateProject, UpdateProjectWrite, DeleteProject,
       DeleteProjectWrite, ReportProject, ResolveProjectReport
  <1>2. task' = task \/ ArchiveWrite(p)
    BY DEF ProjectStep, CreateProject, UpdateProject, UpdateProjectWrite, DeleteProject,
       DeleteProjectWrite, ReportProject, ResolveProjectReport
  <1> TAKE u \in Tasks
  <1>3. SameHiring(u) /\ SameWork(u)
    BY <1>1 DEF SameHiring, SameWork, taskTables, hiringTables
  <1>4. task'[u] = task[u] \/ (Live(task[u]) /\ task'[u] = Deleted(task[u]))
    BY <1>2 DEF ArchiveWrite
  <1> QED
    BY <1>3, <1>4, SameRow, SameTaskOK, DeletedOK DEF Live, Same

LEMMA NextIInv == IInv /\ [Next]_vars => IInv'
  <1> SUFFICES ASSUME IInv, [Next]_vars PROVE IInv'
    OBVIOUS
  <1>1. TypeOK'
    BY NextTypeOK DEF IInv
  <1>2. ASSUME UNCHANGED vars PROVE \A u \in Tasks : TaskOK(u)'
    BY <1>2, SameTaskOK, SameRow DEF IInv, vars, taskTables, hiringTables, Same,
       SameHiring, SameWork
  <1>3. \A u \in Tasks : TaskOK(u)'
    BY <1>2, DraftIInv, HiringIInv, WorkIInv, DisputeIInv, ReportIInv, ProjectIInv DEF Next
  <1> QED
    BY <1>1, <1>3 DEF IInv

LEMMA Invariance == Spec => []IInv
  BY InitIInv, NextIInv, PTL DEF Spec

-----------------------------------------------------------------------------
(* The safety properties, for every value of the constants *)

\* No handler ever gives a deleted task (deletedAt) a status other than DELETED.
THEOREM SoftDeleteCorrect == Spec => []SoftDelete
  <1>1. IInv => SoftDelete
    BY DEF IInv, TaskOK, RowOK, SoftDelete
  <1> QED
    BY <1>1, Invariance, PTL

\* A started task has a developer, an open one has none.
THEOREM WorkHasDeveloperCorrect == Spec => []WorkHasDeveloper
  <1>1. IInv => WorkHasDeveloper
    BY DEF IInv, TaskOK, RowOK, WorkHasDeveloper
  <1> QED
    BY <1>1, Invariance, PTL

\* A response deadline exists exactly while an answer may still be due.
THEOREM DeadlineCorrect == Spec => []DeadlineMatchesStatus
  <1>1. IInv => DeadlineMatchesStatus
    BY DEF IInv, TaskOK, RowOK, DeadlineMatchesStatus
  <1> QED
    BY <1>1, Invariance, PTL

\* acceptedApplicationId and the applications table agree: one accepted application,
\* the one the task points at, whichever way the developer was hired.
THEOREM AcceptedApplicationCorrect == Spec => []AcceptedApplication
  <1>1. IInv => AcceptedApplication
    BY DEF IInv, TaskOK, HiredOK, AcceptedApplication
  <1> QED
    BY <1>1, Invariance, PTL

\* Once somebody is hired, nobody's application is left without an answer.
THEOREM NobodyLeftWaitingCorrect == Spec => []NobodyLeftWaiting
  <1>1. IInv => NobodyLeftWaiting
    BY DEF IInv, TaskOK, HiredOK, NobodyLeftWaiting
  <1> QED
    BY <1>1, Invariance, PTL

\* Every accepted or rejected applicant received the notification that says so.
THEOREM ApplicantsWereToldCorrect == Spec => []ApplicantsWereTold
  <1>1. IInv => ApplicantsWereTold
    BY DEF IInv, TaskOK, HiredOK, ApplicantsWereTold
  <1> QED
    BY <1>1, Invariance, PTL

\* An accepted invite belongs to the developer at work and leaves none pending.
THEOREM InviteSettledCorrect == Spec => []InviteSettled
  <1>1. IInv => InviteSettled
    BY DEF IInv, TaskOK, HiredOK, InviteSettled
  <1> QED
    BY <1>1, Invariance, PTL

\* The chat of a task is with the developer who has it.
THEOREM ThreadOfWorkerCorrect == Spec => []ThreadOfWorker
  <1>1. IInv => ThreadOfWorker
    BY DEF IInv, TaskOK, HiredOK, ThreadOfWorker
  <1> QED
    BY <1>1, Invariance, PTL

\* At most one dispute is open, and the status says so.
THEOREM DisputeMatchesStatusCorrect == Spec => []DisputeMatchesStatus
  <1>1. IInv => DisputeMatchesStatus
    BY DEF IInv, TaskOK, WorkedOK, DisputeMatchesStatus, OpenDisputes
  <1> QED
    BY <1>1, Invariance, PTL

\* The recorded outcome of a dispute is the final status of its task, for good.
THEOREM DisputeOutcomeCorrect == Spec => []DisputeOutcomeStands
  <1>1. IInv => DisputeOutcomeStands
    BY DEF IInv, TaskOK, WorkedOK, DisputeOutcomeStands
  <1> QED
    BY <1>1, Invariance, PTL

\* The rejections are numbered without gaps up to the counter, which never exceeds
\* the limit and at the limit has made the task FAILED.
THEOREM RejectionLogCorrect == Spec => []RejectionLog
  <1>1. IInv => RejectionLog
    BY DEF IInv, TaskOK, WorkedOK, RejectionLog
  <1> QED
    BY <1>1, Invariance, PTL

\* Reviews rate finished work only, and it stays finished.
THEOREM ReviewedIsFinishedCorrect == Spec => []ReviewedIsFinished
  <1>1. IInv => ReviewedIsFinished
    BY DEF IInv, TaskOK, WorkedOK, ReviewedIsFinished
  <1> QED
    BY <1>1, Invariance, PTL
-----------------------------------------------------------------------------
(* Archived projects are empty.  The project column needs no other column   *)
(* than status and deletedAt, so it has an invariant of its own.            *)

\* A row that does not exist is in no project, which is why archiving may skip it; the
\* project of a task exists, if only as an archived row.
EmptyInv ==
  /\ TypeOK
  /\ \A t \in Tasks : task[t].status = "ABSENT" => task[t].project = NoProject
  /\ \A t \in Tasks, p \in Projects : task[t].project = p => project[p].state # "ABSENT"
  /\ ArchivedProjectIsEmpty

\* The row of a task that stays in its project and is not brought back.
Stays(t) ==
  /\ task'[t].project = task[t].project
  /\ task[t].deleted => task'[t].deleted
  /\ task'[t].status = "ABSENT" => task[t].status = "ABSENT"

SameProjects ==
  \A p \in Projects :
    /\ project'[p].state = "ARCHIVED" => project[p].state = "ARCHIVED"
    /\ project[p].state # "ABSENT" => project'[p].state # "ABSENT"

LEMMA StayingIsEmpty ==
  ASSUME EmptyInv, TypeOK', SameProjects, \A u \in Tasks : Stays(u)
  PROVE  EmptyInv'
  BY DEF EmptyInv, ArchivedProjectIsEmpty, SameProjects, Stays

LEMMA RowStays ==
  ASSUME NEW row \in TaskRow, NEW t, task[t] = row, NEW s, s # "ABSENT", NEW dl, NEW d, NEW n
  PROVE  /\ task'[t] = row => Stays(t)
         /\ task'[t] = [row EXCEPT !.status = s] => Stays(t)
         /\ task'[t] = [row EXCEPT !.deadline = dl] => Stays(t)
         /\ task'[t] = [row EXCEPT !.status = s, !.deadline = dl] => Stays(t)
         /\ task'[t] = [row EXCEPT !.status = s, !.accepted = d] => Stays(t)
         /\ task'[t] = [row EXCEPT !.status = s, !.deleted = TRUE] => Stays(t)
         /\ task'[t] = [row EXCEPT !.rejectionCount = n, !.deadline = dl, !.status = s] =>
              Stays(t)
  BY DEF TaskRow, Stays

\* A handler that writes one row and keeps it in its project.
LEMMA OneStays ==
  ASSUME EmptyInv, TypeOK', NEW t \in Tasks, NEW row, task' = [task EXCEPT ![t] = row],
         task'[t] = row => Stays(t), SameProjects
  PROVE  EmptyInv'
  <1>1. task'[t] = row /\ \A u \in Tasks \ {t} : task'[u] = task[u]
    BY RowWrite DEF EmptyInv
  <1>2. \A u \in Tasks \ {t} : Stays(u)
    BY <1>1 DEF Stays
  <1> QED
    BY <1>1, <1>2, StayingIsEmpty

LEMMA DraftEmpty ==
  ASSUME EmptyInv, TypeOK', NEW t \in Tasks, DraftStep(t)
  PROVE  EmptyInv'
  <1>0. task[t] \in TaskRow
    BY OneRow DEF EmptyInv
  <1>1. ASSUME NEW p \in Projects \cup {NoProject}, MayUseProject(p), UNCHANGED project,
               NEW row, task' = [task EXCEPT ![t] = row], row.project = p,
               row.status # "ABSENT"
        PROVE EmptyInv'
    <2>1. task'[t] = row /\ \A u \in Tasks \ {t} : task'[u] = task[u]
      BY <1>1, RowWrite DEF EmptyInv
    <2>2. p \in Projects => project[p].state = "ACTIVE"
      BY <1>1, ConstantsAssumption DEF MayUseProject, LiveProject
    <2> QED
      BY <1>1, <2>1, <2>2, ConstantsAssumption DEF EmptyInv, ArchivedProjectIsEmpty
  <1>2. ASSUME NEW p \in Projects \cup {NoProject}, CreateTaskDraft(t, p) PROVE EmptyInv'
    <2> DEFINE row == [task[t] EXCEPT !.status = "DRAFT", !.project = p]
    <2>1. task' = [task EXCEPT ![t] = row] /\ MayUseProject(p) /\ UNCHANGED project
      BY <1>2 DEF CreateTaskDraft, CreateDraftWrite, projectTables
    <2>2. row.project = p /\ row.status # "ABSENT"
      BY <1>0 DEF TaskRow
    <2> HIDE DEF row
    <2> QED
      BY <1>1, <2>1, <2>2
  <1>3. ASSUME NEW p \in Projects \cup {NoProject}, UpdateTaskDraft(t, p) PROVE EmptyInv'
    <2> DEFINE row == [task[t] EXCEPT !.project = p]
    <2>1. task' = [task EXCEPT ![t] = row] /\ MayUseProject(p) /\ UNCHANGED project
          /\ MayUpdateDraft(task[t])
      BY <1>3 DEF UpdateTaskDraft, UpdateDraftWrite, projectTables
    <2>2. row.project = p /\ row.status # "ABSENT"
      BY <1>0, <2>1 DEF TaskRow, MayUpdateDraft, Live
    <2> HIDE DEF row
    <2> QED
      BY <1>1, <2>1, <2>2
  <1>4. CASE PublishTask(t)
    <2>1. task' = [task EXCEPT ![t] = [task[t] EXCEPT !.status = "PUBLISHED"]]
      BY <1>4 DEF PublishTask, PublishWrite
    <2>2. SameProjects
      <3> DEFINE q == task[t].project
      <3>1. project' = IF q = NoProject THEN project
                       ELSE [project EXCEPT ![q] =
                               [project[q] EXCEPT !.publishedTasksCount = @ + 1]]
        BY <1>4 DEF PublishTask, PublishWrite
      <3>2. \A p \in Projects : project[p] \in ProjectRow
        BY DEF EmptyInv, TypeOK
      <3>3. \A p \in Projects : project'[p].state = project[p].state
        BY <3>1, <3>2 DEF ProjectRow, EmptyInv, TypeOK
      <3> QED
        BY <3>3 DEF SameProjects
    <2> QED
      BY <1>0, <2>1, <2>2, RowStays, OneStays
  <1>5. CASE CloseTask(t)
    <2>1. task' = [task EXCEPT ![t] = [task[t] EXCEPT !.status = "CLOSED"]] /\ SameProjects
      BY <1>5 DEF CloseTask, CloseWrite, projectTables, SameProjects
    <2> QED
      BY <1>0, <2>1, RowStays, OneStays
  <1>6. CASE DeleteTask(t)
    <2>1. task' = [task EXCEPT ![t] = [task[t] EXCEPT !.status = "DELETED", !.deleted = TRUE]]
          /\ SameProjects
      BY <1>6 DEF DeleteTask, DeleteWrite, Deleted, projectTables, SameProjects
    <2> QED
      BY <1>0, <2>1, RowStays, OneStays
  <1> QED
    BY <1>2, <1>3, <1>4, <1>5, <1>6 DEF DraftStep

\* Hiring, work, disputes and task reports never move a task to another project.
LEMMA TaskEmpty ==
  ASSUME EmptyInv, TypeOK', NEW t \in Tasks,
         HiringStep(t) \/ WorkStep(t) \/ DisputeStep(t) \/ TaskReportStep(t)
  PROVE  EmptyInv'
  <1>0. task[t] \in TaskRow
    BY OneRow DEF EmptyInv
  <1>a. ASSUME UNCHANGED <<task, project>> PROVE EmptyInv'
    BY <1>a, StayingIsEmpty DEF Stays, SameProjects
  <1>b. ASSUME UNCHANGED project PROVE SameProjects
    BY <1>b DEF SameProjects
  <1>1. CASE HiringStep(t)
    <2>1. PICK d \in Developers :
            \/ ApplyToTask(t, d) \/ AcceptApplication(t, d) \/ RejectApplication(t, d)
            \/ CreateTaskInvite(t, d) \/ AcceptInvite(t, d)
            \/ DeclineInvite(t, d) \/ CancelInvite(t, d)
      BY <1>1 DEF HiringStep
    <2>2. CASE AcceptApplication(t, d) \/ AcceptInvite(t, d)
      <3>1. UNCHANGED project
            /\ task' = [task EXCEPT ![t] =
                          [task[t] EXCEPT !.status = "IN_PROGRESS", !.accepted = d]]
        BY <2>2 DEF AcceptApplication, AcceptApplicationWrite, AcceptInvite, AcceptInviteWrite,
           StartWrite, projectTables
      <3> QED
        BY <1>0, <1>b, <3>1, RowStays, OneStays
    <2>3. CASE \/ ApplyToTask(t, d) \/ RejectApplication(t, d) \/ CreateTaskInvite(t, d)
               \/ DeclineInvite(t, d) \/ CancelInvite(t, d)
      BY <2>3, <1>a DEF ApplyToTask, ApplyWrite, RejectApplication, RejectApplicationWrite,
         CreateTaskInvite, InviteWrite, DeclineInvite, CancelInvite, AnswerInviteWrite,
         projectTables
    <2> QED
      BY <2>1, <2>2, <2>3
  <1>2. CASE WorkStep(t)
    <2>1. CASE GetThreadByTaskId(t) \/ \E author \in Persona : CreateReview(t, author)
      BY <2>1, <1>a DEF GetThreadByTaskId, CreateReview, ReviewWrite, projectTables
    <2>2. ASSUME NEW d \in Developers, RequestTaskCompletion(t, d) PROVE EmptyInv'
      <3>1. UNCHANGED project
            /\ task' = [task EXCEPT ![t] = [task[t] EXCEPT !.status = "COMPLETION_REQUESTED",
                                                           !.deadline = "running"]]
        BY <2>2 DEF RequestTaskCompletion, RequestCompletionWrite, projectTables
      <3> QED
        BY <1>0, <1>b, <3>1, RowStays, OneStays
    <2>3. CASE RejectTaskCompletion(t)
      <3> DEFINE n == task[t].rejectionCount + 1
      <3>1. UNCHANGED project
            /\ task' = [task EXCEPT ![t] = [task[t] EXCEPT !.rejectionCount = n,
                          !.deadline = "none", !.status = StatusAfterRejection(n)]]
        BY <2>3 DEF RejectTaskCompletion, RejectCompletionWrite, projectTables
      <3>2. StatusAfterRejection(n) # "ABSENT"
        BY DEF StatusAfterRejection
      <3> QED
        BY <1>0, <1>b, <3>1, <3>2, RowStays, OneStays
    <2>4. CASE ConfirmTaskCompletion(t)
      <3>1. UNCHANGED project
            /\ task' = [task EXCEPT ![t] =
                          [task[t] EXCEPT !.status = "COMPLETED", !.deadline = "none"]]
        BY <2>4 DEF ConfirmTaskCompletion, ConfirmWrite, projectTables
      <3> QED
        BY <1>0, <1>b, <3>1, RowStays, OneStays
    <2>5. CASE ResponseDeadlinePasses(t)
      <3>1. UNCHANGED project
            /\ task' = [task EXCEPT ![t] = [task[t] EXCEPT !.deadline = "passed"]]
        BY <2>5 DEF ResponseDeadlinePasses, projectTables
      <3>2. task'[t] = [task[t] EXCEPT !.deadline = "passed"] => Stays(t)
        BY <1>0 DEF Stays, TaskRow
      <3> QED
        BY <1>b, <3>1, <3>2, OneStays
    <2> QED
      BY <1>2, <2>1, <2>2, <2>3, <2>4, <2>5 DEF WorkStep
  <1>3. CASE DisputeStep(t)
    <2>1. CASE DisputeWrite(t)
      <3>1. UNCHANGED project
            /\ task' = [task EXCEPT ![t] = [task[t] EXCEPT !.status = "DISPUTE"]]
        BY <2>1 DEF DisputeWrite, projectTables
      <3> QED
        BY <1>0, <1>b, <3>1, RowStays, OneStays
    <2>2. ASSUME NEW action \in ResolutionAction, ResolveTaskDispute(t, action)
          PROVE EmptyInv'
      <3> DEFINE s == StatusAfterResolution(action)
      <3>1. UNCHANGED project
            /\ task' = [task EXCEPT ![t] = [task[t] EXCEPT !.status = s, !.deadline = "none"]]
        BY <2>2 DEF ResolveTaskDispute, ResolveWrite, projectTables
      <3>2. s # "ABSENT"
        BY DEF StatusAfterResolution, ResolutionAction
      <3> QED
        BY <1>0, <1>b, <3>1, <3>2, RowStays, OneStays
    <2> QED
      BY <1>3, <2>1, <2>2 DEF DisputeStep, OpenTaskDispute, EscalateTaskCompletionDispute
  <1>4. CASE TaskReportStep(t)
    <2>1. UNCHANGED project
          /\ \/ task' = task
             \/ task' = [task EXCEPT ![t] =
                           [task[t] EXCEPT !.status = "DELETED", !.deleted = TRUE]]
      BY <1>4 DEF TaskReportStep, ReportTask, ReportTaskWrite, ResolveTaskReport,
         ResolveTaskReportWrite, Deleted, projectTables
    <2> QED
      BY <1>0, <1>a, <1>b, <2>1, RowStays, OneStays
  <1> QED
    BY <1>1, <1>2, <1>3, <1>4

\* Only archiving makes a project ARCHIVED, and it deletes what lives in it.
LEMMA ProjectEmpty ==
  ASSUME EmptyInv, TypeOK', NEW p \in Projects, ProjectStep(p)
  PROVE  EmptyInv'
  <1>0. project \in [Projects -> ProjectRow]
    BY DEF EmptyInv, TypeOK
  <1>a. ASSUME UNCHANGED task, SameProjects PROVE EmptyInv'
    BY <1>a, StayingIsEmpty DEF Stays
  <1>b. ASSUME ArchiveWrite(p) PROVE EmptyInv'
    <2>1. /\ \A q \in Projects \ {p} : project'[q] = project[q]
          /\ project'[p].state = "ARCHIVED"
      <3>1. project' = [project EXCEPT ![p] = [project[p] EXCEPT !.state = "ARCHIVED"]]
        BY <1>b DEF ArchiveWrite
      <3> QED
        BY <1>0, <3>1 DEF ProjectRow
    <2>2. ASSUME NEW u \in Tasks
          PROVE /\ task'[u].project = task[u].project
                /\ task[u].deleted => task'[u].deleted
                /\ task'[u].status = "ABSENT" => task[u].status = "ABSENT"
                /\ task[u].project = p => task'[u].deleted
      <3>1. task[u] \in TaskRow
        BY OneRow DEF EmptyInv
      <3>2. task'[u] = IF task[u].project = p /\ Live(task[u])
                       THEN [task[u] EXCEPT !.status = "DELETED", !.deleted = TRUE]
                       ELSE task[u]
        BY <1>b DEF ArchiveWrite, Deleted
      <3>3. task[u].project = p => task[u].status # "ABSENT"
        BY ConstantsAssumption DEF EmptyInv
      <3> QED
        BY <3>1, <3>2, <3>3 DEF TaskRow, Live
    <2> QED
      BY <2>1, <2>2 DEF EmptyInv, ArchivedProjectIsEmpty
  <1>1. ASSUME NEW limit \in TalentLimits, CreateProject(p, limit) PROVE EmptyInv'
    <2>1. project' = [project EXCEPT ![p] =
                        [project[p] EXCEPT !.state = "ACTIVE", !.maxTalents = limit]]
          /\ UNCHANGED task
      BY <1>1 DEF CreateProject
    <2>2. SameProjects
      BY <1>0, <2>1 DEF SameProjects, ProjectRow
    <2> QED
      BY <1>a, <2>1, <2>2
  <1>2. ASSUME NEW limit \in TalentLimits, UpdateProject(p, limit) PROVE EmptyInv'
    <2>1. project' = [project EXCEPT ![p] = [project[p] EXCEPT !.maxTalents = limit]]
          /\ UNCHANGED task
      BY <1>2 DEF UpdateProject, UpdateProjectWrite
    <2>2. SameProjects
      BY <1>0, <2>1 DEF SameProjects, ProjectRow
    <2> QED
      BY <1>a, <2>1, <2>2
  <1>3. CASE DeleteProject(p)
    BY <1>3, <1>b DEF DeleteProject, DeleteProjectWrite
  <1>4. ASSUME NEW r \in Reporters, ReportProject(p, r) PROVE EmptyInv'
    BY <1>4, <1>a DEF ReportProject, SameProjects
  <1>5. ASSUME NEW r \in Reporters, NEW action \in ReportAction,
               ResolveProjectReport(p, r, action)
        PROVE EmptyInv'
    <2>1. ArchiveWrite(p) \/ UNCHANGED <<task, project>>
      BY <1>5 DEF ResolveProjectReport
    <2> QED
      BY <2>1, <1>a, <1>b DEF SameProjects
  <1> QED
    BY <1>1, <1>2, <1>3, <1>4, <1>5 DEF ProjectStep

LEMMA NextEmpty == EmptyInv /\ [Next]_vars => EmptyInv'
  <1> SUFFICES ASSUME EmptyInv, [Next]_vars PROVE EmptyInv'
    OBVIOUS
  <1>1. TypeOK'
    BY NextTypeOK DEF EmptyInv
  <1>2. CASE UNCHANGED vars
    BY <1>1, <1>2, StayingIsEmpty DEF vars, projectTables, Stays, SameProjects
  <1> QED
    BY <1>1, <1>2, DraftEmpty, TaskEmpty, ProjectEmpty DEF Next

LEMMA InitEmpty == Init => EmptyInv
  BY InitTypeOK, ConstantsAssumption
     DEF Init, EmptyInv, ArchivedProjectIsEmpty, NoTaskRow, NoProjectRow

LEMMA EmptyInvariance == Spec => []EmptyInv
  BY InitEmpty, NextEmpty, PTL DEF Spec

\* An archived project keeps no live task: create and update look at the project
\* before they put a task into it, and archiving takes every live task along.
THEOREM ArchivedProjectCorrect == Spec => []ArchivedProjectIsEmpty
  <1>1. EmptyInv => ArchivedProjectIsEmpty
    BY DEF EmptyInv
  <1> QED
    BY <1>1, EmptyInvariance, PTL
-----------------------------------------------------------------------------
(* The handlers implement the documented life of a task: the initial states *)
(* map to the initial state, and under the inductive invariant every        *)
(* handler maps to one arrow of TaskLifecycle or to no change at all.       *)

(* What a client sees of a task, from its rows *)

LEMMA InitLifecycle == Init => Lifecycle!Init
  <1> SUFFICES ASSUME Init PROVE Lifecycle!Init
    OBVIOUS
  <1>1. \A t \in Tasks : task[t] = NoTaskRow
    BY DEF Init
  <1>2. \A t \in Tasks : OpenDisputes(t) = {}
    BY DEF Init, OpenDisputes
  <1>3. \A t \in Tasks : /\ task[t].status = "ABSENT" /\ task[t].accepted = NoDeveloper
                         /\ task[t].rejectionCount = 0
    BY <1>1 DEF NoTaskRow
  <1>4. stage = [t \in Tasks |-> "ABSENT"]
    BY <1>3 DEF stage
  <1>5. worker = [t \in Tasks |-> NoDeveloper]
    BY <1>3 DEF worker
  <1>6. attempts = [t \in Tasks |-> 0]
    BY <1>3 DEF attempts
  <1>7. contested = [t \in Tasks |-> FALSE]
    BY <1>2 DEF contested
  <1> QED
    BY <1>4, <1>5, <1>6, <1>7 DEF Lifecycle!Init

\* A write to the row of one task shows as an update of that task alone.
LEMMA OneColumn ==
  ASSUME NEW t \in Tasks, NEW s, NEW a, NEW c, NEW dl, NEW x,
         Becomes(t, s, a, c, dl, x), \A u \in Tasks \ {t} : SameColumns(u)
  PROVE  /\ stage' = [stage EXCEPT ![t] = s]
         /\ worker' = [worker EXCEPT ![t] = a]
         /\ attempts' = [attempts EXCEPT ![t] = c]
  <1>1. \A u \in Tasks : /\ task'[u].status = IF u = t THEN s ELSE task[u].status
                         /\ task'[u].accepted = IF u = t THEN a ELSE task[u].accepted
                         /\ task'[u].rejectionCount = IF u = t THEN c
                                                      ELSE task[u].rejectionCount
    BY DEF Becomes, SameColumns
  <1> QED
    BY <1>1 DEF stage, worker, attempts

\* A column written with the value it had is unchanged.
LEMMA KeptColumn ==
  ASSUME NEW t \in Tasks
  PROVE  /\ stage' = [stage EXCEPT ![t] = task[t].status] => stage' = stage
         /\ worker' = [worker EXCEPT ![t] = task[t].accepted] => worker' = worker
         /\ attempts' = [attempts EXCEPT ![t] = task[t].rejectionCount] =>
              attempts' = attempts
  BY DEF stage, worker, attempts

LEMMA Shown ==
  ASSUME NEW t \in Tasks
  PROVE  /\ stage[t] = task[t].status /\ worker[t] = task[t].accepted
         /\ attempts[t] = task[t].rejectionCount
         /\ contested[t] <=> OpenDisputes(t) # {}
  BY DEF stage, worker, attempts, contested

\* No row of any task changed in a column a client sees.
LEMMA KeptView ==
  ASSUME \A u \in Tasks : SameColumns(u)
  PROVE  UNCHANGED <<stage, worker, attempts>>
  BY DEF SameColumns, Becomes, stage, worker, attempts

LEMMA KeptDisputes == ASSUME UNCHANGED dispute PROVE UNCHANGED contested
  BY DEF contested, OpenDisputes

\* Closing the latest open dispute leaves none open.
LEMMA ClosedDisputes ==
  ASSUME IInv, NEW t \in Tasks, NEW action \in ResolutionAction,
         Resolve(t, LatestOpen(t), action)
  PROVE  contested' = [contested EXCEPT ![t] = FALSE]
  <1>1. /\ \A k \in DisputeIds : dispute'[t][k] # "OPEN"
        /\ \A u \in Tasks \ {t} : dispute'[u] = dispute[u]
    BY ResolveOpen
  <1>2. \A u \in Tasks : (OpenDisputes(u) # {})' <=>
                           IF u = t THEN FALSE ELSE OpenDisputes(u) # {}
    BY <1>1 DEF OpenDisputes
  <1> QED
    BY <1>2 DEF contested

-----------------------------------------------------------------------------
(* Handler by handler *)

Stutter == UNCHANGED <<stage, worker, attempts, contested>>

\* A handler that writes only the status column of one row.
LEMMA StatusWrite ==
  ASSUME TypeOK, NEW t \in Tasks, NEW s, UNCHANGED dispute,
         Becomes(t, s, task[t].accepted, task[t].rejectionCount, task'[t].deadline,
                 task'[t].deleted),
         \A u \in Tasks \ {t} : SameColumns(u)
  PROVE  stage' = [stage EXCEPT ![t] = s] /\ UNCHANGED <<worker, attempts, contested>>
  <1>1. /\ stage' = [stage EXCEPT ![t] = s]
        /\ worker' = [worker EXCEPT ![t] = task[t].accepted]
        /\ attempts' = [attempts EXCEPT ![t] = task[t].rejectionCount]
    BY OneColumn
  <1> QED
    BY <1>1, KeptColumn, KeptDisputes

\* Deleting one live task.
LEMMA DeleteOne ==
  ASSUME IInv, NEW t \in Tasks, Live(task[t]), UNCHANGED dispute,
         task' = [task EXCEPT ![t] = Deleted(task[t])]
  PROVE  Lifecycle!Remove({t})
  <1> USE DEF IInv
  <1>1. task'[t] = Deleted(task[t]) /\ \A u \in Tasks \ {t} : SameColumns(u)
    BY OtherRows
  <1>2. Becomes(t, "DELETED", task[t].accepted, task[t].rejectionCount, task[t].deadline, TRUE)
    BY <1>1, OneRow, RowColumns DEF Deleted
  <1>3. stage' = [stage EXCEPT ![t] = "DELETED"] /\ UNCHANGED <<worker, attempts, contested>>
    <2>1. task'[t].deadline = task[t].deadline /\ task'[t].deleted = TRUE
      BY <1>2 DEF Becomes
    <2> QED
      BY <1>1, <1>2, <2>1, StatusWrite
  <1>4. stage[t] \notin {"ABSENT", "DELETED"}
    BY Shown DEF Live, TaskOK, RowOK
  <1>5. stage' = [u \in Tasks |-> IF u \in {t} THEN "DELETED" ELSE stage[u]]
    BY <1>3 DEF stage
  <1> QED
    BY <1>3, <1>4, <1>5 DEF Lifecycle!Remove

LEMMA DraftRefines ==
  ASSUME IInv, NEW t \in Tasks, DraftStep(t)
  PROVE  Lifecycle!Prepare(t) \/ Lifecycle!Remove({t}) \/ Stutter
  <1> USE DEF IInv
  <1>0. task[t] \in TaskRow
    BY OneRow
  <1>1. ASSUME NEW p \in Projects \cup {NoProject}, CreateTaskDraft(t, p)
        PROVE Lifecycle!Prepare(t)
    <2>1. /\ task' = [task EXCEPT ![t] = [task[t] EXCEPT !.status = "DRAFT", !.project = p]]
          /\ UNCHANGED dispute /\ task[t].status = "ABSENT"
      BY <1>1 DEF CreateTaskDraft, CreateDraftWrite, taskTables
    <2>2. task'[t] = [task[t] EXCEPT !.status = "DRAFT", !.project = p]
          /\ \A u \in Tasks \ {t} : SameColumns(u)
      BY <2>1, OtherRows
    <2>3. Becomes(t, "DRAFT", task[t].accepted, task[t].rejectionCount, task[t].deadline,
                  task[t].deleted)
      BY <1>0, <2>2, RowColumns
    <2>4. stage' = [stage EXCEPT ![t] = "DRAFT"] /\ UNCHANGED <<worker, attempts, contested>>
      <3>1. task'[t].deadline = task[t].deadline /\ task'[t].deleted = task[t].deleted
        BY <2>3 DEF Becomes
      <3> QED
        BY <2>1, <2>2, <2>3, <3>1, StatusWrite
    <2> QED
      BY <2>1, <2>4, Shown DEF Lifecycle!Prepare, Lifecycle!Move
  <1>2. ASSUME NEW p \in Projects \cup {NoProject}, UpdateTaskDraft(t, p)
        PROVE Stutter
    <2>1. task' = [task EXCEPT ![t] = [task[t] EXCEPT !.project = p]] /\ UNCHANGED dispute
      BY <1>2 DEF UpdateTaskDraft, UpdateDraftWrite, taskTables
    <2>2. task'[t] = [task[t] EXCEPT !.project = p]
          /\ \A u \in Tasks \ {t} : SameColumns(u)
      BY <2>1, OtherRows
    <2>3. SameColumns(t)
      BY <1>0, <2>2, RowColumns DEF SameColumns
    <2> QED
      BY <2>1, <2>2, <2>3, KeptView, KeptDisputes DEF Stutter
  <1>3. ASSUME PublishTask(t)
        PROVE Lifecycle!Prepare(t)
    <2>1. /\ task' = [task EXCEPT ![t] = [task[t] EXCEPT !.status = "PUBLISHED"]]
          /\ UNCHANGED dispute /\ task[t].status = "DRAFT"
      BY <1>3 DEF PublishTask, MayPublish, PublishWrite, taskTables
    <2>2. task'[t] = [task[t] EXCEPT !.status = "PUBLISHED"]
          /\ \A u \in Tasks \ {t} : SameColumns(u)
      BY <2>1, OtherRows
    <2>3. Becomes(t, "PUBLISHED", task[t].accepted, task[t].rejectionCount, task[t].deadline,
                  task[t].deleted)
      BY <1>0, <2>2, RowColumns
    <2>4. stage' = [stage EXCEPT ![t] = "PUBLISHED"] /\ UNCHANGED <<worker, attempts, contested>>
      <3>1. task'[t].deadline = task[t].deadline /\ task'[t].deleted = task[t].deleted
        BY <2>3 DEF Becomes
      <3> QED
        BY <2>1, <2>2, <2>3, <3>1, StatusWrite
    <2> QED
      BY <2>1, <2>4, Shown DEF Lifecycle!Prepare, Lifecycle!Move
  <1>4. ASSUME CloseTask(t)
        PROVE Lifecycle!Prepare(t)
    <2>1. /\ task' = [task EXCEPT ![t] = [task[t] EXCEPT !.status = "CLOSED"]]
          /\ UNCHANGED dispute /\ task[t].status \in {"DRAFT", "PUBLISHED"}
      BY <1>4 DEF CloseTask, MayClose, CloseWrite, taskTables
    <2>2. task'[t] = [task[t] EXCEPT !.status = "CLOSED"]
          /\ \A u \in Tasks \ {t} : SameColumns(u)
      BY <2>1, OtherRows
    <2>3. Becomes(t, "CLOSED", task[t].accepted, task[t].rejectionCount, task[t].deadline,
                  task[t].deleted)
      BY <1>0, <2>2, RowColumns
    <2>4. stage' = [stage EXCEPT ![t] = "CLOSED"] /\ UNCHANGED <<worker, attempts, contested>>
      <3>1. task'[t].deadline = task[t].deadline /\ task'[t].deleted = task[t].deleted
        BY <2>3 DEF Becomes
      <3> QED
        BY <2>1, <2>2, <2>3, <3>1, StatusWrite
    <2> QED
      BY <2>1, <2>4, Shown DEF Lifecycle!Prepare, Lifecycle!Move
  <1>5. ASSUME DeleteTask(t) PROVE Lifecycle!Remove({t})
    <2>1. /\ task' = [task EXCEPT ![t] = Deleted(task[t])]
          /\ UNCHANGED dispute /\ Live(task[t])
      BY <1>5 DEF DeleteTask, DeleteWrite, MayDelete, taskTables
    <2> QED
      BY <2>1, DeleteOne
  <1> QED
    BY <1>1, <1>2, <1>3, <1>4, <1>5 DEF DraftStep

\* The hiring steps other than the two accepts leave the task's row alone.
LEMMA HiringRefines ==
  ASSUME IInv, NEW t \in Tasks, HiringStep(t)
  PROVE  Lifecycle!Hire(t) \/ Stutter
  <1> USE DEF IInv
  <1>0. task[t] \in TaskRow
    BY OneRow
  <1>1. PICK d \in Developers :
          \/ ApplyToTask(t, d) \/ AcceptApplication(t, d) \/ RejectApplication(t, d)
          \/ CreateTaskInvite(t, d) \/ AcceptInvite(t, d)
          \/ DeclineInvite(t, d) \/ CancelInvite(t, d)
    BY DEF HiringStep
  <1>2. ASSUME MayStart(task[t]), UNCHANGED dispute,
               task' = [task EXCEPT ![t] =
                          [task[t] EXCEPT !.status = "IN_PROGRESS", !.accepted = d]]
        PROVE Lifecycle!Hire(t)
    <2>1. task'[t] = [task[t] EXCEPT !.status = "IN_PROGRESS", !.accepted = d]
          /\ \A u \in Tasks \ {t} : SameColumns(u)
      BY <1>2, OtherRows
    <2>2. Becomes(t, "IN_PROGRESS", d, task[t].rejectionCount, task[t].deadline,
                  task[t].deleted)
      BY <1>0, <2>1, RowColumns
    <2>3. /\ stage' = [stage EXCEPT ![t] = "IN_PROGRESS"]
          /\ worker' = [worker EXCEPT ![t] = d]
          /\ attempts' = [attempts EXCEPT ![t] = task[t].rejectionCount]
      BY <2>1, <2>2, OneColumn
    <2>4. UNCHANGED <<attempts, contested>>
      BY <1>2, <2>3, KeptColumn, KeptDisputes
    <2>5. stage[t] = "PUBLISHED" /\ worker[t] = NoDeveloper
      BY <1>2, Shown DEF MayStart
    <2> QED
      BY <2>3, <2>4, <2>5 DEF Lifecycle!Hire, Lifecycle!Move
  <1>3. CASE AcceptApplication(t, d)
    BY <1>2, <1>3 DEF AcceptApplication, AcceptApplicationWrite, StartWrite, taskTables
  <1>4. CASE AcceptInvite(t, d)
    BY <1>2, <1>4 DEF AcceptInvite, AcceptInviteWrite, StartWrite, taskTables
  <1>5. ASSUME UNCHANGED <<task, dispute>> PROVE Stutter
    BY <1>5, SameRow, KeptView, KeptDisputes DEF Stutter
  <1>6. CASE \/ ApplyToTask(t, d) \/ RejectApplication(t, d) \/ CreateTaskInvite(t, d)
             \/ DeclineInvite(t, d) \/ CancelInvite(t, d)
    BY <1>5, <1>6 DEF ApplyToTask, ApplyWrite, RejectApplication, RejectApplicationWrite,
       CreateTaskInvite, InviteWrite, DeclineInvite, CancelInvite, AnswerInviteWrite, taskTables
  <1> QED
    BY <1>1, <1>3, <1>4, <1>6

LEMMA WorkRefines ==
  ASSUME IInv, NEW t \in Tasks, WorkStep(t)
  PROVE  \/ Lifecycle!RequestCompletion(t) \/ Lifecycle!RejectCompletion(t)
         \/ Lifecycle!ConfirmCompletion(t) \/ Stutter
  <1> USE DEF IInv
  <1>0. task[t] \in TaskRow
    BY OneRow
  <1>a. ASSUME UNCHANGED <<task, dispute>> PROVE Stutter
    BY <1>a, SameRow, KeptView, KeptDisputes DEF Stutter
  <1>1. CASE GetThreadByTaskId(t)
    BY <1>1, <1>a DEF GetThreadByTaskId, taskTables
  <1>2. ASSUME NEW d \in Developers, RequestTaskCompletion(t, d)
        PROVE Lifecycle!RequestCompletion(t)
    <2>1. /\ task' = [task EXCEPT ![t] = [task[t] EXCEPT !.status = "COMPLETION_REQUESTED",
                                                        !.deadline = "running"]]
          /\ UNCHANGED dispute /\ task[t].status \in {"IN_PROGRESS", "DISPUTE"}
      BY <1>2 DEF RequestTaskCompletion, MayRequestCompletion, RequestCompletionWrite, taskTables
    <2>2. task'[t] = [task[t] EXCEPT !.status = "COMPLETION_REQUESTED", !.deadline = "running"]
          /\ \A u \in Tasks \ {t} : SameColumns(u)
      BY <2>1, OtherRows
    <2>3. Becomes(t, "COMPLETION_REQUESTED", task[t].accepted, task[t].rejectionCount,
                  "running", task[t].deleted)
      BY <1>0, <2>2, RowColumns
    <2>4. stage' = [stage EXCEPT ![t] = "COMPLETION_REQUESTED"]
          /\ UNCHANGED <<worker, attempts, contested>>
      <3>1. task'[t].deadline = "running" /\ task'[t].deleted = task[t].deleted
        BY <2>3 DEF Becomes
      <3> QED
        BY <2>1, <2>2, <2>3, <3>1, StatusWrite
    <2> QED
      BY <2>1, <2>4, Shown DEF Lifecycle!RequestCompletion, Lifecycle!Move
  <1>3. ASSUME RejectTaskCompletion(t) PROVE Lifecycle!RejectCompletion(t)
    <2> DEFINE n == task[t].rejectionCount
    <2>1. /\ task' = [task EXCEPT ![t] = [task[t] EXCEPT !.rejectionCount = n + 1,
                         !.deadline = "none", !.status = StatusAfterRejection(n + 1)]]
          /\ Resolve(t, LatestOpen(t), RejectionResolution(n + 1))
          /\ task[t].status = "COMPLETION_REQUESTED"
      BY <1>3 DEF RejectTaskCompletion, MayAnswerCompletion, RejectCompletionWrite
    <2>2. task'[t] = [task[t] EXCEPT !.rejectionCount = n + 1, !.deadline = "none",
                                     !.status = StatusAfterRejection(n + 1)]
          /\ \A u \in Tasks \ {t} : SameColumns(u)
      BY <2>1, OtherRows
    <2>3. Becomes(t, StatusAfterRejection(n + 1), task[t].accepted, n + 1, "none",
                  task[t].deleted)
      BY <1>0, <2>2, RowColumns
    <2>4. /\ stage' = [stage EXCEPT ![t] = StatusAfterRejection(n + 1)]
          /\ worker' = [worker EXCEPT ![t] = task[t].accepted]
          /\ attempts' = [attempts EXCEPT ![t] = n + 1]
      BY <2>2, <2>3, OneColumn
    <2>5. UNCHANGED worker
      BY <2>4, KeptColumn
    <2>6. contested' = [contested EXCEPT ![t] = FALSE]
      BY <2>1, ClosedDisputes DEF RejectionResolution, ResolutionAction
    <2>7. n \in Nat /\ attempts[t] = n /\ stage[t] = "COMPLETION_REQUESTED"
      BY <1>0, <2>1, Shown DEF TaskRow
    <2>8. StatusAfterRejection(n + 1) =
            IF n + 1 < MaxRejections THEN "IN_PROGRESS" ELSE "FAILED"
      BY <2>7, ConstantsAssumption DEF StatusAfterRejection, IsFinal
    <2>9. attempts' = [attempts EXCEPT ![t] = attempts[t] + 1]
      BY <2>4, <2>7
    <2>10. stage' = [stage EXCEPT ![t] =
                       IF attempts[t] + 1 < MaxRejections THEN "IN_PROGRESS" ELSE "FAILED"]
      BY <2>4, <2>7, <2>8
    <2> QED
      BY <2>5, <2>6, <2>7, <2>9, <2>10 DEF Lifecycle!RejectCompletion, Lifecycle!Move
  <1>4. ASSUME ConfirmTaskCompletion(t) PROVE Lifecycle!ConfirmCompletion(t)
    <2>1. /\ task' = [task EXCEPT ![t] =
                        [task[t] EXCEPT !.status = "COMPLETED", !.deadline = "none"]]
          /\ Resolve(t, LatestOpen(t), "MARK_COMPLETED")
          /\ task[t].status = "COMPLETION_REQUESTED"
      BY <1>4 DEF ConfirmTaskCompletion, MayAnswerCompletion, ConfirmWrite
    <2>2. task'[t] = [task[t] EXCEPT !.status = "COMPLETED", !.deadline = "none"]
          /\ \A u \in Tasks \ {t} : SameColumns(u)
      BY <2>1, OtherRows
    <2>3. Becomes(t, "COMPLETED", task[t].accepted, task[t].rejectionCount, "none",
                  task[t].deleted)
      BY <1>0, <2>2, RowColumns
    <2>4. /\ stage' = [stage EXCEPT ![t] = "COMPLETED"]
          /\ worker' = [worker EXCEPT ![t] = task[t].accepted]
          /\ attempts' = [attempts EXCEPT ![t] = task[t].rejectionCount]
      BY <2>2, <2>3, OneColumn
    <2>5. UNCHANGED <<worker, attempts>>
      BY <2>4, KeptColumn
    <2>6. contested' = [contested EXCEPT ![t] = FALSE]
      BY <2>1, ClosedDisputes DEF ResolutionAction
    <2> QED
      BY <2>1, <2>4, <2>5, <2>6, Shown DEF Lifecycle!ConfirmCompletion, Lifecycle!Move
  <1>5. ASSUME ResponseDeadlinePasses(t) PROVE Stutter
    <2>1. task' = [task EXCEPT ![t] = [task[t] EXCEPT !.deadline = "passed"]]
          /\ UNCHANGED dispute
      BY <1>5 DEF ResponseDeadlinePasses, taskTables
    <2>2. task'[t] = [task[t] EXCEPT !.deadline = "passed"]
          /\ \A u \in Tasks \ {t} : SameColumns(u)
      BY <2>1, OtherRows
    <2>3. Becomes(t, task[t].status, task[t].accepted, task[t].rejectionCount, "passed",
                  task[t].deleted)
      BY <1>0, <2>2, RowColumns
    <2>4. /\ stage' = [stage EXCEPT ![t] = task[t].status]
          /\ worker' = [worker EXCEPT ![t] = task[t].accepted]
          /\ attempts' = [attempts EXCEPT ![t] = task[t].rejectionCount]
      BY <2>2, <2>3, OneColumn
    <2> QED
      BY <2>1, <2>4, KeptColumn, KeptDisputes DEF Stutter
  <1>6. ASSUME NEW author \in Persona, CreateReview(t, author) PROVE Stutter
    BY <1>6, <1>a DEF CreateReview, ReviewWrite
  <1> QED
    BY <1>1, <1>2, <1>3, <1>4, <1>5, <1>6 DEF WorkStep

LEMMA DisputeRefines ==
  ASSUME IInv, NEW t \in Tasks, DisputeStep(t)
  PROVE  Lifecycle!OpenDispute(t) \/ Lifecycle!ResolveDispute(t)
  <1> USE DEF IInv
  <1>0. task[t] \in TaskRow
    BY OneRow
  <1>1. ASSUME OpenDisputes(t) = {}, DisputeWrite(t),
               task[t].status \in {"IN_PROGRESS", "COMPLETION_REQUESTED"}
        PROVE Lifecycle!OpenDispute(t)
    <2>1. task' = [task EXCEPT ![t] = [task[t] EXCEPT !.status = "DISPUTE"]]
      BY <1>1 DEF DisputeWrite
    <2>2. task'[t] = [task[t] EXCEPT !.status = "DISPUTE"]
          /\ \A u \in Tasks \ {t} : SameColumns(u)
      BY <2>1, OtherRows
    <2>3. Becomes(t, "DISPUTE", task[t].accepted, task[t].rejectionCount, task[t].deadline,
                  task[t].deleted)
      BY <1>0, <2>2, RowColumns
    <2>4. /\ stage' = [stage EXCEPT ![t] = "DISPUTE"]
          /\ worker' = [worker EXCEPT ![t] = task[t].accepted]
          /\ attempts' = [attempts EXCEPT ![t] = task[t].rejectionCount]
      BY <2>2, <2>3, OneColumn
    <2>5. UNCHANGED <<worker, attempts>>
      BY <2>4, KeptColumn
    <2>6. contested' = [contested EXCEPT ![t] = TRUE]
      <3>1. PICK k \in DisputeIds : dispute' = [dispute EXCEPT ![t][k] = "OPEN"]
        BY <1>1 DEF DisputeWrite
      <3>2. dispute'[t][k] = "OPEN" /\ \A u \in Tasks \ {t} : dispute'[u] = dispute[u]
        BY <3>1 DEF TypeOK
      <3>3. \A u \in Tasks : (OpenDisputes(u) # {})' <=>
                               IF u = t THEN TRUE ELSE OpenDisputes(u) # {}
        BY <3>2 DEF OpenDisputes
      <3> QED
        BY <3>3 DEF contested
    <2>7. stage[t] \in {"IN_PROGRESS", "COMPLETION_REQUESTED"} /\ ~contested[t]
      BY <1>1, Shown
    <2> QED
      BY <2>4, <2>5, <2>6, <2>7 DEF Lifecycle!OpenDispute, Lifecycle!Move
  <1>2. ASSUME NEW action \in ResolutionAction, ResolveTaskDispute(t, action)
        PROVE Lifecycle!ResolveDispute(t)
    <2> DEFINE s == StatusAfterResolution(action)
    <2>1. /\ task' = [task EXCEPT ![t] = [task[t] EXCEPT !.status = s, !.deadline = "none"]]
          /\ Resolve(t, LatestOpen(t), action)
          /\ Live(task[t]) /\ OpenDisputes(t) # {}
      BY <1>2 DEF ResolveTaskDispute, ResolveWrite
    <2>2. task'[t] = [task[t] EXCEPT !.status = s, !.deadline = "none"]
          /\ \A u \in Tasks \ {t} : SameColumns(u)
      BY <2>1, OtherRows
    <2>3. Becomes(t, s, task[t].accepted, task[t].rejectionCount, "none", task[t].deleted)
      BY <1>0, <2>2, RowColumns
    <2>4. /\ stage' = [stage EXCEPT ![t] = s]
          /\ worker' = [worker EXCEPT ![t] = task[t].accepted]
          /\ attempts' = [attempts EXCEPT ![t] = task[t].rejectionCount]
      BY <2>2, <2>3, OneColumn
    <2>5. UNCHANGED <<worker, attempts>>
      BY <2>4, KeptColumn
    <2>6. contested' = [contested EXCEPT ![t] = FALSE]
      BY <2>1, ClosedDisputes
    <2>7. task[t].status \in {"DISPUTE", "COMPLETION_REQUESTED"}
      <3>1. task[t].status \in {"DISPUTE", "COMPLETION_REQUESTED", "DELETED"}
        BY <2>1 DEF TaskOK, WorkedOK, OpenDisputes
      <3> QED
        BY <2>1, <3>1 DEF TaskOK, RowOK, Live
    <2>8. s \in {"IN_PROGRESS", "FAILED", "COMPLETED"}
      BY DEF StatusAfterResolution, ResolutionAction
    <2>9. stage[t] \in {"DISPUTE", "COMPLETION_REQUESTED"} /\ contested[t]
      BY <2>1, <2>7, Shown
    <2> QED
      BY <2>4, <2>5, <2>6, <2>8, <2>9 DEF Lifecycle!ResolveDispute, Lifecycle!Move
  <1>3. CASE OpenTaskDispute(t)
    BY <1>1, <1>3 DEF OpenTaskDispute, MayOpenDispute
  <1>4. ASSUME NEW d \in Developers, EscalateTaskCompletionDispute(t, d)
        PROVE Lifecycle!OpenDispute(t)
    BY <1>1, <1>4 DEF EscalateTaskCompletionDispute, MayEscalate
  <1> QED
    BY <1>2, <1>3, <1>4 DEF DisputeStep

LEMMA ReportRefines ==
  ASSUME IInv, NEW t \in Tasks, TaskReportStep(t)
  PROVE  Lifecycle!Remove({t}) \/ Stutter
  <1>1. UNCHANGED dispute
        /\ (task' = task \/ (Live(task[t]) /\ task' = [task EXCEPT ![t] = Deleted(task[t])]))
    BY DEF TaskReportStep, ReportTask, ReportTaskWrite, ResolveTaskReport,
       ResolveTaskReportWrite
  <1>2. CASE task' = task
    BY <1>1, <1>2, SameRow, KeptView, KeptDisputes DEF Stutter
  <1>3. CASE Live(task[t]) /\ task' = [task EXCEPT ![t] = Deleted(task[t])]
    BY <1>1, <1>3, DeleteOne
  <1> QED
    BY <1>1, <1>2, <1>3

\* Archiving a project deletes all of its live tasks in one step.
LEMMA ProjectRefines ==
  ASSUME IInv, NEW p \in Projects, ProjectStep(p)
  PROVE  (\E S \in SUBSET Tasks : Lifecycle!Remove(S)) \/ Stutter
  <1> USE DEF IInv
  <1>1. UNCHANGED dispute
    BY DEF ProjectStep, CreateProject, UpdateProject, UpdateProjectWrite, DeleteProject,
       DeleteProjectWrite, ReportProject, ResolveProjectReport, taskTables
  <1>2. task' = task \/ ArchiveWrite(p)
    BY DEF ProjectStep, CreateProject, UpdateProject, UpdateProjectWrite, DeleteProject,
       DeleteProjectWrite, ReportProject, ResolveProjectReport
  <1>3. CASE task' = task
    BY <1>1, <1>3, SameRow, KeptView, KeptDisputes DEF Stutter
  <1>4. CASE ArchiveWrite(p)
    <2> DEFINE S == {u \in Tasks : task[u].project = p /\ Live(task[u])}
    <2>1. \A u \in Tasks : task'[u] = IF u \in S THEN Deleted(task[u]) ELSE task[u]
      BY <1>4 DEF ArchiveWrite
    <2>2. ASSUME NEW u \in Tasks
          PROVE /\ task'[u].status = IF u \in S THEN "DELETED" ELSE task[u].status
                /\ task'[u].accepted = task[u].accepted
                /\ task'[u].rejectionCount = task[u].rejectionCount
      <3>1. task[u] \in TaskRow
        BY OneRow
      <3> QED
        BY <2>1, <3>1 DEF Deleted, TaskRow
    <2>3. \A u \in S : stage[u] \notin {"ABSENT", "DELETED"}
      BY Shown DEF Live, TaskOK, RowOK
    <2>4. stage' = [u \in Tasks |-> IF u \in S THEN "DELETED" ELSE stage[u]]
      BY <2>2 DEF stage
    <2>5. UNCHANGED <<worker, attempts>>
      BY <2>2 DEF worker, attempts
    <2>6. Lifecycle!Remove(S)
      BY <1>1, <2>3, <2>4, <2>5, KeptDisputes DEF Lifecycle!Remove
    <2>7. S \in SUBSET Tasks
      OBVIOUS
    <2> QED
      BY <2>6, <2>7
  <1> QED
    BY <1>2, <1>3, <1>4

-----------------------------------------------------------------------------
(* The refinement *)

LEMMA NextLifecycle == IInv /\ [Next]_vars => [Lifecycle!Next]_(Lifecycle!vars)
  <1> SUFFICES ASSUME IInv, [Next]_vars PROVE Lifecycle!Next \/ UNCHANGED Lifecycle!vars
    OBVIOUS
  <1>0. Stutter => UNCHANGED Lifecycle!vars
    BY DEF Stutter, Lifecycle!vars
  <1>1. CASE UNCHANGED vars
    <2>1. UNCHANGED <<task, dispute>>
      BY <1>1 DEF vars, taskTables
    <2> QED
      BY <1>0, <2>1, SameRow, KeptView, KeptDisputes DEF Stutter
  <1>2. ASSUME NEW t \in Tasks,
               \/ DraftStep(t) \/ HiringStep(t) \/ WorkStep(t) \/ DisputeStep(t)
               \/ TaskReportStep(t)
        PROVE Lifecycle!Next \/ Stutter
    <2>1. {t} \in SUBSET Tasks
      OBVIOUS
    <2> QED
      BY <1>2, <2>1, DraftRefines, HiringRefines, WorkRefines, DisputeRefines, ReportRefines
      DEF Lifecycle!Next
  <1>3. ASSUME NEW p \in Projects, ProjectStep(p) PROVE Lifecycle!Next \/ Stutter
    BY <1>3, ProjectRefines DEF Lifecycle!Next
  <1> QED
    BY <1>0, <1>1, <1>2, <1>3 DEF Next

\* Whatever the number of tasks, developers and projects and the rejection limit, the
\* handlers only move a task along the documented arrows.
THEOREM RefinesLifecycle == Spec => ImplementsLifecycle
  <1>1. IInv /\ [Next]_vars => [Lifecycle!Next]_(Lifecycle!vars)
    BY NextLifecycle
  <1> QED
    BY <1>1, InitLifecycle, Invariance, PTL DEF Spec, ImplementsLifecycle, Lifecycle!Spec

\* A developer who has a task keeps it: of the documented arrows only Hire writes the
\* worker, and it needs a task without one.
THEOREM AcceptedForGoodCorrect == Spec => AcceptedForGood
  <1>1. IInv /\ [Next]_vars =>
          [\A t \in Tasks : task[t].accepted # NoDeveloper =>
             task'[t].accepted = task[t].accepted]_vars
    <2> SUFFICES ASSUME IInv, [Next]_vars, NEW t \in Tasks, task[t].accepted # NoDeveloper
                 PROVE  task'[t].accepted = task[t].accepted
      OBVIOUS
    <2>1. worker[t] # NoDeveloper /\ worker'[t] = task'[t].accepted
      BY DEF worker
    <2>2. Lifecycle!Next \/ UNCHANGED Lifecycle!vars
      BY NextLifecycle
    <2>3. ASSUME NEW u \in Tasks, Lifecycle!Hire(u) PROVE worker'[t] = worker[t]
      BY <2>1, <2>3 DEF Lifecycle!Hire, worker
    <2>4. worker'[t] = worker[t]
      BY <2>2, <2>3 DEF Lifecycle!Next, Lifecycle!Prepare, Lifecycle!RequestCompletion,
         Lifecycle!RejectCompletion, Lifecycle!ConfirmCompletion, Lifecycle!OpenDispute,
         Lifecycle!ResolveDispute, Lifecycle!Remove, Lifecycle!vars
    <2> QED
      BY <2>1, <2>4, Shown
  <1> QED
    BY <1>1, Invariance, PTL DEF Spec, AcceptedForGood
=============================================================================
