-------------------------- MODULE MC_TaskRequests --------------------------
(***************************************************************************)
(* Instances of TaskRequests for TLC.  The operations come in groups that  *)
(* compete for the same rows, so that the state spaces of the groups add   *)
(* up instead of multiplying.  The slots of requests are interchangeable,  *)
(* and so are the developers.                                              *)
(***************************************************************************)
EXTENDS TaskRequests, TLC

Symmetry == Permutations(Requests) \cup Permutations(Developers)

\* Before the work: everything that competes for a published task.
HiringOps ==
  {"CreateTaskDraft", "PublishTask", "CloseTask", "DeleteTask", "ApplyToTask",
   "AcceptApplication", "RejectApplication", "CreateTaskInvite", "AcceptInvite",
   "DeclineInvite", "CancelInvite", "GetThreadByTaskId"}

\* The work: everything that competes for a task with a developer.
WorkOps ==
  {"CreateTaskDraft", "PublishTask", "ApplyToTask", "AcceptApplication",
   "RequestCompletion", "RejectCompletion", "ConfirmCompletion", "OpenDispute",
   "EscalateDispute", "ResolveDispute", "CreateReview"}

\* Moderation and the limits of a project.
ProjectOps ==
  {"CreateTaskDraft", "UpdateTaskDraft", "PublishTask", "CloseTask", "DeleteTask",
   "ApplyToTask", "AcceptApplication", "UpdateProject", "DeleteProject", "ReportTask",
   "ResolveTaskReport"}

PublishOps == {"CreateTaskDraft", "PublishTask"}

Group(ops, developers, projects) ==
  [ops |-> ops, developers |-> developers, projects |-> projects]

\* Only one developer takes part in the work, and one in the story of a project; it
\* may be any of them.
HiringGroup   == {Group(HiringOps, Developers, {})}
WorkGroup     == {Group(WorkOps, {d}, {}) : d \in Developers}
ProjectGroup  == {Group(ProjectOps, {d}, Projects) : d \in Developers}
OverlapGroups == HiringGroup \cup WorkGroup \cup ProjectGroup
PublishGroup  == {Group(PublishOps, {}, Projects)}
AllGroup      == {Group(DOMAIN Reads, Developers, Projects)}

\* A stale request can revive a failed task, so the counter has no bound of its own.
FewRejections == \A t \in Tasks : task[t].rejectionCount <= MaxRejections + 1
=============================================================================
