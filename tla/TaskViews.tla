----------------------------- MODULE TaskViews -----------------------------
(***************************************************************************)
(* What the pages of the marketplace show of the rows of TaskWorkflow.tla: *)
(* catalogues, task and project pages, the lists of a developer, the       *)
(* candidates of a task, chats, reviews, the figures on profiles and the   *)
(* moderator's disputes.  A page only reads; what matters is that it       *)
(* agrees with the handlers: it offers what they accept, and it shows a    *)
(* task to whoever has to act on it.                                       *)
(*                                                                         *)
(* Paging, search, filters, ranking and the contents of an item are left   *)
(* out: a list is the set of what all of its pages contain.  Tasks and     *)
(* projects are PUBLIC, and every developer has some technology the task   *)
(* asks for.  The caches in front of some lists are in CachedViews.tla.    *)
(***************************************************************************)
EXTENDS TaskWorkflow

\* The pages count the tasks.
ASSUME CountableAssumption == IsFiniteSet(Tasks)

-----------------------------------------------------------------------------
(* Tasks *)

\* The public catalogue, and the tasks a visitor sees on a project's page.
TasksCatalog == {t \in Tasks : ~task[t].deleted /\ task[t].status = "PUBLISHED"}

\* The same list for the owner, without the deleted ones.
OwnTasks == {t \in Tasks : Live(task[t])}

\* The row with all that hangs on it, deleted or not.
FindTaskWithDetails(t) == {row \in {task[t]} : row.status # "ABSENT"}

\* Besides the owner, the page of a task opens for everybody while it is published and
\* for its developer ever after.
TaskPageOpens(t, d) ==
  \E row \in FindTaskWithDetails(t) :
    /\ ~row.deleted /\ row.status # "DELETED"
    /\ row.status = "PUBLISHED" \/ row.accepted = d

CanApply(t, d) ==
  TaskPageOpens(t, d) /\ task[t].status = "PUBLISHED" /\ application[t][d] = "NONE"

TaskApplications(t) ==
  IF Live(task[t]) THEN {d \in Developers : application[t][d] # "NONE"} ELSE {}

TaskInvites(t, status) ==
  IF Live(task[t]) THEN {d \in Developers : invite[t][d] = status} ELSE {}

-----------------------------------------------------------------------------
(* Candidates *)

FindTaskForCandidates(t) == Live(task[t]) /\ task[t].status = "PUBLISHED"

\* Two subqueries: an application in any status, and a PENDING invite only.
AlreadyApplied(t, d) == application[t][d] # "NONE"
AlreadyInvited(t, d) == invite[t][d] = "PENDING"

\* buildRankedCandidatesCte: which developers are ranked.
RankedCandidates(t, excludeApplied, excludeInvited) ==
  {d \in Developers : /\ d # task[t].accepted
                      /\ excludeApplied => ~AlreadyApplied(t, d)
                      /\ excludeInvited => ~AlreadyInvited(t, d)}

TaskCandidates(t, excludeApplied, excludeInvited) ==
  IF FindTaskForCandidates(t) THEN RankedCandidates(t, excludeApplied, excludeInvited) ELSE {}

\* Mutant: a pending invite is not looked for.
CanInviteAgain(t, d) == ~AlreadyApplied(t, d)

\* can_invite of a row of the list.
CanInvite(t, d) == ~AlreadyApplied(t, d) /\ ~AlreadyInvited(t, d)

CandidateRows(t) ==
  {[developer |-> d, canInvite |-> CanInvite(t, d)] : d \in TaskCandidates(t, FALSE, FALSE)}

RecommendedDevelopers(t) == TaskCandidates(t, TRUE, TRUE)

-----------------------------------------------------------------------------
(* A developer's own lists *)

MyApplications(d) == {t \in Tasks : application[t][d] # "NONE"}

MyInvites(d, status) == {t \in Tasks : invite[t][d] = status}

\* Mutant: disputed tasks are left out.
MyTasksUndisputed(d) ==
  {t \in Tasks : /\ ~task[t].deleted /\ task[t].accepted = d
                 /\ task[t].status \in {"IN_PROGRESS", "COMPLETION_REQUESTED", "COMPLETED"}}

\* Failed tasks come only with ?status=FAILED.
MyTasks(d) ==
  {t \in Tasks : /\ ~task[t].deleted /\ task[t].accepted = d
                 /\ task[t].status \in {"IN_PROGRESS", "DISPUTE", "COMPLETION_REQUESTED",
                                        "COMPLETED"}}

-----------------------------------------------------------------------------
(* Projects *)

\* buildProjectCatalogQuery; only the owner sees deleted ones.
FindProjectsCatalog(includeDeleted) ==
  {p \in Projects : /\ project[p].state # "ABSENT"
                    /\ includeDeleted \/ LiveProject(project[p])}

ProjectsCatalog == FindProjectsCatalog(FALSE)

FindProjectWithDetails(p) == {row \in {project[p]} : row.state # "ABSENT"}

\* For everybody; the owner may ask for a deleted one.
ProjectPageOpens(p) == \E row \in FindProjectWithDetails(p) : LiveProject(row)

\* Mutant: any application counts, not only an accepted one.
MyProjectsByApplication(d) ==
  {p \in Projects : LiveProject(project[p]) /\ \E t \in OwnTasks :
                      task[t].project = p /\ application[t][d] # "NONE"}

MyProjects(d) ==
  {p \in Projects : LiveProject(project[p]) /\ \E t \in OwnTasks :
                      task[t].project = p /\ application[t][d] = "ACCEPTED"}

ProjectTasks(p) ==
  IF LiveProject(project[p]) THEN {t \in OwnTasks : task[t].project = p} ELSE {}

\* buildTaskSummary; FAILED is in no category.
Category ==
  [draft       |-> {"DRAFT"},
   published   |-> {"PUBLISHED"},
   in_progress |-> {"IN_PROGRESS", "DISPUTE", "COMPLETION_REQUESTED"},
   completed   |-> {"COMPLETED"},
   closed      |-> {"CLOSED"}]

Summary(p) ==
  [c \in DOMAIN Category |->
     Cardinality({t \in Tasks : /\ task[t].project = p /\ ~task[t].deleted
                                /\ task[t].status \in Category[c]})]

-----------------------------------------------------------------------------
(* Chats and disputes *)

ChatStatuses == {"IN_PROGRESS", "DISPUTE", "COMPLETED", "FAILED"}

\* The threads of a developer; the company sees the same ones from its side.
MyThreads(d) ==
  {t \in Tasks : /\ thread[t] = d
                 /\ task[t].status \in ChatStatuses /\ ~task[t].deleted}

\* Opening one thread by id.
ThreadOpens(t, d) ==
  /\ thread[t] # NoDeveloper
  /\ ~task[t].deleted
  /\ thread[t] = d
  /\ task[t].status \in ChatStatuses

\* Its messages, by id: the checks are repeated there.
ThreadMessagesOpen(t, d) ==
  /\ thread[t] # NoDeveloper /\ ~task[t].deleted
  /\ thread[t] = d
  /\ task[t].status \in ChatStatuses

\* Reaching the thread from the task, which may create it.
ThreadByTaskOpens(t, d) ==
  IF thread[t] # NoDeveloper THEN ThreadOpens(t, d)
  ELSE MayCreateThread(task[t]) /\ task[t].accepted = d

\* The moderator's list shows the disputes of deleted tasks too.
TaskDisputes == {x \in Tasks \X DisputeIds : dispute[x[1]][x[2]] # "NONE"}

AvailableActions(t, k) == IF dispute[t][k] = "OPEN" THEN ResolutionAction ELSE {}

-----------------------------------------------------------------------------
(* Reviews, and the figures on profiles *)

\* getTaskReviews shows as a side's review any one by an author with that side's
\* profile; both: the sides whose user has the other profile as well.
TaskReviews(t, side, both) ==
  IF Live(task[t]) THEN review[t] \cap ({side} \cup both) ELSE {}

ProjectReviews(p) ==
  IF ~LiveProject(project[p]) THEN {}
  ELSE {x \in Tasks \X Persona : /\ task[x[1]].project = p /\ ~task[x[1]].deleted
                                /\ x[2] \in review[x[1]]}

\* The tasks a developer was reviewed for, those deleted since included.
UserReviews(d) == {t \in Tasks : task[t].accepted = d /\ "company" \in review[t]}

\* projects_completed and success_rate of a developer count tasks by status alone.
FinishedTasks(d, status) == {t \in Tasks : task[t].status = status /\ task[t].accepted = d}

\* projects_completed of a company.
CompletedProjects ==
  {task[t].project : t \in {u \in Tasks : task[u].status = "COMPLETED" /\ ~task[u].deleted}}
    \ {NoProject}

-----------------------------------------------------------------------------
(* Pages and handlers agree *)

\* What a page offers is accepted by its handler, unless somebody moves in between:
\* can_apply by applyToTask, the recommended developers ("invitable only",
\* candidates.js:268) by createTaskInvite except for the insert, which fails for those
\* who have answered an earlier invite, a pending invite of a task in the catalogue by
\* acceptInvite, and the actions on a dispute by a resolveTaskDispute that decides that
\* very dispute, if the task has not been deleted.  The candidates that are marked
\* can_invite are the recommended ones, which another query finds.
OffersAreHonoured ==
  /\ \A t \in Tasks, d \in Developers :
       /\ CanApply(t, d) => MayApply(task[t]) /\ d \notin TaskApplications(t)
       /\ d \in RecommendedDevelopers(t) =>
            /\ MayInvite(task[t]) /\ MayBeInvited(application[t][d], invite[t][d])
            /\ invite[t][d] \in {"NONE", "DECLINED", "CANCELLED"}
       /\ t \in MyInvites(d, "PENDING") \cap TasksCatalog => MayStart(task[t])
  /\ \A t \in Tasks :
       RecommendedDevelopers(t) = {c.developer : c \in {x \in CandidateRows(t) : x.canInvite}}
  /\ \A x \in TaskDisputes :
       AvailableActions(x[1], x[2]) # {} /\ Live(task[x[1]]) => LatestOpen(x[1]) = {x[2]}

\* Whoever has to act on a task finds it: the developer's work is in MyTasks and its
\* page opens, a failed task that may still be reviewed is among the applications (a
\* developer hired by an invite has one too), an answerable application is shown to
\* the owner, and the developer of a running task reaches its chat both ways or, if its
\* creation failed, from the task.
ActionsAreReachable ==
  \A t \in Tasks, d \in Developers :
    /\ MayRequestCompletion(task[t], d) \/ MayEscalate(task[t], d) =>
         t \in MyTasks(d) /\ TaskPageOpens(t, d)
    /\ MayReview(task[t]) /\ task[t].accepted = d => t \in MyTasks(d) \cup MyApplications(d)
    /\ application[t][d] = "APPLIED" /\ MayStart(task[t]) /\ Live(task[t]) =>
         t \in OwnTasks /\ d \in TaskApplications(t)
    /\ t \in MyThreads(d) =>
         ThreadOpens(t, d) /\ ThreadMessagesOpen(t, d) /\ ThreadByTaskOpens(t, d)
    /\ Live(task[t]) /\ task[t].accepted = d /\ task[t].status = "IN_PROGRESS" =>
         ThreadByTaskOpens(t, d)

\* The pages of a project agree: its summary counts every live task once, except the
\* failed ones, a developer's projects (found through accepted applications) are those
\* with a task that is theirs (acceptedApplicationId), each of them is in the
\* catalogue, and a task page never leads to a project that is gone.
ProjectPagesAgree ==
  /\ \A p \in ProjectsCatalog :
       LET s == Summary(p)
       IN  s.draft + s.published + s.in_progress + s.completed + s.closed =
             Cardinality({t \in ProjectTasks(p) : task[t].status # "FAILED"})
  /\ \A d \in Developers :
       MyProjects(d) = {p \in ProjectsCatalog : \E t \in ProjectTasks(p) : task[t].accepted = d}
  /\ \A t \in OwnTasks : task[t].project # NoProject => ProjectPageOpens(task[t].project)

\* Finished work is shown alike wherever it is shown: the figures of a developer, which
\* never test deletedAt, count exactly the live finished tasks, all of which he can
\* open; the completed projects of a company are the ones whose pages show a completed
\* task; a review is shown only of finished work (or to the developer, of work deleted
\* since), and the reviews of a project are those its tasks show.
FinishedWorkAgrees ==
  /\ \A d \in Developers, status \in {"COMPLETED", "FAILED"} :
       FinishedTasks(d, status) =
         {t \in OwnTasks : TaskPageOpens(t, d) /\ task[t].accepted = d /\ task[t].status = status}
  /\ CompletedProjects = {p \in ProjectsCatalog : Summary(p).completed > 0}
  /\ \A d \in Developers : \A t \in UserReviews(d) :
       task[t].deleted \/ t \in FinishedTasks(d, "COMPLETED") \cup FinishedTasks(d, "FAILED")
  /\ \A p \in ProjectsCatalog :
       ProjectReviews(p) = {x \in ProjectTasks(p) \X Persona : x[2] \in TaskReviews(x[1], x[2], {})}
=============================================================================
