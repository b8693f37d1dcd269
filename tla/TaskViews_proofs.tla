-------------------------- MODULE TaskViews_proofs --------------------------
(***************************************************************************)
(* Proofs that the pages of TaskViews agree with the handlers, for any     *)
(* number of tasks, developers and projects.  A page reads one state, so   *)
(* everything follows from the two invariants of TaskWorkflow_proofs: the  *)
(* rows of a task agree, and its project exists and is not archived.       *)
(***************************************************************************)
EXTENDS TaskViews, TaskWorkflow_proofs, FiniteSetTheorems

\* What is known of the rows of one task.
LEMMA TaskFacts ==
  ASSUME IInv, NEW t \in Tasks
  PROVE  /\ task[t].deleted <=> task[t].status = "DELETED"
         /\ task[t].accepted \in Developers \cup {NoDeveloper}
         /\ task[t].status \in TaskStatus
         /\ task[t].status \in Started => task[t].accepted # NoDeveloper
         /\ task[t].status \in NotStarted \cup {"ABSENT"} => task[t].accepted = NoDeveloper
         /\ \A d \in Developers :
              /\ d # NoDeveloper
              /\ application[t][d] = "ACCEPTED" <=> task[t].accepted = d
              /\ invite[t][d] = "ACCEPTED" => task[t].accepted = d
              /\ application[t][d] \in ApplicationStatus /\ invite[t][d] \in InviteStatus
         /\ thread[t] # NoDeveloper => thread[t] = task[t].accepted
         /\ \A j, k \in OpenDisputes(t) : j = k
         /\ review[t] # {} => task[t].status \in {"COMPLETED", "FAILED", "DELETED"}
  <1>1. TaskOK(t) /\ task[t] \in TaskRow
    BY OneRow DEF IInv
  <1>2. \A d \in Developers : application[t][d] \in ApplicationStatus
                              /\ invite[t][d] \in InviteStatus
    BY DEF IInv, TypeOK
  <1> QED
    BY <1>1, <1>2, ConstantsAssumption
       DEF TaskOK, RowOK, HiredOK, WorkedOK, TaskRow, OpenDisputes

-----------------------------------------------------------------------------
(* Offers *)

LEMMA OffersHonoured == IInv => OffersAreHonoured
  <1> SUFFICES ASSUME IInv PROVE OffersAreHonoured
    OBVIOUS
  <1>1. ASSUME NEW t \in Tasks, NEW d \in Developers
        PROVE /\ CanApply(t, d) => MayApply(task[t]) /\ d \notin TaskApplications(t)
              /\ d \in RecommendedDevelopers(t) =>
                   /\ MayInvite(task[t]) /\ MayBeInvited(application[t][d], invite[t][d])
                   /\ invite[t][d] \in {"NONE", "DECLINED", "CANCELLED"}
              /\ t \in MyInvites(d, "PENDING") \cap TasksCatalog => MayStart(task[t])
    <2>1. CanApply(t, d) => MayApply(task[t]) /\ d \notin TaskApplications(t)
      BY DEF CanApply, TaskPageOpens, FindTaskWithDetails, MayApply, Live, TaskApplications
    <2>2. ASSUME d \in RecommendedDevelopers(t)
          PROVE  /\ MayInvite(task[t]) /\ MayBeInvited(application[t][d], invite[t][d])
                 /\ invite[t][d] \in {"NONE", "DECLINED", "CANCELLED"}
      <3>1. /\ Live(task[t]) /\ task[t].status = "PUBLISHED"
            /\ application[t][d] = "NONE" /\ invite[t][d] # "PENDING"
        BY <2>2 DEF RecommendedDevelopers, TaskCandidates, FindTaskForCandidates,
                    RankedCandidates, AlreadyApplied, AlreadyInvited
      <3>2. task[t].accepted = NoDeveloper /\ invite[t][d] # "ACCEPTED"
        BY <3>1, TaskFacts DEF NotStarted
      <3> QED
        BY <3>1, <3>2, TaskFacts DEF MayInvite, MayBeInvited, InviteStatus
    <2>3. ASSUME t \in MyInvites(d, "PENDING") \cap TasksCatalog PROVE MayStart(task[t])
      BY <2>3, TaskFacts DEF TasksCatalog, MayStart, NotStarted
    <2> QED
      BY <2>1, <2>2, <2>3
  <1>2. ASSUME NEW t \in Tasks
        PROVE  RecommendedDevelopers(t) = {c.developer : c \in {x \in CandidateRows(t) : x.canInvite}}
    <2>1. ASSUME NEW d \in RecommendedDevelopers(t)
          PROVE  \E c \in CandidateRows(t) : c.canInvite /\ c.developer = d
      <3> DEFINE c == [developer |-> d, canInvite |-> CanInvite(t, d)]
      <3>1. d \in TaskCandidates(t, FALSE, FALSE) /\ CanInvite(t, d)
        BY <2>1 DEF RecommendedDevelopers, TaskCandidates, RankedCandidates, CanInvite
      <3>2. c \in CandidateRows(t) /\ c.canInvite /\ c.developer = d
        BY <3>1 DEF CandidateRows
      <3> QED
        BY <3>2
    <2>2. ASSUME NEW c \in CandidateRows(t), c.canInvite
          PROVE  c.developer \in RecommendedDevelopers(t)
      <3>1. PICK d \in TaskCandidates(t, FALSE, FALSE) :
              c = [developer |-> d, canInvite |-> CanInvite(t, d)]
        BY <2>2 DEF CandidateRows
      <3> QED
        BY <2>2, <3>1 DEF RecommendedDevelopers, TaskCandidates, RankedCandidates, CanInvite
    <2> QED
      BY <2>1, <2>2
  <1>3. ASSUME NEW x \in TaskDisputes, AvailableActions(x[1], x[2]) # {}
        PROVE  LatestOpen(x[1]) = {x[2]}
    <2>1. x[1] \in Tasks /\ x[2] \in DisputeIds
      BY <1>3 DEF TaskDisputes
    <2>2. x[2] \in OpenDisputes(x[1])
      BY <1>3, <2>1 DEF AvailableActions, OpenDisputes
    <2>3. OpenDisputes(x[1]) = {x[2]}
      BY <2>1, <2>2, TaskFacts
    <2>4. x[2] <= x[2]
      BY <2>1, ConstantsAssumption DEF DisputeIds
    <2> QED
      BY <2>3, <2>4 DEF LatestOpen
  <1> QED
    BY <1>1, <1>2, <1>3 DEF OffersAreHonoured

\* What a page offers is accepted by its handler (buildRankedCandidatesCte against
\* createTaskInvite, can_apply against applyToTask, getMyInvites against acceptInvite,
\* getTaskDisputes against resolveTaskDispute).
THEOREM OffersAreHonouredCorrect == Spec => []OffersAreHonoured
  BY OffersHonoured, Invariance, PTL

-----------------------------------------------------------------------------
(* Reachability *)

LEMMA Reachable == IInv => ActionsAreReachable
  <1> SUFFICES ASSUME IInv, NEW t \in Tasks, NEW d \in Developers
               PROVE  /\ MayRequestCompletion(task[t], d) \/ MayEscalate(task[t], d) =>
                           t \in MyTasks(d) /\ TaskPageOpens(t, d)
                      /\ MayReview(task[t]) /\ task[t].accepted = d =>
                           t \in MyTasks(d) \cup MyApplications(d)
                      /\ application[t][d] = "APPLIED" /\ MayStart(task[t]) /\ Live(task[t]) =>
                           t \in OwnTasks /\ d \in TaskApplications(t)
                      /\ t \in MyThreads(d) => /\ ThreadOpens(t, d) /\ ThreadMessagesOpen(t, d)
                                               /\ ThreadByTaskOpens(t, d)
                      /\ Live(task[t]) /\ task[t].accepted = d /\ task[t].status = "IN_PROGRESS" =>
                           ThreadByTaskOpens(t, d)
    BY DEF ActionsAreReachable
  <1>1. ASSUME MayRequestCompletion(task[t], d) \/ MayEscalate(task[t], d)
        PROVE  t \in MyTasks(d) /\ TaskPageOpens(t, d)
    BY <1>1 DEF MayRequestCompletion, MayEscalate, Live, MyTasks, TaskPageOpens,
                FindTaskWithDetails
  <1>2. ASSUME MayReview(task[t]), task[t].accepted = d PROVE t \in MyApplications(d)
    BY <1>2, TaskFacts DEF MyApplications
  <1>3. ASSUME application[t][d] = "APPLIED", Live(task[t])
        PROVE  t \in OwnTasks /\ d \in TaskApplications(t)
    BY <1>3 DEF OwnTasks, TaskApplications
  <1>4. ASSUME t \in MyThreads(d)
        PROVE  /\ ThreadOpens(t, d) /\ ThreadMessagesOpen(t, d) /\ ThreadByTaskOpens(t, d)
    BY <1>4, TaskFacts DEF MyThreads, ThreadOpens, ThreadMessagesOpen, ThreadByTaskOpens
  <1>5. ASSUME Live(task[t]), task[t].accepted = d, task[t].status = "IN_PROGRESS"
        PROVE  ThreadByTaskOpens(t, d)
    BY <1>5, TaskFacts DEF ThreadByTaskOpens, ThreadOpens, MayCreateThread, ChatStatuses, Live
  <1> QED
    BY <1>1, <1>2, <1>3, <1>4, <1>5

\* Whoever has to act on a task finds it (getMyTasks, getTaskById, getMyApplications,
\* getTaskApplications, getMyThreads, getThreadByTaskId).
THEOREM ActionsAreReachableCorrect == Spec => []ActionsAreReachable
  BY Reachable, Invariance, PTL

-----------------------------------------------------------------------------
(* Finished work *)

LEMMA TaskProject ==
  ASSUME IInv, EmptyInv, NEW t \in Tasks, ~task[t].deleted, task[t].project # NoProject
  PROVE  task[t].project \in ProjectsCatalog
  <1>1. task[t].project \in Projects
    BY OneRow DEF IInv, TaskRow
  <1>2. project[task[t].project] \in ProjectRow
    BY <1>1 DEF EmptyInv, TypeOK
  <1> QED
    BY <1>1, <1>2 DEF EmptyInv, ArchivedProjectIsEmpty, ProjectRow, ProjectsCatalog,
                      FindProjectsCatalog, LiveProject

LEMMA FinishedAgrees == IInv /\ EmptyInv => FinishedWorkAgrees
  <1> SUFFICES ASSUME IInv, EmptyInv PROVE FinishedWorkAgrees
    OBVIOUS
  <1>1. ASSUME NEW d \in Developers, NEW status \in {"COMPLETED", "FAILED"}
        PROVE  FinishedTasks(d, status) =
                 {t \in OwnTasks : /\ TaskPageOpens(t, d) /\ task[t].accepted = d
                                   /\ task[t].status = status}
    <2>1. ASSUME NEW t \in Tasks, task[t].status = status, task[t].accepted = d
          PROVE  t \in OwnTasks /\ TaskPageOpens(t, d)
      BY <1>1, <2>1, TaskFacts DEF OwnTasks, TaskPageOpens, FindTaskWithDetails, Live
    <2> QED
      BY <2>1 DEF FinishedTasks, OwnTasks
  <1>2. CompletedProjects = {p \in ProjectsCatalog : Summary(p).completed > 0}
    <2> DEFINE done(p) == {t \in Tasks : /\ task[t].project = p /\ ~task[t].deleted
                                         /\ task[t].status = "COMPLETED"}
    <2>1. \A p : Summary(p).completed = Cardinality(done(p))
      <3>1. \A t : task[t].status \in Category["completed"] <=> task[t].status = "COMPLETED"
        BY DEF Category
      <3>2. "completed" \in DOMAIN Category
        BY DEF Category
      <3> QED
        BY <3>1, <3>2 DEF Summary
    <2>2. \A p : IsFiniteSet(done(p))
      BY CountableAssumption, FS_Subset
    <2>3. \A p : Summary(p).completed > 0 <=> done(p) # {}
      <3>1. ASSUME NEW S, IsFiniteSet(S) PROVE Cardinality(S) > 0 <=> S # {}
        BY <3>1, FS_EmptySet, FS_CardinalityType
      <3> HIDE DEF done
      <3> QED
        BY <2>1, <2>2, <3>1
    <2>4. ASSUME NEW t \in Tasks, task[t].status = "COMPLETED", ~task[t].deleted,
                 task[t].project # NoProject
          PROVE  task[t].project \in ProjectsCatalog
      BY <2>4, TaskProject
    <2>5. NoProject \notin ProjectsCatalog
      BY ConstantsAssumption DEF ProjectsCatalog, FindProjectsCatalog
    <2> QED
      BY <2>3, <2>4, <2>5 DEF CompletedProjects
  <1>3. ASSUME NEW d \in Developers, NEW t \in UserReviews(d)
        PROVE  task[t].deleted \/ t \in FinishedTasks(d, "COMPLETED") \cup FinishedTasks(d, "FAILED")
    BY <1>3, TaskFacts DEF UserReviews, FinishedTasks
  <1>4. ASSUME NEW p \in ProjectsCatalog
        PROVE  ProjectReviews(p) =
                 {x \in ProjectTasks(p) \X Persona : x[2] \in TaskReviews(x[1], x[2], {})}
    <2>1. LiveProject(project[p])
      BY <1>4 DEF ProjectsCatalog, FindProjectsCatalog
    <2>2. ASSUME NEW t \in Tasks, review[t] # {}, ~task[t].deleted PROVE Live(task[t])
      BY <2>2, TaskFacts DEF Live
    <2>3. \A t \in Tasks, side \in Persona :
            side \in TaskReviews(t, side, {}) <=> Live(task[t]) /\ side \in review[t]
      BY DEF TaskReviews
    <2>4. \A t \in Tasks : t \in ProjectTasks(p) <=> Live(task[t]) /\ task[t].project = p
      BY <2>1 DEF ProjectTasks, OwnTasks
    <2>5. \A x \in Tasks \X Persona :
            x \in ProjectReviews(p) <=>
              x[1] \in ProjectTasks(p) /\ x[2] \in TaskReviews(x[1], x[2], {})
      BY <2>1, <2>2, <2>3, <2>4 DEF ProjectReviews, Live
    <2>6. ProjectTasks(p) \subseteq Tasks /\ ProjectReviews(p) \subseteq Tasks \X Persona
      BY <2>1 DEF ProjectTasks, OwnTasks, ProjectReviews
    <2> QED
      BY <2>5, <2>6
  <1> QED
    BY <1>1, <1>2, <1>3, <1>4 DEF FinishedWorkAgrees

\* Finished work is shown alike wherever it is shown: the figures of profiles and
\* projects, which never test deletedAt, agree with the pages.
THEOREM FinishedWorkAgreesCorrect == Spec => []FinishedWorkAgrees
  BY FinishedAgrees, Invariance, EmptyInvariance, PTL

-----------------------------------------------------------------------------
(* The pages of a project *)

LEMMA CountDisjoint ==
  ASSUME NEW S, NEW T, IsFiniteSet(S), IsFiniteSet(T), S \cap T = {}
  PROVE  /\ IsFiniteSet(S \cup T)
         /\ Cardinality(S \cup T) = Cardinality(S) + Cardinality(T)
         /\ Cardinality(S) \in Nat /\ Cardinality(T) \in Nat
  <1>1. Cardinality(S \cap T) = 0
    BY FS_EmptySet
  <1>2. Cardinality(S) \in Nat /\ Cardinality(T) \in Nat
    BY FS_CardinalityType
  <1>3. /\ IsFiniteSet(S \cup T)
        /\ Cardinality(S \cup T) = Cardinality(S) + Cardinality(T) - Cardinality(S \cap T)
    BY FS_Union
  <1> QED
    BY <1>1, <1>2, <1>3

\* The tasks that a summary counts in one category.
Counted(p, c) == {t \in Tasks : /\ task[t].project = p /\ ~task[t].deleted
                                /\ task[t].status \in Category[c]}

\* No task is counted in two categories, and only failed ones in none.
LEMMA SummaryAdds ==
  ASSUME IInv, NEW p \in ProjectsCatalog
  PROVE  LET s == Summary(p)
         IN  s.draft + s.published + s.in_progress + s.completed + s.closed =
               Cardinality({t \in ProjectTasks(p) : task[t].status # "FAILED"})
  <1> DEFINE A == Counted(p, "draft")
             B == Counted(p, "published")
             C == Counted(p, "in_progress")
             D == Counted(p, "completed")
             E == Counted(p, "closed")
  <1>1. /\ Summary(p).draft = Cardinality(A) /\ Summary(p).published = Cardinality(B)
        /\ Summary(p).in_progress = Cardinality(C)
        /\ Summary(p).completed = Cardinality(D) /\ Summary(p).closed = Cardinality(E)
    BY DEF Summary, Counted, Category
  <1>2. /\ IsFiniteSet(A) /\ IsFiniteSet(B) /\ IsFiniteSet(C)
        /\ IsFiniteSet(D) /\ IsFiniteSet(E)
    BY CountableAssumption, FS_Subset DEF Counted
  <1>3. /\ A \cap B = {} /\ (A \cup B) \cap C = {} /\ (A \cup B \cup C) \cap D = {}
        /\ (A \cup B \cup C \cup D) \cap E = {}
    BY DEF Counted, Category
  <1>4. {t \in ProjectTasks(p) : task[t].status # "FAILED"} = A \cup B \cup C \cup D \cup E
    <2>1. LiveProject(project[p])
      BY DEF ProjectsCatalog, FindProjectsCatalog
    <2>2. ASSUME NEW t \in Tasks
          PROVE  Live(task[t]) /\ task[t].status # "FAILED" <=>
                   /\ ~task[t].deleted
                   /\ task[t].status \in {"DRAFT", "PUBLISHED", "IN_PROGRESS", "DISPUTE",
                                          "COMPLETION_REQUESTED", "COMPLETED", "CLOSED"}
      BY TaskFacts DEF Live, TaskStatus, NotStarted, Started
    <2> QED
      BY <2>1, <2>2 DEF ProjectTasks, OwnTasks, Counted, Category
  <1> HIDE DEF A, B, C, D, E
  <1>5. IsFiniteSet(A \cup B) /\ Cardinality(A \cup B) = Cardinality(A) + Cardinality(B)
    BY <1>2, <1>3, CountDisjoint
  <1>6. /\ IsFiniteSet(A \cup B \cup C)
        /\ Cardinality(A \cup B \cup C) = Cardinality(A \cup B) + Cardinality(C)
    BY <1>2, <1>3, <1>5, CountDisjoint
  <1>7. /\ IsFiniteSet(A \cup B \cup C \cup D)
        /\ Cardinality(A \cup B \cup C \cup D) = Cardinality(A \cup B \cup C) + Cardinality(D)
    BY <1>2, <1>3, <1>6, CountDisjoint
  <1>8. Cardinality(A \cup B \cup C \cup D \cup E) =
          Cardinality(A \cup B \cup C \cup D) + Cardinality(E)
    BY <1>2, <1>3, <1>7, CountDisjoint
  <1> QED
    BY <1>1, <1>4, <1>5, <1>6, <1>7, <1>8

LEMMA ProjectsAgree == IInv /\ EmptyInv => ProjectPagesAgree
  <1> SUFFICES ASSUME IInv, EmptyInv PROVE ProjectPagesAgree
    OBVIOUS
  <1>1. ASSUME NEW d \in Developers
        PROVE  MyProjects(d) =
                 {p \in ProjectsCatalog : \E t \in ProjectTasks(p) : task[t].accepted = d}
    <2>1. \A p \in Projects : p \in MyProjects(d) <=>
            /\ LiveProject(project[p])
            /\ \E t \in OwnTasks : task[t].project = p /\ task[t].accepted = d
      BY TaskFacts DEF MyProjects, OwnTasks
    <2>2. \A p \in Projects : LiveProject(project[p]) =>
            p \in ProjectsCatalog /\ ProjectTasks(p) = {t \in OwnTasks : task[t].project = p}
      BY DEF ProjectsCatalog, FindProjectsCatalog, LiveProject, ProjectTasks
    <2>3. \A p \in ProjectsCatalog : p \in Projects /\ LiveProject(project[p])
      BY DEF ProjectsCatalog, FindProjectsCatalog
    <2>4. MyProjects(d) \subseteq Projects
      BY DEF MyProjects
    <2> QED
      BY <2>1, <2>2, <2>3, <2>4
  <1>2. ASSUME NEW t \in OwnTasks, task[t].project # NoProject
        PROVE  ProjectPageOpens(task[t].project)
    <2>1. task[t].project \in ProjectsCatalog
      BY <1>2, TaskProject DEF OwnTasks, Live
    <2> QED
      BY <2>1 DEF ProjectsCatalog, FindProjectsCatalog, ProjectPageOpens,
                  FindProjectWithDetails
  <1> QED
    BY <1>1, <1>2, SummaryAdds DEF ProjectPagesAgree

\* The pages of a project agree: its summary counts every live task once but the failed
\* ones (buildTaskSummary), a developer's projects are those with a task of theirs
\* (getMyProjects), and no task page leads to a project that is gone.
THEOREM ProjectPagesAgreeCorrect == Spec => []ProjectPagesAgree
  BY ProjectsAgree, Invariance, EmptyInvariance, PTL
=============================================================================
