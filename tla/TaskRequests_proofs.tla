------------------------ MODULE TaskRequests_proofs ------------------------
(***************************************************************************)
(* Proofs about overlapping requests: what the handlers keep true for any  *)
(* number of requests in flight, however their reads and writes            *)
(* interleave.                                                             *)
(***************************************************************************)
EXTENDS TaskRequests, TLAPS

-----------------------------------------------------------------------------
(* The tables *)

\* The columns the properties speak of.
Tables ==
  /\ task \in [Tasks -> TaskRow]
  /\ application \in [Tasks -> [Developers -> ApplicationStatus]]
  /\ invite \in [Tasks -> [Developers -> InviteStatus]]
  /\ dispute \in [Tasks -> [DisputeIds -> DisputeStatus]]
  /\ rejections \in [Tasks -> SUBSET Nat]
  /\ thread \in [Tasks -> Developers \cup {NoDeveloper}]
  /\ told \in [Tasks -> [Developers -> SUBSET Outcome]]

\* Whoever has a thread was told to be accepted.
ThreadWasTold ==
  \A t \in Tasks : thread[t] # NoDeveloper => "APPLICATION_ACCEPTED" \in told[t][thread[t]]

TInv == Tables /\ RejectionsCounted /\ OutcomesWereTold /\ DisputeHasOpenRow /\ ThreadWasTold

\* What no write takes back, and what a request in flight may therefore rely on.
Grows ==
  \A t \in Tasks :
    /\ task[t].rejectionCount <= task'[t].rejectionCount
    /\ \A d \in Developers : told[t][d] \subseteq told'[t][d]
    /\ task[t].deleted => task'[t].deleted
    /\ task[t].accepted # NoDeveloper => task'[t].accepted # NoDeveloper
    /\ thread[t] # NoDeveloper => thread'[t] = thread[t]

Keeps == TInv' /\ Grows

-----------------------------------------------------------------------------
(* Writes of the task row that concern no other table *)

LEMMA OneTaskRow == ASSUME Tables, NEW t \in Tasks PROVE task[t] \in TaskRow
  BY DEF Tables

LEMMA StatusNames ==
  /\ {"DRAFT", "PUBLISHED", "CLOSED", "DELETED", "IN_PROGRESS", "DISPUTE"} \subseteq TaskStatus
  /\ {"COMPLETION_REQUESTED", "COMPLETED", "FAILED"} \subseteq TaskStatus
  BY DEF TaskStatus, NotStarted, Started

\* A row that keeps its developer and its counter, is not put into dispute and not
\* taken back from deletion.
SameFor(row, old) ==
  /\ row \in TaskRow
  /\ row.accepted = old.accepted /\ row.rejectionCount = old.rejectionCount
  /\ old.deleted => row.deleted
  /\ row.status = "DISPUTE" => old.status = "DISPUTE"

LEMMA RowWrites ==
  ASSUME TInv, task' \in [Tasks -> TaskRow], \A t \in Tasks : SameFor(task'[t], task[t]),
         UNCHANGED <<application, invite, dispute, rejections, thread, told>>
  PROVE  Keeps
  <1>1. Tables'
    BY DEF TInv, Tables
  <1>2. \A t \in Tasks : /\ task'[t].accepted = task[t].accepted
                         /\ task'[t].rejectionCount = task[t].rejectionCount
                         /\ task[t].deleted => task'[t].deleted
                         /\ task'[t].status = "DISPUTE" => task[t].status = "DISPUTE"
    BY Zenon DEF SameFor
  <1>3. RejectionsCounted' /\ OutcomesWereTold' /\ ThreadWasTold'
    BY <1>2 DEF TInv, RejectionsCounted, OutcomesWereTold, ThreadWasTold
  <1>4. DisputeHasOpenRow'
    BY <1>2 DEF TInv, DisputeHasOpenRow, OpenDisputes
  <1>5. Grows
    <2>1. \A t \in Tasks : task[t].rejectionCount \in Nat
      BY OneTaskRow DEF TInv, TaskRow
    <2>2. \A t \in Tasks : task[t].rejectionCount <= task'[t].rejectionCount
      BY <1>2, <2>1
    <2> QED
      BY <1>2, <2>2, Zenon DEF Grows
  <1> QED
    BY <1>1, <1>3, <1>4, <1>5 DEF Keeps, TInv

LEMMA RowItself == ASSUME NEW row \in TaskRow PROVE SameFor(row, row)
  BY DEF SameFor

LEMMA OneRowWrite ==
  ASSUME TInv, NEW t \in Tasks, NEW row, SameFor(row, task[t]),
         task' = [task EXCEPT ![t] = row],
         UNCHANGED <<application, invite, dispute, rejections, thread, told>>
  PROVE  Keeps
  <1>1. row \in TaskRow
    BY DEF SameFor
  <1>2. task \in [Tasks -> TaskRow]
    BY DEF TInv, Tables
  <1>3. task' \in [Tasks -> TaskRow] /\ task'[t] = row
    BY <1>1, <1>2
  <1>4. ASSUME NEW x \in Tasks PROVE SameFor(task'[x], task[x])
    <2>1. CASE x = t
      BY <1>3, <2>1
    <2>2. CASE x # t
      <3>1. task'[x] = task[x] /\ task[x] \in TaskRow
        BY <1>2, <2>2
      <3> QED
        BY <3>1, RowItself
    <2> QED
      BY <2>1, <2>2
  <1> QED
    BY <1>3, <1>4, RowWrites

LEMMA NoRowWrite ==
  ASSUME TInv, UNCHANGED <<task, application, invite, dispute, rejections, thread, told>>
  PROVE  Keeps
  <1>1. task \in [Tasks -> TaskRow]
    BY DEF TInv, Tables
  <1>2. task' \in [Tasks -> TaskRow]
    BY <1>1
  <1>3. \A t \in Tasks : SameFor(task'[t], task[t])
    BY <1>1, RowItself
  <1> QED
    BY <1>2, <1>3, RowWrites

\* Which changes of a row these are.
LEMMA RowChanges ==
  ASSUME NEW row \in TaskRow, NEW s \in TaskStatus \ {"DISPUTE"},
         NEW dl \in {"none", "running", "passed"}, NEW p \in Projects \cup {NoProject}
  PROVE  /\ SameFor([row EXCEPT !.status = s], row)
         /\ SameFor([row EXCEPT !.status = s, !.project = p], row)
         /\ SameFor([row EXCEPT !.project = p], row)
         /\ SameFor([row EXCEPT !.status = s, !.deadline = dl], row)
         /\ SameFor([row EXCEPT !.deadline = dl], row)
         /\ SameFor([row EXCEPT !.status = s, !.deleted = TRUE], row)
  BY DEF SameFor, TaskRow

\* Drafts, reports, projects and reviews.
LEMMA DraftKeeps ==
  ASSUME TInv, NEW t \in Tasks, NEW p \in Projects \cup {NoProject}
  PROVE  /\ CreateDraftWrite(t, p) => Keeps
         /\ UpdateDraftWrite(t, p) => Keeps
         /\ PublishWrite(t, p) => Keeps
         /\ CloseWrite(t) => Keeps
         /\ DeleteWrite(t) => Keeps
  <1>1. task[t] \in TaskRow
    BY OneTaskRow DEF TInv
  <1>2. {"DRAFT", "PUBLISHED", "CLOSED", "DELETED"} \subseteq TaskStatus \ {"DISPUTE"}
    BY StatusNames
  <1>3. ASSUME CreateDraftWrite(t, p) PROVE Keeps
    <2>1. task' = [task EXCEPT ![t] = [task[t] EXCEPT !.status = "DRAFT", !.project = p]]
      BY <1>3 DEF CreateDraftWrite
    <2>2. SameFor([task[t] EXCEPT !.status = "DRAFT", !.project = p], task[t])
      BY <1>1, <1>2, RowChanges
    <2> QED
      BY <1>3, <2>1, <2>2, OneRowWrite DEF CreateDraftWrite, taskTables, hiringTables
  <1>4. ASSUME UpdateDraftWrite(t, p) PROVE Keeps
    <2>1. task' = [task EXCEPT ![t] = [task[t] EXCEPT !.project = p]]
      BY <1>4 DEF UpdateDraftWrite
    <2>2. SameFor([task[t] EXCEPT !.project = p], task[t])
      BY <1>1, <1>2, RowChanges
    <2> QED
      BY <1>4, <2>1, <2>2, OneRowWrite DEF UpdateDraftWrite, taskTables, hiringTables
  <1>5. ASSUME PublishWrite(t, p) PROVE Keeps
    <2>1. task' = [task EXCEPT ![t] = [task[t] EXCEPT !.status = "PUBLISHED"]]
      BY <1>5 DEF PublishWrite
    <2>2. SameFor([task[t] EXCEPT !.status = "PUBLISHED"], task[t])
      BY <1>1, <1>2, RowChanges
    <2> QED
      BY <1>5, <2>1, <2>2, OneRowWrite DEF PublishWrite, taskTables, hiringTables
  <1>6. ASSUME CloseWrite(t) PROVE Keeps
    <2>1. task' = [task EXCEPT ![t] = [task[t] EXCEPT !.status = "CLOSED"]]
      BY <1>6 DEF CloseWrite
    <2>2. SameFor([task[t] EXCEPT !.status = "CLOSED"], task[t])
      BY <1>1, <1>2, RowChanges
    <2> QED
      BY <1>6, <2>1, <2>2, OneRowWrite DEF CloseWrite, taskTables, hiringTables
  <1>7. ASSUME DeleteWrite(t) PROVE Keeps
    <2>1. task' = [task EXCEPT ![t] = Deleted(task[t])]
      BY <1>7 DEF DeleteWrite
    <2>2. SameFor(Deleted(task[t]), task[t])
      BY <1>1, <1>2, RowChanges DEF Deleted
    <2> QED
      BY <1>7, <2>1, <2>2, OneRowWrite DEF DeleteWrite, taskTables, hiringTables
  <1> QED
    BY <1>3, <1>4, <1>5, <1>6, <1>7

LEMMA ReportKeeps ==
  ASSUME TInv, NEW t \in Tasks, NEW choice
  PROVE  /\ ReportTaskWrite(t, choice) => Keeps
         /\ ReviewWrite(t, choice) => Keeps
         /\ \A action, row : ResolveTaskReportWrite(t, choice, action, row) => Keeps
  <1>1. ReportTaskWrite(t, choice) => Keeps
    BY NoRowWrite DEF ReportTaskWrite, hiringTables
  <1>2. ReviewWrite(t, choice) => Keeps
    BY NoRowWrite DEF ReviewWrite, hiringTables
  <1>3. ASSUME NEW action, NEW row, ResolveTaskReportWrite(t, choice, action, row) PROVE Keeps
    <2>1. task[t] \in TaskRow
      BY OneTaskRow DEF TInv
    <2>2. SameFor(Deleted(task[t]), task[t])
      BY <2>1, StatusNames, RowChanges DEF Deleted
    <2>3. task' = task \/ task' = [task EXCEPT ![t] = Deleted(task[t])]
      BY <1>3 DEF ResolveTaskReportWrite
    <2> QED
      BY <1>3, <2>2, <2>3, OneRowWrite, NoRowWrite DEF ResolveTaskReportWrite, hiringTables
  <1> QED
    BY <1>1, <1>2, <1>3

LEMMA ProjectKeeps ==
  ASSUME TInv, NEW p, NEW limit
  PROVE  /\ UpdateProjectWrite(p, limit) => Keeps
         /\ DeleteProjectWrite(p) => Keeps
         /\ CreateProject(p, limit) => Keeps
  <1>1. UpdateProjectWrite(p, limit) => Keeps
    BY NoRowWrite DEF UpdateProjectWrite, taskTables, hiringTables
  <1>2. CreateProject(p, limit) => Keeps
    BY NoRowWrite DEF CreateProject, taskTables, hiringTables
  <1>3. ASSUME DeleteProjectWrite(p) PROVE Keeps
    <2>1. \A t \in Tasks : SameFor(Deleted(task[t]), task[t]) /\ SameFor(task[t], task[t])
      <3> SUFFICES ASSUME NEW t \in Tasks
                   PROVE  SameFor(Deleted(task[t]), task[t]) /\ SameFor(task[t], task[t])
        OBVIOUS
      <3>1. task[t] \in TaskRow
        BY OneTaskRow DEF TInv
      <3> QED
        BY <3>1, StatusNames, RowChanges, RowItself DEF Deleted
    <2>2. task' = [t \in Tasks |-> IF task[t].project = p /\ Live(task[t])
                                   THEN Deleted(task[t]) ELSE task[t]]
      BY <1>3 DEF DeleteProjectWrite, ArchiveWrite
    <2>3. \A t \in Tasks : task'[t] = Deleted(task[t]) \/ task'[t] = task[t]
      BY <2>2
    <2>4. \A t \in Tasks : SameFor(task'[t], task[t])
      BY <2>1, <2>3
    <2>5. task' \in [Tasks -> TaskRow]
      <3>1. \A t \in Tasks : Deleted(task[t]) \in TaskRow /\ task[t] \in TaskRow
        BY <2>1 DEF SameFor
      <3> QED
        BY <2>2, <3>1
    <2> QED
      BY <1>3, <2>4, <2>5, RowWrites DEF DeleteProjectWrite, taskTables, hiringTables
  <1> QED
    BY <1>1, <1>2, <1>3

\* The clock, and a request for completion.
LEMMA DeadlineKeeps ==
  ASSUME TInv, NEW t \in Tasks
  PROVE  /\ ResponseDeadlinePasses(t) => Keeps
         /\ RequestCompletionWrite(t) => Keeps
  <1>1. task[t] \in TaskRow
    BY OneTaskRow DEF TInv
  <1>2. ASSUME ResponseDeadlinePasses(t) PROVE Keeps
    <2>1. task' = [task EXCEPT ![t] = [task[t] EXCEPT !.deadline = "passed"]]
      BY <1>2 DEF ResponseDeadlinePasses
    <2>2. SameFor([task[t] EXCEPT !.deadline = "passed"], task[t])
      BY <1>1 DEF SameFor, TaskRow
    <2> QED
      BY <1>2, <2>1, <2>2, OneRowWrite DEF ResponseDeadlinePasses, taskTables, hiringTables
  <1>3. ASSUME RequestCompletionWrite(t) PROVE Keeps
    <2>1. task' = [task EXCEPT ![t] =
             [task[t] EXCEPT !.status = "COMPLETION_REQUESTED", !.deadline = "running"]]
      BY <1>3 DEF RequestCompletionWrite
    <2>2. SameFor([task[t] EXCEPT !.status = "COMPLETION_REQUESTED",
                                  !.deadline = "running"], task[t])
      BY <1>1, StatusNames DEF SameFor, TaskRow
    <2> QED
      BY <1>3, <2>1, <2>2, OneRowWrite DEF RequestCompletionWrite, taskTables, hiringTables
  <1> QED
    BY <1>2, <1>3

-----------------------------------------------------------------------------
(* Hiring *)

\* Applications, invites and notifications, beside a task row that stays as it is.
LEMMA HiringWrites1 ==
  ASSUME TInv, UNCHANGED <<task, dispute, rejections, thread>>,
         application' \in [Tasks -> [Developers -> ApplicationStatus]],
         invite' \in [Tasks -> [Developers -> InviteStatus]],
         told' \in [Tasks -> [Developers -> SUBSET Outcome]],
         \A t \in Tasks, d \in Developers :
           /\ told[t][d] \subseteq told'[t][d]
           /\ application'[t][d] = "ACCEPTED" => application[t][d] = "ACCEPTED"
           /\ application'[t][d] = "REJECTED" =>
                application[t][d] = "REJECTED" \/ "APPLICATION_REJECTED" \in told'[t][d]
           /\ invite'[t][d] = "ACCEPTED" => invite[t][d] = "ACCEPTED"
  PROVE  Keeps
  <1>1. Tables'
    BY DEF TInv, Tables
  <1>2. RejectionsCounted' /\ DisputeHasOpenRow'
    BY DEF TInv, RejectionsCounted, DisputeHasOpenRow, OpenDisputes
  <1>3. OutcomesWereTold'
    BY DEF TInv, OutcomesWereTold
  <1>4. ThreadWasTold'
    BY DEF TInv, Tables, ThreadWasTold
  <1>5. Grows
    BY OneTaskRow DEF TInv, Grows, TaskRow
  <1> QED
    BY <1>1, <1>2, <1>3, <1>4, <1>5 DEF Keeps, TInv

LEMMA AnswersKeep ==
  ASSUME TInv, NEW t \in Tasks, NEW d \in Developers
  PROVE  /\ ApplyWrite(t, d) => Keeps
         /\ RejectApplicationWrite(t, d) => Keeps
         /\ InviteWrite(t, d) => Keeps
         /\ \A answer \in {"DECLINED", "CANCELLED"} : AnswerInviteWrite(t, d, answer) => Keeps
  <1>0. /\ application \in [Tasks -> [Developers -> ApplicationStatus]]
        /\ invite \in [Tasks -> [Developers -> InviteStatus]]
        /\ told \in [Tasks -> [Developers -> SUBSET Outcome]]
    BY DEF TInv, Tables
  <1>1. ASSUME ApplyWrite(t, d) PROVE Keeps
    <2>1. /\ application' \in [Tasks -> [Developers -> ApplicationStatus]]
          /\ UNCHANGED <<task, dispute, rejections, thread, invite, told>>
          /\ \A x \in Tasks, e \in Developers :
               application'[x][e] = application[x][e] \/ application'[x][e] = "APPLIED"
      BY <1>0, <1>1 DEF ApplyWrite, taskTables, ApplicationStatus
    <2> QED
      BY <1>0, <2>1, HiringWrites1
  <1>2. ASSUME RejectApplicationWrite(t, d) PROVE Keeps
    <2>1. /\ application' \in [Tasks -> [Developers -> ApplicationStatus]]
          /\ told' \in [Tasks -> [Developers -> SUBSET Outcome]]
          /\ UNCHANGED <<task, dispute, rejections, thread, invite>>
      BY <1>0, <1>2 DEF RejectApplicationWrite, taskTables, ApplicationStatus, Outcome
    <2>2. ASSUME NEW x \in Tasks, NEW e \in Developers
          PROVE  /\ told[x][e] \subseteq told'[x][e]
                 /\ \/ application'[x][e] = application[x][e]
                    \/ application'[x][e] = "REJECTED" /\ "APPLICATION_REJECTED" \in told'[x][e]
      BY <1>0, <1>2 DEF RejectApplicationWrite
    <2> QED
      BY <1>0, <2>1, <2>2, HiringWrites1
  <1>3. ASSUME InviteWrite(t, d) PROVE Keeps
    <2>1. /\ invite' \in [Tasks -> [Developers -> InviteStatus]]
          /\ UNCHANGED <<task, dispute, rejections, thread, application, told>>
          /\ \A x \in Tasks, e \in Developers :
               invite'[x][e] = invite[x][e] \/ invite'[x][e] = "PENDING"
      BY <1>0, <1>3 DEF InviteWrite, taskTables, InviteStatus
    <2> QED
      BY <1>0, <2>1, HiringWrites1
  <1>4. ASSUME NEW answer \in {"DECLINED", "CANCELLED"}, AnswerInviteWrite(t, d, answer)
        PROVE  Keeps
    <2>1. /\ invite' \in [Tasks -> [Developers -> InviteStatus]]
          /\ UNCHANGED <<task, dispute, rejections, thread, application, told>>
          /\ \A x \in Tasks, e \in Developers :
               invite'[x][e] = invite[x][e] \/ invite'[x][e] = answer
      BY <1>0, <1>4 DEF AnswerInviteWrite, taskTables, InviteStatus
    <2> QED
      BY <1>0, <2>1, HiringWrites1
  <1> QED
    BY <1>1, <1>2, <1>3, <1>4

\* A start, by an accepted application or an accepted invite, at whatever moment its
\* writes reach the tables.
LEMMA StartKeeps ==
  ASSUME TInv, NEW t \in Tasks, NEW d \in Developers, NEW app, StartWrite(t, d, app),
         UNCHANGED <<dispute, rejections, thread>>,
         invite' \in [Tasks -> [Developers -> InviteStatus]],
         \A x \in Tasks, e \in Developers :
           invite'[x][e] = "ACCEPTED" => invite[x][e] = "ACCEPTED" \/ (x = t /\ e = d)
  PROVE  Keeps /\ "APPLICATION_ACCEPTED" \in told'[t][d]
  <1>0. /\ task \in [Tasks -> TaskRow]
        /\ application \in [Tasks -> [Developers -> ApplicationStatus]]
        /\ told \in [Tasks -> [Developers -> SUBSET Outcome]]
    BY DEF TInv, Tables
  <1>1. /\ task' \in [Tasks -> TaskRow]
        /\ \A x \in Tasks \ {t} : task'[x] = task[x]
        /\ task'[t].accepted = d /\ task'[t].status = "IN_PROGRESS"
        /\ task'[t].rejectionCount = task[t].rejectionCount
        /\ task[t].deleted => task'[t].deleted
    <2>1. task' = [task EXCEPT ![t] =
                     [task[t] EXCEPT !.status = "IN_PROGRESS", !.accepted = d]]
      BY DEF StartWrite
    <2>2. task[t] \in TaskRow
      BY <1>0
    <2>3. [task[t] EXCEPT !.status = "IN_PROGRESS", !.accepted = d] \in TaskRow
      BY <2>2, StatusNames DEF TaskRow
    <2>4. task'[t] = [task[t] EXCEPT !.status = "IN_PROGRESS", !.accepted = d]
      BY <1>0, <2>1
    <2> QED
      BY <1>0, <2>1, <2>2, <2>3, <2>4 DEF TaskRow
  <1>2. /\ told' \in [Tasks -> [Developers -> SUBSET Outcome]]
        /\ \A x \in Tasks, e \in Developers : told[x][e] \subseteq told'[x][e]
        /\ \A e \in Waiting(t, d) : "APPLICATION_REJECTED" \in told'[t][e]
        /\ "APPLICATION_ACCEPTED" \in told'[t][d]
    BY <1>0 DEF StartWrite, Outcome, Waiting
  <1>3. /\ application' \in [Tasks -> [Developers -> ApplicationStatus]]
        /\ \A x \in Tasks \ {t} : application'[x] = application[x]
        /\ \A e \in Developers \ {d} :
             IF e \in Waiting(t, d) THEN application'[t][e] = "REJECTED"
                                    ELSE application'[t][e] = application[t][e]
        /\ application'[t][d] \in {application[t][d], "ACCEPTED"}
    BY <1>0 DEF StartWrite, ApplicationStatus
  <1>4. Tables'
    BY <1>1, <1>2, <1>3 DEF TInv, Tables
  <1>5. RejectionsCounted'
    BY <1>1 DEF TInv, RejectionsCounted
  <1>6. DisputeHasOpenRow'
    BY <1>1 DEF TInv, DisputeHasOpenRow, OpenDisputes
  <1>7. ThreadWasTold'
    BY <1>0, <1>2 DEF TInv, Tables, ThreadWasTold
  <1>8. OutcomesWereTold'
    <2> SUFFICES ASSUME NEW x \in Tasks, NEW e \in Developers
                 PROVE  /\ task'[x].accepted = e \/ application'[x][e] = "ACCEPTED"
                             \/ invite'[x][e] = "ACCEPTED" => "APPLICATION_ACCEPTED" \in told'[x][e]
                        /\ application'[x][e] = "REJECTED" => "APPLICATION_REJECTED" \in told'[x][e]
      BY DEF OutcomesWereTold
    <2>1. /\ task[x].accepted = e \/ application[x][e] = "ACCEPTED"
               \/ invite[x][e] = "ACCEPTED" => "APPLICATION_ACCEPTED" \in told[x][e]
          /\ application[x][e] = "REJECTED" => "APPLICATION_REJECTED" \in told[x][e]
      BY DEF TInv, OutcomesWereTold
    <2>2. told[x][e] \subseteq told'[x][e]
      BY <1>2
    <2>3. CASE x # t
      BY <1>1, <1>3, <2>1, <2>2, <2>3
    <2>4. CASE x = t /\ e # d
      BY <1>1, <1>2, <1>3, <2>1, <2>2, <2>4
    <2>5. CASE x = t /\ e = d
      BY <1>2, <1>3, <2>1, <2>2, <2>5
    <2> QED
      BY <2>3, <2>4, <2>5
  <1>9. Grows
    <2>1. d # NoDeveloper
      BY ConstantsAssumption
    <2>2. ASSUME NEW x \in Tasks
          PROVE  /\ task[x].rejectionCount <= task'[x].rejectionCount
                 /\ task[x].deleted => task'[x].deleted
                 /\ task[x].accepted # NoDeveloper => task'[x].accepted # NoDeveloper
      <3>1. task[x].rejectionCount \in Nat
        BY <1>0 DEF TaskRow
      <3>2. CASE x = t
        <4>1. task[x].rejectionCount <= task'[x].rejectionCount
          BY <1>1, <3>1, <3>2
        <4> QED
          BY <1>1, <2>1, <3>2, <4>1, Zenon
      <3>3. CASE x # t
        BY <1>1, <3>1, <3>3
      <3> QED
        BY <3>2, <3>3
    <2> QED
      BY <1>2, <2>2 DEF Grows
  <1> QED
    BY <1>2, <1>4, <1>5, <1>6, <1>7, <1>8, <1>9 DEF Keeps, TInv

LEMMA AcceptKeeps ==
  ASSUME TInv, NEW t \in Tasks, NEW d \in Developers, NEW app,
         AcceptApplicationWrite(t, d, app) \/ AcceptInviteWrite(t, d, app), UNCHANGED thread
  PROVE  Keeps /\ "APPLICATION_ACCEPTED" \in told'[t][d]
  <1>0. invite \in [Tasks -> [Developers -> InviteStatus]]
    BY DEF TInv, Tables
  <1>1. CASE AcceptApplicationWrite(t, d, app)
    BY <1>0, <1>1, StartKeeps DEF AcceptApplicationWrite, taskTables
  <1>2. CASE AcceptInviteWrite(t, d, app)
    <2>1. /\ invite' \in [Tasks -> [Developers -> InviteStatus]]
          /\ \A x \in Tasks, e \in Developers :
               invite'[x][e] = "ACCEPTED" => invite[x][e] = "ACCEPTED" \/ (x = t /\ e = d)
      BY <1>0, <1>2 DEF AcceptInviteWrite, InviteStatus
    <2> QED
      BY <1>2, <2>1, StartKeeps DEF AcceptInviteWrite, taskTables
  <1> QED
    BY <1>1, <1>2

\* A missing thread is created with somebody who was told, or with nobody.
LEMMA ThreadKeeps ==
  ASSUME TInv, NEW t \in Tasks, NEW d \in Developers \cup {NoDeveloper},
         d # NoDeveloper => "APPLICATION_ACCEPTED" \in told[t][d],
         GetOrCreateChatThread(t, d),
         UNCHANGED <<task, application, invite, dispute, rejections, told>>
  PROVE  Keeps
  <1>1. /\ thread' \in [Tasks -> Developers \cup {NoDeveloper}]
        /\ \A x \in Tasks : \/ thread'[x] = thread[x]
                            \/ x = t /\ thread[x] = NoDeveloper /\ thread'[x] = d
    BY DEF TInv, Tables, GetOrCreateChatThread
  <1>2. Tables' /\ RejectionsCounted' /\ OutcomesWereTold' /\ DisputeHasOpenRow'
    BY <1>1 DEF TInv, Tables, RejectionsCounted, OutcomesWereTold, DisputeHasOpenRow,
       OpenDisputes
  <1>3. ThreadWasTold'
    BY <1>1 DEF TInv, ThreadWasTold
  <1>4. Grows
    BY <1>1, OneTaskRow DEF TInv, Grows, TaskRow
  <1> QED
    BY <1>2, <1>3, <1>4 DEF Keeps, TInv

-----------------------------------------------------------------------------
(* Completion and disputes *)

\* The row of one task moves to another status, with its disputes closed or opened.
LEMMA MoveKeeps ==
  ASSUME TInv, NEW t \in Tasks, NEW row \in TaskRow, task' = [task EXCEPT ![t] = row],
         row.accepted = task[t].accepted, row.deleted = task[t].deleted,
         task[t].rejectionCount <= row.rejectionCount,
         rejections' \in [Tasks -> SUBSET Nat],
         \A x \in Tasks \ {t} : rejections'[x] = rejections[x],
         rejections'[t] = 1..row.rejectionCount,
         dispute' \in [Tasks -> [DisputeIds -> DisputeStatus]],
         \A x \in Tasks \ {t} : dispute'[x] = dispute[x],
         row.status = "DISPUTE" => \E k \in DisputeIds : dispute'[t][k] = "OPEN",
         UNCHANGED <<application, invite, thread, told>>
  PROVE  Keeps
  <1>1. task \in [Tasks -> TaskRow]
    BY DEF TInv, Tables
  <1>2. task' \in [Tasks -> TaskRow] /\ task'[t] = row /\ \A x \in Tasks \ {t} : task'[x] = task[x]
    BY <1>1
  <1>3. Tables'
    BY <1>2 DEF TInv, Tables
  <1>4. RejectionsCounted'
    BY <1>2 DEF TInv, RejectionsCounted
  <1>5. DisputeHasOpenRow'
    BY <1>2 DEF TInv, DisputeHasOpenRow, OpenDisputes
  <1>6. \A x \in Tasks : task'[x].accepted = task[x].accepted
    BY <1>2
  <1>7. OutcomesWereTold' /\ ThreadWasTold'
    BY <1>6 DEF TInv, OutcomesWereTold, ThreadWasTold
  <1>8. Grows
    <2>1. ASSUME NEW x \in Tasks
          PROVE  /\ task[x].rejectionCount <= task'[x].rejectionCount
                 /\ task[x].deleted => task'[x].deleted
      <3>1. CASE x = t
        <4>1. task[x].deleted => task'[x].deleted
          BY <1>2, <3>1, Zenon
        <4> QED
          BY <1>2, <3>1, <4>1
      <3>2. CASE x # t
        <4>1. task'[x] = task[x] /\ task[x].rejectionCount \in Nat
          BY <1>1, <1>2, <3>2 DEF TaskRow
        <4> QED
          BY <4>1
      <3> QED
        BY <3>1, <3>2
    <2> QED
      BY <1>6, <2>1 DEF Grows
  <1> QED
    BY <1>3, <1>4, <1>5, <1>7, <1>8 DEF Keeps, TInv

LEMMA ResolveType ==
  ASSUME TInv, NEW t \in Tasks, NEW S, NEW action \in ResolutionAction, Resolve(t, S, action)
  PROVE  /\ dispute' \in [Tasks -> [DisputeIds -> DisputeStatus]]
         /\ \A x \in Tasks \ {t} : dispute'[x] = dispute[x]
  BY DEF Resolve, TInv, Tables, DisputeStatus

LEMMA WorkKeeps ==
  ASSUME TInv, NEW t \in Tasks, NEW S
  PROVE  /\ ConfirmWrite(t, S) => Keeps
         /\ \A action \in ResolutionAction : ResolveWrite(t, S, action) => Keeps
         /\ DisputeWrite(t) => Keeps
         /\ \A count \in Nat \ {0} :
              count <= task[t].rejectionCount + 1 /\ RejectCompletionWrite(t, count, S) => Keeps
  <1>0. /\ task[t] \in TaskRow /\ task[t].rejectionCount \in Nat
        /\ rejections \in [Tasks -> SUBSET Nat]
        /\ rejections[t] = 1..task[t].rejectionCount
    BY OneTaskRow DEF TInv, Tables, TaskRow, RejectionsCounted
  <1>1. ASSUME NEW s \in TaskStatus \ {"DISPUTE"}, NEW action \in ResolutionAction,
               task' = [task EXCEPT ![t] = [task[t] EXCEPT !.status = s, !.deadline = "none"]],
               Resolve(t, S, action), UNCHANGED rejections,
               UNCHANGED <<application, invite, thread, told>>
        PROVE  Keeps
    <2> DEFINE row == [task[t] EXCEPT !.status = s, !.deadline = "none"]
    <2>1. /\ row \in TaskRow /\ row.status = s /\ row.accepted = task[t].accepted
          /\ row.rejectionCount = task[t].rejectionCount
      BY <1>0 DEF TaskRow
    <2>2. row.deleted = task[t].deleted
      BY <1>0 DEF TaskRow
    <2>3. task' = [task EXCEPT ![t] = row]
      BY <1>1
    <2>4. /\ dispute' \in [Tasks -> [DisputeIds -> DisputeStatus]]
          /\ \A x \in Tasks \ {t} : dispute'[x] = dispute[x]
      BY <1>1, ResolveType
    <2>5. /\ rejections' \in [Tasks -> SUBSET Nat]
          /\ \A x \in Tasks \ {t} : rejections'[x] = rejections[x]
          /\ rejections'[t] = 1..row.rejectionCount
      BY <1>0, <1>1, <2>1
    <2>6. task[t].rejectionCount <= row.rejectionCount /\ row.status # "DISPUTE"
      BY <1>0, <2>1
    <2> HIDE DEF row
    <2> QED
      BY <1>1, <2>1, <2>2, <2>3, <2>4, <2>5, <2>6, MoveKeeps
  <1>2. ASSUME ConfirmWrite(t, S) PROVE Keeps
    <2>1. "COMPLETED" \in TaskStatus \ {"DISPUTE"} /\ "MARK_COMPLETED" \in ResolutionAction
      BY StatusNames DEF ResolutionAction
    <2> QED
      BY <1>1, <1>2, <2>1 DEF ConfirmWrite, hiringTables
  <1>3. ASSUME NEW action \in ResolutionAction, ResolveWrite(t, S, action) PROVE Keeps
    <2>1. StatusAfterResolution(action) \in TaskStatus \ {"DISPUTE"}
      BY StatusNames DEF StatusAfterResolution
    <2> QED
      BY <1>1, <1>3, <2>1 DEF ResolveWrite, hiringTables
  <1>4. ASSUME DisputeWrite(t) PROVE Keeps
    <2> DEFINE row == [task[t] EXCEPT !.status = "DISPUTE"]
    <2>1. /\ row \in TaskRow /\ row.accepted = task[t].accepted
          /\ row.rejectionCount = task[t].rejectionCount
      BY <1>0, StatusNames DEF TaskRow
    <2>2. row.deleted = task[t].deleted
      BY <1>0 DEF TaskRow
    <2>3. task' = [task EXCEPT ![t] = row]
      BY <1>4 DEF DisputeWrite
    <2>4. /\ dispute' \in [Tasks -> [DisputeIds -> DisputeStatus]]
          /\ \A x \in Tasks \ {t} : dispute'[x] = dispute[x]
          /\ \E k \in DisputeIds : dispute'[t][k] = "OPEN"
      BY <1>4 DEF DisputeWrite, TInv, Tables, DisputeStatus
    <2>5. UNCHANGED <<rejections, application, invite, thread, told>>
      BY <1>4 DEF DisputeWrite, hiringTables
    <2>6. /\ rejections' \in [Tasks -> SUBSET Nat]
          /\ \A x \in Tasks \ {t} : rejections'[x] = rejections[x]
          /\ rejections'[t] = 1..row.rejectionCount
      BY <1>0, <2>1, <2>5
    <2>7. task[t].rejectionCount <= row.rejectionCount
      BY <1>0, <2>1
    <2> HIDE DEF row
    <2> QED
      BY <2>1, <2>2, <2>3, <2>4, <2>5, <2>6, <2>7, MoveKeeps
  <1>5. ASSUME NEW count \in Nat \ {0}, count <= task[t].rejectionCount + 1,
               RejectCompletionWrite(t, count, S)
        PROVE  Keeps
    <2>1. count = task[t].rejectionCount + 1
      BY <1>0, <1>5 DEF RejectCompletionWrite
    <2> DEFINE row == [task[t] EXCEPT !.rejectionCount = count, !.deadline = "none",
                                      !.status = StatusAfterRejection(count)]
    <2>2. StatusAfterRejection(count) \in TaskStatus \ {"DISPUTE"}
          /\ RejectionResolution(count) \in ResolutionAction
      BY StatusNames DEF StatusAfterRejection, RejectionResolution, ResolutionAction
    <2>3. /\ row \in TaskRow /\ row.status = StatusAfterRejection(count)
          /\ row.accepted = task[t].accepted /\ row.rejectionCount = count
      BY <1>0, <2>2 DEF TaskRow
    <2>4. row.deleted = task[t].deleted
      BY <1>0 DEF TaskRow
    <2>5. task' = [task EXCEPT ![t] = row]
      BY <1>5 DEF RejectCompletionWrite
    <2>6. /\ rejections' \in [Tasks -> SUBSET Nat]
          /\ \A x \in Tasks \ {t} : rejections'[x] = rejections[x]
          /\ rejections'[t] = 1..count
      <3>1. rejections' = [rejections EXCEPT ![t] = rejections[t] \cup {count}]
        BY <1>5 DEF RejectCompletionWrite
      <3>2. (1..task[t].rejectionCount) \cup {count} = 1..count
        BY <1>0, <2>1
      <3> QED
        BY <1>0, <3>1, <3>2
    <2>7. /\ dispute' \in [Tasks -> [DisputeIds -> DisputeStatus]]
          /\ \A x \in Tasks \ {t} : dispute'[x] = dispute[x]
      BY <1>5, <2>2, ResolveType DEF RejectCompletionWrite
    <2>8. UNCHANGED <<application, invite, thread, told>>
      BY <1>5 DEF RejectCompletionWrite, hiringTables
    <2>9. task[t].rejectionCount <= row.rejectionCount /\ row.status # "DISPUTE"
      BY <1>0, <2>1, <2>2, <2>3
    <2> HIDE DEF row
    <2> QED
      BY <2>3, <2>4, <2>5, <2>6, <2>7, <2>8, <2>9, MoveKeeps
  <1> QED
    BY <1>2, <1>3, <1>4, <1>5

-----------------------------------------------------------------------------
(* What a request in flight has read is still true enough when it writes *)

Rows == {"task", "project", "application", "accepted", "invite", "thread", "dispute", "report"}

RequestRow ==
  [op : DOMAIN Reads, task : Tasks \cup {CHOOSE t \in Tasks : TRUE},
   developer : Developers \cup {NoDeveloper}, project : Projects \cup {NoProject},
   choice : {"none"} \cup UNION {Choices(op) : op \in WithAChoice \cup OnlyAProject},
   reads : Seq(Rows) \cup {<<"chat">>}, row : TaskRow, app : ApplicationStatus,
   found : SUBSET DisputeIds]

\* Only a request about a project names no task but a project, and reads nothing else;
\* only one about a developer names a developer, and a choice is one of its operation.
Named(q) ==
  /\ q.op \notin OnlyAProject => q.task \in Tasks
  /\ q.op \in OnlyAProject => q.project \in Projects /\ q.reads \in {<<"project">>, << >>}
  /\ q.op \in AboutDeveloper => q.developer \in Developers
  /\ q.op \in WithAChoice \cup OnlyAProject => q.choice \in Choices(q.op)

\* The counter it read has not gone down since, and whom it saw on the task, or has put
\* there, was told.
SeenRight(q) ==
  /\ q.task \in Tasks => q.row.rejectionCount <= task[q.task].rejectionCount
  /\ q.task \in Tasks /\ q.row.accepted # NoDeveloper =>
       "APPLICATION_ACCEPTED" \in told[q.task][q.row.accepted]
  /\ q.reads = <<"chat">> =>
       /\ q.op \in AboutDeveloper
       /\ "APPLICATION_ACCEPTED" \in told[q.task][q.developer]

Fits(q) == q \in RequestRow /\ Named(q) /\ SeenRight(q)

RInv ==
  /\ group \in Groups
  /\ DOMAIN req = Requests
  /\ \A r \in Requests : req[r] # Idle => Fits(req[r])

OverlapInv == TInv /\ RInv

LEMMA ReadsType == \A op \in DOMAIN Reads : Reads[op] \in Seq(Rows) /\ Reads[op] # << >>
  <1>1. /\ <<"project">> \in Seq(Rows) \ {<< >>}
        /\ <<"task">> \in Seq(Rows) \ {<< >>}
        /\ <<"application">> \in Seq(Rows) \ {<< >>}
        /\ <<"invite">> \in Seq(Rows) \ {<< >>}
        /\ <<"report">> \in Seq(Rows) \ {<< >>}
        /\ <<"task", "project">> \in Seq(Rows) \ {<< >>}
        /\ <<"task", "application">> \in Seq(Rows) \ {<< >>}
        /\ <<"thread", "task">> \in Seq(Rows) \ {<< >>}
        /\ <<"task", "dispute">> \in Seq(Rows) \ {<< >>}
        /\ <<"invite", "task", "application">> \in Seq(Rows) \ {<< >>}
        /\ <<"task", "accepted", "invite", "application">> \in Seq(Rows) \ {<< >>}
    BY DEF Rows
  <1> SUFFICES ASSUME NEW op \in DOMAIN Reads
               PROVE  Reads[op] \in Seq(Rows) /\ Reads[op] # << >>
    OBVIOUS
  <1>2. Reads[op] \in
          {<<"project">>,
           <<"task">>,
           <<"application">>,
           <<"invite">>,
           <<"report">>,
           <<"task", "project">>,
           <<"task", "application">>,
           <<"thread", "task">>,
           <<"task", "dispute">>,
           <<"invite", "task", "application">>,
           <<"task", "accepted", "invite", "application">>}
    BY DEF Reads
  <1> QED
    BY <1>1, <1>2

LEMMA ChatIsNoRead == <<"chat">> \notin Seq(Rows)
  <1> SUFFICES ASSUME <<"chat">> \in Seq(Rows) PROVE FALSE
    OBVIOUS
  <1> DEFINE s == <<"chat">>
  <1>1. s[1] \in Rows
    <2>1. s \in Seq(Rows) /\ Len(s) = 1
      OBVIOUS
    <2> QED
      BY <2>1
  <1> QED
    BY <1>1 DEF Rows

-----------------------------------------------------------------------------
(* Which rows a handler reads *)

Columns(s) == {s[i] : i \in 1..Len(s)}

LEMMA ColumnsOfTuple ==
  ASSUME NEW a, NEW b
  PROVE  /\ Columns(<< >>) = {}
         /\ Columns(<<a>>) = {a}
         /\ Columns(<<a, b>>) = {a, b}
  <1>1. 1..2 = {1, 2}
    OBVIOUS
  <1> QED
    BY <1>1 DEF Columns

LEMMA ColumnsOfTriple ==
  ASSUME NEW a, NEW b, NEW c
  PROVE  Columns(<<a, b, c>>) = {a, b, c}
  <1>1. 1..3 = {1, 2, 3}
    OBVIOUS
  <1> QED
    BY <1>1 DEF Columns

LEMMA ColumnsOfFour ==
  ASSUME NEW a, NEW b, NEW c, NEW d
  PROVE  Columns(<<a, b, c, d>>) = {a, b, c, d}
  <1>1. 1..4 = {1, 2, 3, 4}
    OBVIOUS
  <1> QED
    BY <1>1 DEF Columns

LEMMA ColumnsOfTail ==
  ASSUME NEW s \in Seq(Rows), s # << >>
  PROVE  Columns(s) \subseteq {Head(s)} \cup Columns(Tail(s))
  <1> SUFFICES ASSUME NEW i \in 1..Len(s) PROVE s[i] \in {Head(s)} \cup Columns(Tail(s))
    BY DEF Columns
  <1>1. CASE i = 1
    BY <1>1
  <1>2. CASE i # 1
    <2>1. i - 1 \in 1..Len(Tail(s)) /\ Tail(s)[i - 1] = s[i]
      BY <1>2
    <2> QED
      BY <2>1 DEF Columns
  <1> QED
    BY <1>1, <1>2

RowsRead(op) == Columns(Reads[op])

LEMMA RowsReadAreRows == ASSUME NEW op \in DOMAIN Reads PROVE RowsRead(op) \subseteq Rows
  <1>1. Reads[op] \in Seq(Rows)
    BY ReadsType
  <1> QED
    BY <1>1 DEF RowsRead, Columns

LEMMA RowsOfDrafts ==
  /\ RowsRead("CreateTaskDraft") = {"project"}
  /\ RowsRead("UpdateTaskDraft") = {"task", "project"}
  /\ RowsRead("PublishTask") = {"task", "project"}
  /\ RowsRead("CloseTask") = {"task"}
  /\ RowsRead("DeleteTask") = {"task"}
  /\ RowsRead("ReportTask") = {"task"}
  /\ RowsRead("ResolveTaskReport") = {"report"}
  /\ RowsRead("UpdateProject") = {"project"}
  /\ RowsRead("DeleteProject") = {"project"}
  BY ColumnsOfTuple DEF RowsRead, Reads

LEMMA RowsOfHiring ==
  /\ RowsRead("ApplyToTask") = {"task", "application"}
  /\ RowsRead("AcceptApplication") = {"task", "application"}
  /\ RowsRead("RejectApplication") = {"application"}
  /\ RowsRead("CreateTaskInvite") = {"task", "accepted", "invite", "application"}
  /\ RowsRead("AcceptInvite") = {"invite", "task", "application"}
  /\ RowsRead("DeclineInvite") = {"invite"}
  /\ RowsRead("CancelInvite") = {"invite"}
  /\ RowsRead("GetThreadByTaskId") = {"thread", "task"}
  <1>1. /\ Reads["ApplyToTask"] = <<"task", "application">>
        /\ Reads["AcceptApplication"] = <<"task", "application">>
        /\ Reads["RejectApplication"] = <<"application">>
        /\ Reads["CreateTaskInvite"] = <<"task", "accepted", "invite", "application">>
        /\ Reads["AcceptInvite"] = <<"invite", "task", "application">>
        /\ Reads["DeclineInvite"] = <<"invite">>
        /\ Reads["CancelInvite"] = <<"invite">>
        /\ Reads["GetThreadByTaskId"] = <<"thread", "task">>
    BY DEF Reads
  <1>2. Columns(<<"task", "accepted", "invite", "application">>) =
          {"task", "accepted", "invite", "application"}
    BY ColumnsOfFour, Zenon
  <1>3. Columns(<<"invite", "task", "application">>) = {"invite", "task", "application"}
    BY ColumnsOfTriple, Zenon
  <1>4. /\ Columns(<<"task", "application">>) = {"task", "application"}
        /\ Columns(<<"thread", "task">>) = {"thread", "task"}
        /\ Columns(<<"application">>) = {"application"}
        /\ Columns(<<"invite">>) = {"invite"}
    BY ColumnsOfTuple, Zenon
  <1> QED
    BY <1>1, <1>2, <1>3, <1>4, Zenon DEF RowsRead

LEMMA RowsOfWork ==
  /\ RowsRead("RequestCompletion") = {"task"}
  /\ RowsRead("RejectCompletion") = {"task", "dispute"}
  /\ RowsRead("ConfirmCompletion") = {"task", "dispute"}
  /\ RowsRead("OpenDispute") = {"task", "dispute"}
  /\ RowsRead("EscalateDispute") = {"task", "dispute"}
  /\ RowsRead("ResolveDispute") = {"task", "dispute"}
  /\ RowsRead("CreateReview") = {"task"}
  BY ColumnsOfTuple DEF RowsRead, Reads

\* The operations that look at the task.
TaskReaders == {op \in DOMAIN Reads : "task" \in RowsRead(op)}

LEMMA TaskReadersAre ==
  TaskReaders \subseteq
    {"UpdateTaskDraft", "PublishTask", "CloseTask", "DeleteTask", "ApplyToTask",
     "AcceptApplication", "CreateTaskInvite", "AcceptInvite", "GetThreadByTaskId",
     "RequestCompletion", "RejectCompletion", "ConfirmCompletion", "OpenDispute",
     "EscalateDispute", "ResolveDispute", "CreateReview", "ReportTask"}
  <1>1. DOMAIN Reads =
          {"CreateTaskDraft", "UpdateTaskDraft", "PublishTask", "CloseTask", "DeleteTask",
           "ApplyToTask", "AcceptApplication", "RejectApplication", "CreateTaskInvite",
           "AcceptInvite", "DeclineInvite", "CancelInvite", "GetThreadByTaskId",
           "RequestCompletion", "RejectCompletion", "ConfirmCompletion", "OpenDispute",
           "EscalateDispute", "ResolveDispute", "CreateReview", "ReportTask",
           "ResolveTaskReport", "UpdateProject", "DeleteProject"}
    BY DEF Reads
  <1> QED
    BY <1>1, RowsOfDrafts, RowsOfHiring DEF TaskReaders

-----------------------------------------------------------------------------
(* The rows as they change *)

LEMMA FitsGrows ==
  ASSUME TInv, Keeps, NEW q, Fits(q)
  PROVE  Fits(q)'
  <1>1. q \in RequestRow /\ Named(q)
    BY DEF Fits
  <1>2. ASSUME q.task \in Tasks PROVE q.row.rejectionCount <= task'[q.task].rejectionCount
    <2>1. /\ q.row.rejectionCount \in Nat
          /\ task[q.task].rejectionCount \in Nat /\ task'[q.task].rejectionCount \in Nat
      BY <1>1, <1>2 DEF Keeps, TInv, Tables, TaskRow, RequestRow
    <2>2. /\ q.row.rejectionCount <= task[q.task].rejectionCount
          /\ task[q.task].rejectionCount <= task'[q.task].rejectionCount
      BY <1>2 DEF Fits, SeenRight, Keeps, Grows
    <2> QED
      BY <2>1, <2>2
  <1>3. ASSUME NEW t \in Tasks, NEW d \in Developers PROVE told[t][d] \subseteq told'[t][d]
    BY <1>3 DEF Keeps, Grows
  <1>4. ASSUME q.task \in Tasks, q.row.accepted # NoDeveloper
        PROVE  "APPLICATION_ACCEPTED" \in told'[q.task][q.row.accepted]
    <2>1. q.row.accepted \in Developers
      BY <1>1, <1>4 DEF RequestRow, TaskRow
    <2> QED
      BY <1>3, <1>4, <2>1 DEF Fits, SeenRight
  <1>5. ASSUME q.reads = <<"chat">>
        PROVE  /\ q.op \in AboutDeveloper
               /\ "APPLICATION_ACCEPTED" \in told'[q.task][q.developer]
    <2>1. q.op \in AboutDeveloper /\ q.op \notin OnlyAProject
      BY <1>5 DEF Fits, SeenRight, AboutDeveloper, OnlyAProject
    <2>2. q.task \in Tasks /\ q.developer \in Developers
      BY <2>1 DEF Fits, Named
    <2> QED
      BY <1>3, <1>5, <2>1, <2>2 DEF Fits, SeenRight
  <1> QED
    BY <1>1, <1>2, <1>4, <1>5 DEF Fits, SeenRight

-----------------------------------------------------------------------------
(* Requests begin and read *)

LEMMA PossibleFits ==
  ASSUME TInv, RInv, NEW q \in Possible
  PROVE  /\ Fits(q) /\ q.reads = Reads[q.op] /\ q.reads \notin {<< >>, <<"chat">>}
         /\ q.row = NoTaskRow
  <1>1. /\ group.ops \subseteq DOMAIN Reads /\ group.developers \subseteq Developers
        /\ group.projects \subseteq Projects
    BY GroupsAssumption DEF RInv
  <1>2. PICK op \in DOMAIN Reads, t \in Tasks \cup {CHOOSE t \in Tasks : TRUE},
             d \in Developers \cup {NoDeveloper}, p \in Projects \cup {NoProject},
             c \in {"none"} \cup UNION {Choices(o) : o \in WithAChoice \cup OnlyAProject} :
          /\ q = Request(op, t, d, p, c)
          /\ op \notin OnlyAProject => t \in Tasks
          /\ op \in OnlyAProject => p \in Projects
          /\ op \in AboutDeveloper => d \in Developers
          /\ op \in WithAChoice \cup OnlyAProject => c \in Choices(op)
    <2> DEFINE AboutADeveloper ==
                 {Request(op, t, d, NoProject, "none") :
                    op \in group.ops \cap AboutDeveloper, t \in Tasks, d \in group.developers}
               AboutAProject ==
                 {Request(op, t, NoDeveloper, p, "none") :
                    op \in group.ops \cap AboutProject, t \in Tasks,
                    p \in group.projects \cup {NoProject}}
               AboutATask ==
                 {Request(op, t, NoDeveloper, NoProject, "none") :
                    op \in group.ops \cap AboutTask, t \in Tasks}
               WithOneChoice(op) ==
                 {Request(op, t, NoDeveloper, NoProject, c) : t \in Tasks, c \in Choices(op)}
               AProjectOnly(op) ==
                 {Request(op, CHOOSE t \in Tasks : TRUE, NoDeveloper, p, c) :
                    p \in group.projects, c \in Choices(op)}
    <2>0. \/ q \in AboutADeveloper \/ q \in AboutAProject \/ q \in AboutATask
          \/ \E op \in group.ops \cap WithAChoice : q \in WithOneChoice(op)
          \/ \E op \in group.ops \cap OnlyAProject : q \in AProjectOnly(op)
      <3>1. Possible = UNION {AboutADeveloper, AboutAProject, AboutATask,
                         UNION {WithOneChoice(op) : op \in group.ops \cap WithAChoice},
                         UNION {AProjectOnly(op) : op \in group.ops \cap OnlyAProject}}
        BY DEF Possible
      <3> HIDE DEF AboutADeveloper, AboutAProject, AboutATask, WithOneChoice, AProjectOnly
      <3> QED
        BY <3>1
    <2>1. CASE q \in AboutADeveloper
      <3>1. PICK op \in group.ops \cap AboutDeveloper, t \in Tasks, d \in group.developers :
              q = Request(op, t, d, NoProject, "none")
        BY <2>1
      <3>2. op \notin OnlyAProject /\ op \notin WithAChoice
        BY DEF AboutDeveloper, OnlyAProject, WithAChoice
      <3> QED
        BY <1>1, <3>1, <3>2
    <2>2. CASE q \in AboutAProject
      <3>1. PICK op \in group.ops \cap AboutProject, t \in Tasks,
                 p \in group.projects \cup {NoProject} :
              q = Request(op, t, NoDeveloper, p, "none")
        BY <2>2
      <3>2. op \notin OnlyAProject /\ op \notin AboutDeveloper /\ op \notin WithAChoice
        BY DEF AboutProject, AboutDeveloper, OnlyAProject, WithAChoice
      <3> QED
        BY <1>1, <3>1, <3>2
    <2>3. CASE q \in AboutATask
      <3>1. PICK op \in group.ops \cap AboutTask, t \in Tasks :
              q = Request(op, t, NoDeveloper, NoProject, "none")
        BY <2>3
      <3>2. op \notin OnlyAProject /\ op \notin AboutDeveloper /\ op \notin WithAChoice
        BY DEF AboutTask
      <3> QED
        BY <1>1, <3>1, <3>2
    <2>4. CASE \E op \in group.ops \cap WithAChoice : q \in WithOneChoice(op)
      <3> PICK op \in group.ops \cap WithAChoice : q \in WithOneChoice(op)
        BY <2>4
      <3>1. PICK t \in Tasks, c \in Choices(op) : q = Request(op, t, NoDeveloper, NoProject, c)
        OBVIOUS
      <3>2. c \in UNION {Choices(o) : o \in WithAChoice \cup OnlyAProject}
        BY <3>1
      <3>3. op \notin OnlyAProject /\ op \notin AboutDeveloper
        BY <3>1 DEF AboutDeveloper, WithAChoice, OnlyAProject
      <3> QED
        BY <1>1, <3>1, <3>2, <3>3
    <2>5. CASE \E op \in group.ops \cap OnlyAProject : q \in AProjectOnly(op)
      <3> PICK op \in group.ops \cap OnlyAProject : q \in AProjectOnly(op)
        BY <2>5
      <3>1. PICK p \in group.projects, c \in Choices(op) :
              q = Request(op, CHOOSE t \in Tasks : TRUE, NoDeveloper, p, c)
        OBVIOUS
      <3>2. c \in UNION {Choices(o) : o \in WithAChoice \cup OnlyAProject}
        BY <3>1
      <3>3. op \notin AboutDeveloper
        BY <3>1 DEF AboutDeveloper, OnlyAProject
      <3> QED
        BY <1>1, <3>1, <3>2, <3>3
    <2> HIDE DEF AboutADeveloper, AboutAProject, AboutATask, WithOneChoice, AProjectOnly
    <2> QED
      BY <2>0, <2>1, <2>2, <2>3, <2>4, <2>5, Zenon
  <1>3. q = [op |-> op, task |-> t, developer |-> d, project |-> p, choice |-> c,
             reads |-> Reads[op], row |-> NoTaskRow, app |-> "NONE", found |-> {}]
    BY <1>2 DEF Request
  <1>4. q \in RequestRow
    <2>1. NoTaskRow \in TaskRow
      BY DEF NoTaskRow, TaskRow, TaskStatus
    <2>2. Reads[op] \in Seq(Rows)
      BY ReadsType
    <2> QED
      BY <1>3, <2>1, <2>2 DEF RequestRow, ApplicationStatus
  <1>5. Named(q)
    <2>1. q.op \in OnlyAProject => q.reads = <<"project">>
      BY <1>3 DEF Reads, OnlyAProject
    <2> QED
      BY <1>2, <1>3, <2>1 DEF Named
  <1>6. SeenRight(q)
    <2>1. q.row.rejectionCount = 0 /\ q.row.accepted = NoDeveloper
      BY <1>3 DEF NoTaskRow
    <2>2. q.reads # <<"chat">>
      BY <1>3, ReadsType, ChatIsNoRead
    <2>3. \A x \in Tasks : task[x].rejectionCount \in Nat
      BY OneTaskRow DEF TInv, TaskRow
    <2> QED
      BY <2>1, <2>2, <2>3 DEF SeenRight
  <1>7. q.reads = Reads[q.op] /\ q.reads \notin {<< >>, <<"chat">>} /\ q.row = NoTaskRow
    BY <1>3, ReadsType, ChatIsNoRead
  <1> QED
    BY <1>4, <1>5, <1>6, <1>7 DEF Fits

LEMMA ReadEffect ==
  ASSUME NEW q, q \in RequestRow, q.reads \notin {<< >>, <<"chat">>}, NEW n, n = AfterRead(q)
  PROVE  /\ n.op = q.op /\ n.task = q.task /\ n.developer = q.developer
         /\ n.project = q.project /\ n.choice = q.choice /\ n.reads = Tail(q.reads)
         /\ n.row = IF Head(q.reads) \in {"task", "report"} THEN task[q.task] ELSE q.row
         /\ n.app = IF Head(q.reads) = "application" /\ Starts(q)
                    THEN application[q.task][q.developer] ELSE q.app
         /\ n.found = IF Head(q.reads) = "dispute" THEN LatestOpen(q.task) ELSE q.found
  <1>1. q \in RequestRow
    OBVIOUS
  <1> DEFINE rest == [q EXCEPT !.reads = Tail(@)]
  <1>2. /\ rest.op = q.op /\ rest.task = q.task /\ rest.developer = q.developer
        /\ rest.project = q.project /\ rest.choice = q.choice /\ rest.reads = Tail(q.reads)
        /\ rest.row = q.row /\ rest.app = q.app /\ rest.found = q.found
    BY <1>1 DEF RequestRow
  <1>3. DOMAIN rest = {"op", "task", "developer", "project", "choice", "reads", "row",
                       "app", "found"}
    BY <1>1 DEF RequestRow
  <1> HIDE DEF rest
  <1>4. n = CASE Head(q.reads) \in {"task", "report"}
                   -> [rest EXCEPT !.row = task[q.task]]
              [] Head(q.reads) = "application" /\ Starts(q)
                   -> [rest EXCEPT !.app = application[q.task][q.developer]]
              [] Head(q.reads) = "dispute"
                   -> [rest EXCEPT !.found = LatestOpen(q.task)]
              [] OTHER -> rest
    BY Zenon DEF AfterRead, rest, Starts
  <1>5. CASE Head(q.reads) \in {"task", "report"}
    BY <1>2, <1>3, <1>4, <1>5
  <1>6. CASE Head(q.reads) = "application" /\ Starts(q)
    BY <1>2, <1>3, <1>4, <1>6
  <1>7. CASE Head(q.reads) = "dispute"
    BY <1>2, <1>3, <1>4, <1>7
  <1>8. CASE /\ ~(Head(q.reads) \in {"task", "report"})
             /\ ~(Head(q.reads) = "application" /\ Starts(q))
             /\ Head(q.reads) # "dispute"
    <2>1. n = rest
      BY <1>4, <1>8
    <2> QED
      BY <1>2, <1>8, <2>1
  <1> QED
    BY <1>5, <1>6, <1>7, <1>8

LEMMA AfterReadFits ==
  ASSUME TInv, NEW q, Fits(q), q.reads \notin {<< >>, <<"chat">>}
  PROVE  Fits(AfterRead(q))
  <1>1. q \in RequestRow /\ Named(q) /\ SeenRight(q)
    BY DEF Fits
  <1> DEFINE rest == [q EXCEPT !.reads = Tail(@)]
  <1>2. q.reads \in Seq(Rows) /\ Tail(q.reads) \in Seq(Rows)
    <2>1. q.reads \in Seq(Rows)
      BY <1>1 DEF RequestRow
    <2> QED
      BY <2>1
  <1>3. /\ rest \in RequestRow /\ rest.reads = Tail(q.reads) /\ rest.op = q.op
        /\ rest.task = q.task /\ rest.developer = q.developer /\ rest.choice = q.choice
        /\ rest.project = q.project /\ rest.row = q.row
    BY <1>1, <1>2 DEF RequestRow
  <1>4. rest.reads # <<"chat">>
    BY <1>2, <1>3, ChatIsNoRead
  <1>0. q.op \in OnlyAProject => q.reads = <<"project">>
    BY <1>1 DEF Named
  <1>5. Fits(rest)
    <2>1. Tail(<<"project">>) = << >>
      OBVIOUS
    <2>2. Named(rest)
      BY <1>0, <1>1, <1>3, <2>1 DEF Named
    <2> QED
      BY <1>1, <1>3, <1>4, <2>2 DEF Fits, SeenRight
  <1> HIDE DEF rest
  <1>6. ASSUME q.task \in Tasks PROVE Fits([rest EXCEPT !.row = task[q.task]])
    <2> DEFINE n == [rest EXCEPT !.row = task[q.task]]
    <2>1. task[q.task] \in TaskRow
      BY <1>6, OneTaskRow DEF TInv
    <2>2. /\ n \in RequestRow /\ n.reads = rest.reads /\ n.op = q.op /\ n.task = q.task
          /\ n.developer = q.developer /\ n.choice = q.choice /\ n.project = q.project
          /\ n.row = task[q.task]
      BY <1>3, <2>1 DEF RequestRow
    <2>3. task[q.task].rejectionCount <= task[q.task].rejectionCount
      BY <2>1 DEF TaskRow
    <2>4. task[q.task].accepted # NoDeveloper =>
            "APPLICATION_ACCEPTED" \in told[q.task][task[q.task].accepted]
      BY <1>6, <2>1 DEF TInv, OutcomesWereTold, TaskRow
    <2> HIDE DEF n
    <2>5. Named(n) /\ SeenRight(n)
      BY <1>4, <1>5, <1>3, <2>2, <2>3, <2>4 DEF Fits, Named, SeenRight
    <2> QED
      BY <2>2, <2>5 DEF Fits, n
  <1>7. ASSUME q.task \in Tasks, q.developer \in Developers
        PROVE  Fits([rest EXCEPT !.app = application[q.task][q.developer]])
    <2> DEFINE n == [rest EXCEPT !.app = application[q.task][q.developer]]
    <2>1. application[q.task][q.developer] \in ApplicationStatus
      BY <1>7 DEF TInv, Tables
    <2>2. /\ n \in RequestRow /\ n.reads = rest.reads /\ n.op = q.op /\ n.task = q.task
          /\ n.developer = q.developer /\ n.choice = q.choice /\ n.project = q.project
          /\ n.row = q.row
      BY <1>3, <2>1 DEF RequestRow
    <2> HIDE DEF n
    <2>5. Named(n) /\ SeenRight(n)
      BY <1>3, <1>4, <1>5, <2>2 DEF Fits, Named, SeenRight
    <2> QED
      BY <2>2, <2>5 DEF Fits, n
  <1>8. Fits([rest EXCEPT !.found = LatestOpen(q.task)])
    <2> DEFINE n == [rest EXCEPT !.found = LatestOpen(q.task)]
    <2>1. LatestOpen(q.task) \in SUBSET DisputeIds
      BY DEF LatestOpen, OpenDisputes
    <2>2. /\ n \in RequestRow /\ n.reads = rest.reads /\ n.op = q.op /\ n.task = q.task
          /\ n.developer = q.developer /\ n.choice = q.choice /\ n.project = q.project
          /\ n.row = q.row
      BY <1>3, <2>1 DEF RequestRow
    <2> HIDE DEF n
    <2>5. Named(n) /\ SeenRight(n)
      BY <1>3, <1>4, <1>5, <2>2 DEF Fits, Named, SeenRight
    <2> QED
      BY <2>2, <2>5 DEF Fits, n
  <1>9. Head(q.reads) \in {"task", "report"} => q.op \notin OnlyAProject
    <2>1. Head(<<"project">>) = "project"
      OBVIOUS
    <2> QED
      BY <1>0, <2>1
  <1>10. \/ AfterRead(q) = rest
         \/ AfterRead(q) = [rest EXCEPT !.row = task[q.task]] /\ Head(q.reads) \in {"task", "report"}
         \/ /\ AfterRead(q) = [rest EXCEPT !.app = application[q.task][q.developer]]
            /\ q.op \in AboutDeveloper /\ q.op \notin OnlyAProject
         \/ AfterRead(q) = [rest EXCEPT !.found = LatestOpen(q.task)]
    BY DEF AfterRead, rest, OnlyAProject, AboutDeveloper
  <1> QED
    BY <1>1, <1>5, <1>6, <1>7, <1>8, <1>9, <1>10 DEF Named

-----------------------------------------------------------------------------
(* Requests write *)

LEMMA CommitKeeps ==
  ASSUME TInv, NEW q, Fits(q), HiringWrites(q) \/ DraftWrites(q) \/ WorkWrites(q)
  PROVE  Keeps /\ (Starts(q) => "APPLICATION_ACCEPTED" \in told'[q.task][q.developer])
  <1>0. /\ q \in RequestRow
        /\ q.op \notin OnlyAProject => q.task \in Tasks
        /\ q.op \in AboutDeveloper => q.developer \in Developers
        /\ q.op = "ResolveDispute" => q.choice \in ResolutionAction
        /\ q.project \in Projects \cup {NoProject} /\ q.row \in TaskRow
    BY DEF Fits, Named, RequestRow, Choices, WithAChoice
  <1>1. CASE HiringWrites(q)
    <2>1. /\ q.op \in AboutDeveloper \cup {"GetThreadByTaskId"}
          /\ q.op # "GetThreadByTaskId" => q.op \in AboutDeveloper
          /\ q.op \notin OnlyAProject
      BY <1>1 DEF HiringWrites, AboutDeveloper, OnlyAProject
    <2>2. q.task \in Tasks
      BY <1>0, <2>1
    <2>3. CASE q.op = "GetThreadByTaskId"
      <3>1. /\ GetOrCreateChatThread(q.task, q.row.accepted)
            /\ UNCHANGED <<task, application, invite, dispute, rejections, told>>
        BY <1>1, <2>3 DEF HiringWrites, taskTables
      <3>2. /\ q.row.accepted \in Developers \cup {NoDeveloper}
            /\ q.row.accepted # NoDeveloper =>
                 "APPLICATION_ACCEPTED" \in told[q.task][q.row.accepted]
        BY <1>0, <2>2 DEF TaskRow, Fits, SeenRight
      <3> QED
        BY <2>2, <2>3, <3>1, <3>2, ThreadKeeps DEF Starts
    <2>4. CASE q.op # "GetThreadByTaskId"
      <3>1. q.developer \in Developers
        BY <1>0, <2>1, <2>4
      <3>2. CASE Starts(q)
        <4>1. /\ \/ AcceptApplicationWrite(q.task, q.developer, q.app)
                 \/ AcceptInviteWrite(q.task, q.developer, q.app)
              /\ UNCHANGED thread
          BY <1>1, <3>2 DEF HiringWrites, Starts
        <4> QED
          BY <2>2, <3>1, <4>1, AcceptKeeps
      <3>3. CASE ~Starts(q)
        <4>1. \/ ApplyWrite(q.task, q.developer)
              \/ RejectApplicationWrite(q.task, q.developer)
              \/ InviteWrite(q.task, q.developer)
              \/ AnswerInviteWrite(q.task, q.developer, "DECLINED")
              \/ AnswerInviteWrite(q.task, q.developer, "CANCELLED")
          BY <1>1, <2>4, <3>3 DEF HiringWrites, Starts
        <4> QED
          BY <2>2, <3>1, <3>3, <4>1, AnswersKeep
      <3> QED
        BY <3>2, <3>3
    <2> QED
      BY <2>3, <2>4
  <1>2. CASE DraftWrites(q)
    <2>1. ~Starts(q)
      BY <1>2 DEF DraftWrites, Starts
    <2>2. CASE q.op \in OnlyAProject
      <3>1. UpdateProjectWrite(q.project, q.choice) \/ DeleteProjectWrite(q.project)
        BY <1>2, <2>2 DEF DraftWrites, OnlyAProject
      <3> QED
        BY <2>1, <3>1, ProjectKeeps
    <2>3. CASE q.op \notin OnlyAProject
      <3>1. q.task \in Tasks /\ q.row.project \in Projects \cup {NoProject}
        BY <1>0, <2>3 DEF TaskRow
      <3>2. \/ CreateDraftWrite(q.task, q.project)
            \/ UpdateDraftWrite(q.task, q.project)
            \/ PublishWrite(q.task, q.row.project)
            \/ CloseWrite(q.task)
            \/ DeleteWrite(q.task)
            \/ ReportTaskWrite(q.task, q.choice)
            \/ ResolveTaskReportWrite(q.task, q.choice[1], q.choice[2], q.row)
        BY <1>2, <2>3 DEF DraftWrites, OnlyAProject
      <3> QED
        BY <1>0, <2>1, <3>1, <3>2, DraftKeeps, ReportKeeps
    <2> QED
      BY <2>2, <2>3
  <1>3. CASE WorkWrites(q)
    <2>1. ~Starts(q) /\ q.op \notin OnlyAProject
      BY <1>3 DEF WorkWrites, Starts, OnlyAProject
    <2>2. q.task \in Tasks
      BY <1>0, <2>1
    <2>3. CASE RejectCompletionWrite(q.task, q.row.rejectionCount + 1, q.found)
      <3>1. q.row.rejectionCount \in Nat /\ task[q.task].rejectionCount \in Nat
        BY <1>0, <2>2, OneTaskRow DEF TInv, TaskRow
      <3>2. q.row.rejectionCount <= task[q.task].rejectionCount
        BY <2>2 DEF Fits, SeenRight
      <3>3. /\ q.row.rejectionCount + 1 \in Nat \ {0}
            /\ q.row.rejectionCount + 1 <= task[q.task].rejectionCount + 1
        BY <3>1, <3>2
      <3> QED
        BY <2>1, <2>2, <2>3, <3>3, WorkKeeps
    <2>4. CASE \/ RequestCompletionWrite(q.task)
               \/ ConfirmWrite(q.task, q.found)
               \/ DisputeWrite(q.task)
               \/ ResolveWrite(q.task, q.found, q.choice) /\ q.choice \in ResolutionAction
               \/ ReviewWrite(q.task, q.choice)
      BY <2>1, <2>2, <2>4, DeadlineKeeps, WorkKeeps, ReportKeeps
    <2> QED
      BY <1>0, <1>3, <2>3, <2>4 DEF WorkWrites
  <1> QED
    BY <1>1, <1>2, <1>3

-----------------------------------------------------------------------------
(* The invariant, and the theorems *)

LEMMA InitInv == RequestsInit => OverlapInv
  <1> SUFFICES ASSUME RequestsInit PROVE OverlapInv
    OBVIOUS
  <1>1. NoTaskRow \in TaskRow
    BY DEF NoTaskRow, TaskRow, TaskStatus
  <1>2. Tables
    BY <1>1 DEF RequestsInit, Init, Tables, ApplicationStatus, InviteStatus, DisputeStatus
  <1>3. RejectionsCounted /\ DisputeHasOpenRow /\ ThreadWasTold
    BY DEF RequestsInit, Init, NoTaskRow, RejectionsCounted, DisputeHasOpenRow, ThreadWasTold
  <1>4. OutcomesWereTold
    BY ConstantsAssumption DEF RequestsInit, Init, NoTaskRow, OutcomesWereTold
  <1>5. RInv
    BY DEF RequestsInit, RInv
  <1> QED
    BY <1>2, <1>3, <1>4, <1>5 DEF OverlapInv, TInv

\* The other requests still fit, and the one that moved must.
LEMMA Moves ==
  ASSUME OverlapInv, Keeps, group' = group, NEW r \in Requests, NEW q, Goes(r, q),
         q # Idle => Fits(q)'
  PROVE  OverlapInv'
  <1>1. \A o \in Requests : req'[o] = IF o = r THEN q ELSE req[o]
    BY DEF OverlapInv, RInv, Goes
  <1>2. DOMAIN req' = Requests
    BY DEF OverlapInv, RInv, Goes
  <1>3. ASSUME NEW p, Fits(p) PROVE Fits(p)'
    BY <1>3, FitsGrows DEF OverlapInv
  <1>4. ASSUME NEW o \in Requests, req'[o] # Idle PROVE Fits(req[o])'
    <2> PICK p : p = req'[o]
      OBVIOUS
    <2>1. CASE o = r
      BY <1>1, <1>4, <2>1
    <2>2. CASE o # r
      <3>1. p = req[o] /\ req[o] # Idle
        BY <1>1, <1>4, <2>2
      <3>2. Fits(p)
        BY <3>1 DEF OverlapInv, RInv
      <3> QED
        BY <1>3, <3>2
    <2> QED
      BY <2>1, <2>2
  <1> QED
    BY <1>2, <1>4 DEF OverlapInv, RInv, Keeps

LEMMA ReadStep ==
  ASSUME OverlapInv, UNCHANGED <<vars, group>>, NEW r \in Requests, NEW q,
         Fits(q), q.reads \notin {<< >>, <<"chat">>}, Goes(r, AfterRead(q))
  PROVE  OverlapInv' /\ Keeps
  <1>1. Keeps
    BY NoRowWrite DEF OverlapInv, vars, taskTables, hiringTables
  <1> PICK p : p = AfterRead(q)
    OBVIOUS
  <1>2. Fits(p)
    BY AfterReadFits DEF OverlapInv
  <1>3. Fits(p)'
    BY <1>1, <1>2, FitsGrows DEF OverlapInv
  <1>4. Goes(r, p)
    OBVIOUS
  <1> QED
    BY <1>1, <1>3, <1>4, Moves

\* Where a request goes after its commit or its thread.
LEMMA WriteStep ==
  ASSUME OverlapInv, Keeps, group' = group, NEW r \in Requests, req[r] # Idle,
         \/ Goes(r, Idle)
         \/ /\ Starts(req[r]) /\ req[r].op \in AboutDeveloper
            /\ "APPLICATION_ACCEPTED" \in told'[req[r].task][req[r].developer]
            /\ Goes(r, [req[r] EXCEPT !.reads = <<"chat">>, !.app = "NONE"])
  PROVE  OverlapInv'
  <1>1. CASE Goes(r, Idle)
    BY <1>1, Moves
  <1>2. CASE /\ Starts(req[r]) /\ req[r].op \in AboutDeveloper
             /\ "APPLICATION_ACCEPTED" \in told'[req[r].task][req[r].developer]
             /\ Goes(r, [req[r] EXCEPT !.reads = <<"chat">>, !.app = "NONE"])
    <2> PICK q : q = req[r]
      OBVIOUS
    <2> PICK n : n = [q EXCEPT !.reads = <<"chat">>, !.app = "NONE"]
      OBVIOUS
    <2>1. Fits(q)
      BY DEF OverlapInv, RInv
    <2>2. Fits(q)'
      BY <2>1, FitsGrows DEF OverlapInv
    <2>3. q \in RequestRow
      BY <2>1 DEF Fits
    <2>4. /\ n \in RequestRow /\ n.reads = <<"chat">> /\ n.op = q.op /\ n.task = q.task
          /\ n.developer = q.developer /\ n.choice = q.choice /\ n.project = q.project
          /\ n.row = q.row
      BY <2>3 DEF RequestRow, ApplicationStatus
    <2>5. Fits(n)'
      <3>1. q.op \in AboutDeveloper /\ q.op \notin OnlyAProject
        BY <1>2 DEF AboutDeveloper, OnlyAProject
      <3> QED
        BY <1>2, <2>2, <2>4, <3>1 DEF Fits, Named, SeenRight
    <2>6. Goes(r, n)
      BY <1>2
    <2> QED
      BY <2>5, <2>6, Moves
  <1> QED
    BY <1>1, <1>2

LEMMA RequestStep ==
  ASSUME OverlapInv, group' = group, NEW r \in Requests,
         Begin(r) \/ Read(r) \/ Commit(r) \/ CreateThread(r) \/ GiveUp(r)
  PROVE  OverlapInv' /\ Keeps
  <1>1. CASE Begin(r)
    <2> PICK q \in Possible : Check(q) /\ Goes(r, AfterRead(q))
      BY <1>1 DEF Begin
    <2>1. Fits(q) /\ q.reads \notin {<< >>, <<"chat">>}
      BY PossibleFits DEF OverlapInv
    <2>2. UNCHANGED <<vars, group>>
      BY <1>1 DEF Begin
    <2> QED
      BY <2>1, <2>2, ReadStep
  <1>2. CASE Read(r)
    <2> PICK q : q = req[r]
      OBVIOUS
    <2>1. Fits(q) /\ q.reads \notin {<< >>, <<"chat">>} /\ Goes(r, AfterRead(q))
      BY <1>2 DEF Read, OverlapInv, RInv
    <2>2. UNCHANGED <<vars, group>>
      BY <1>2 DEF Read
    <2> QED
      BY <2>1, <2>2, ReadStep
  <1>3. CASE Commit(r)
    <2> PICK q : q = req[r]
      OBVIOUS
    <2>1. Fits(q)
      BY <1>3 DEF Commit, OverlapInv, RInv
    <2>2. HiringWrites(q) \/ DraftWrites(q) \/ WorkWrites(q)
      BY <1>3 DEF Commit
    <2>3. Keeps /\ (Starts(q) => "APPLICATION_ACCEPTED" \in told'[q.task][q.developer])
      BY <2>1, <2>2, CommitKeeps DEF OverlapInv
    <2>4. Starts(q) => q.op \in AboutDeveloper
      BY DEF Starts, AboutDeveloper
    <2>5. req[r] # Idle
      BY <1>3 DEF Commit
    <2>6. \/ ~Starts(q) /\ Goes(r, Idle)
          \/ Starts(q) /\ Goes(r, [req[r] EXCEPT !.reads = <<"chat">>, !.app = "NONE"])
      BY <1>3 DEF Commit
    <2> QED
      BY <2>3, <2>4, <2>5, <2>6, WriteStep
  <1>4. CASE CreateThread(r)
    <2>1. Fits(req[r])
      BY <1>4 DEF CreateThread, OverlapInv, RInv
    <2>2. /\ req[r].op \in AboutDeveloper
          /\ "APPLICATION_ACCEPTED" \in told[req[r].task][req[r].developer]
      BY <1>4, <2>1 DEF CreateThread, Fits, SeenRight
    <2>3. req[r].task \in Tasks /\ req[r].developer \in Developers
      BY <2>1, <2>2 DEF Fits, Named, AboutDeveloper, OnlyAProject
    <2>4. /\ GetOrCreateChatThread(req[r].task, req[r].developer)
          /\ UNCHANGED <<task, application, invite, dispute, rejections, told>>
          /\ Goes(r, Idle) /\ req[r] # Idle
      BY <1>4 DEF CreateThread, taskTables
    <2>5. Keeps
      BY <2>2, <2>3, <2>4, ThreadKeeps DEF OverlapInv
    <2> QED
      BY <2>4, <2>5, WriteStep
  <1>5. CASE GiveUp(r)
    <2>1. Keeps
      BY <1>5, NoRowWrite DEF GiveUp, OverlapInv, vars, taskTables, hiringTables
    <2> QED
      BY <1>5, <2>1, WriteStep DEF GiveUp
  <1> QED
    BY <1>1, <1>2, <1>3, <1>4, <1>5

LEMMA Inductive ==
  ASSUME OverlapInv, [RequestsNext]_reqVars
  PROVE  OverlapInv' /\ Keeps
  <1>1. ASSUME Keeps, UNCHANGED <<req, group>> PROVE OverlapInv'
    <2>1. ASSUME NEW p, Fits(p) PROVE Fits(p)'
      BY <1>1, <2>1, FitsGrows DEF OverlapInv
    <2>2. ASSUME NEW o \in Requests, req'[o] # Idle PROVE Fits(req[o])'
      <3> PICK p : p = req'[o]
        OBVIOUS
      <3>1. Fits(p)
        BY <1>1, <2>2 DEF OverlapInv, RInv
      <3> QED
        BY <2>1, <3>1
    <2> QED
      BY <1>1, <2>2 DEF OverlapInv, RInv, Keeps
  <1>2. CASE UNCHANGED reqVars
    <2>1. Keeps
      BY <1>2, NoRowWrite DEF reqVars, OverlapInv, vars, taskTables, hiringTables
    <2> QED
      BY <1>1, <1>2, <2>1 DEF reqVars
  <1>3. CASE Background /\ group' = group
    <2>1. \/ \E t \in Tasks : ResponseDeadlinePasses(t)
          \/ \E p \in group.projects, limit \in TalentLimits : CreateProject(p, limit)
      BY <1>3 DEF Background
    <2>2. Keeps
      BY <2>1, DeadlineKeeps, ProjectKeeps DEF OverlapInv
    <2>3. UNCHANGED <<req, group>>
      BY <1>3 DEF Background
    <2> QED
      BY <1>1, <2>2, <2>3
  <1>4. CASE /\ \E r \in Requests : Begin(r) \/ Read(r) \/ Commit(r) \/ CreateThread(r) \/ GiveUp(r)
             /\ group' = group
    BY <1>4, RequestStep
  <1> QED
    BY <1>2, <1>3, <1>4 DEF RequestsNext

THEOREM OverlapInvariance == RequestsSpec => []OverlapInv
  <1>1. OverlapInv /\ [RequestsNext]_reqVars => OverlapInv'
    BY Inductive
  <1> QED
    BY <1>1, InitInv, PTL DEF RequestsSpec

\* However many rejections of the same task overlap (completion.js:178), the log of
\* rejections is numbered without gaps up to the counter: the unique key makes one of two
\* that read the same counter fail as a whole.
THEOREM RejectionsCountedCorrect == RequestsSpec => []RejectionsCounted
  <1>1. OverlapInv => RejectionsCounted
    BY DEF OverlapInv, TInv
  <1> QED
    BY <1>1, OverlapInvariance, PTL

\* However many starts, applications, rejections and invites of one task overlap
\* (application.js:247), nobody is accepted or rejected without being notified.
THEOREM OutcomesWereToldCorrect == RequestsSpec => []OutcomesWereTold
  <1>1. OverlapInv => OutcomesWereTold
    BY DEF OverlapInv, TInv
  <1> QED
    BY <1>1, OverlapInvariance, PTL

\* However many disputes, answers, resolutions and deletions overlap, a task in DISPUTE has
\* an open dispute row: whoever closes it takes the task out of DISPUTE in the same
\* transaction.  It does not say that the row can be resolved: on a deleted task
\* resolveTaskDispute (dispute.js) answers 404.
THEOREM DisputeHasOpenRowCorrect == RequestsSpec => []DisputeHasOpenRow
  <1>1. OverlapInv => DisputeHasOpenRow
    BY DEF OverlapInv, TInv
  <1> QED
    BY <1>1, OverlapInvariance, PTL

\* A thread is created once, with somebody who had been accepted by then, even when two
\* accepts and a visit of the chat overlap (chat/index.js:33).
THEOREM ThreadForGoodCorrect == RequestsSpec => ThreadForGood
  <1>1. ASSUME OverlapInv, [RequestsNext]_reqVars
        PROVE  [\A t \in Tasks :
                  /\ thread[t] # NoDeveloper => thread'[t] = thread[t]
                  /\ thread'[t] # NoDeveloper =>
                       "APPLICATION_ACCEPTED" \in told'[t][thread'[t]]]_vars
    <2>1. Keeps
      BY <1>1, Inductive
    <2> QED
      BY <2>1 DEF Keeps, TInv, ThreadWasTold, Grows
  <1> QED
    BY <1>1, OverlapInvariance, PTL DEF RequestsSpec, ThreadForGood

-----------------------------------------------------------------------------
(* What late writers may overwrite *)

\* What a request has read of the task has passed its check; a request that never reads
\* the task remembers none.
Checked(q) ==
  /\ q.reads # <<"chat">> => Columns(q.reads) \subseteq RowsRead(q.op)
  /\ q.op \in TaskReaders /\ "task" \notin Columns(q.reads) => TaskCheck(q, q.row)
  /\ q.op \notin TaskReaders \cup {"ResolveTaskReport"} => ~q.row.deleted

LateInv ==
  /\ DOMAIN review = Tasks
  /\ \A r \in Requests : req[r] # Idle => Checked(req[r])

LEMMA ReportReaderIs ==
  /\ "ResolveTaskReport" \notin TaskReaders
  /\ \A op \in DOMAIN Reads : "report" \in RowsRead(op) => op = "ResolveTaskReport"
  <1>1. "ResolveTaskReport" \notin TaskReaders
    BY RowsOfDrafts DEF TaskReaders
  <1>2. ASSUME NEW op \in DOMAIN Reads, op # "ResolveTaskReport"
        PROVE  "report" \notin RowsRead(op)
    BY <1>2, RowsOfDrafts, RowsOfHiring, RowsOfWork DEF Reads
  <1> QED
    BY <1>1, <1>2

LEMMA PossibleChecked ==
  ASSUME TInv, RInv, NEW q \in Possible
  PROVE  Checked(q)
  <1>1. q.reads = Reads[q.op] /\ q.row = NoTaskRow /\ q.op \in DOMAIN Reads
    BY PossibleFits DEF Fits, RequestRow
  <1>2. Columns(q.reads) = RowsRead(q.op)
    BY <1>1 DEF RowsRead
  <1>3. ~q.row.deleted
    BY <1>1 DEF NoTaskRow
  <1> QED
    BY <1>2, <1>3 DEF Checked, TaskReaders

LEMMA ReadChecked ==
  ASSUME NEW q, Fits(q), Checked(q), q.reads \notin {<< >>, <<"chat">>}, Check(q),
         NEW n, n = AfterRead(q)
  PROVE  Checked(n)
  <1>1. q \in RequestRow /\ q.op \in DOMAIN Reads /\ q.reads \in Seq(Rows)
    BY DEF Fits, RequestRow
  <1>2. /\ n.op = q.op /\ n.developer = q.developer /\ n.reads = Tail(q.reads)
        /\ n.row = IF Head(q.reads) \in {"task", "report"} THEN task[q.task] ELSE q.row
    BY <1>1, ReadEffect
  <1>3. /\ Head(q.reads) \in Columns(q.reads)
        /\ Columns(n.reads) \subseteq Columns(q.reads)
    <2>1. q.reads[1] = Head(q.reads) /\ 1 \in 1..Len(q.reads)
      BY <1>1
    <2>2. ASSUME NEW i \in 1..Len(Tail(q.reads)) PROVE Tail(q.reads)[i] \in Columns(q.reads)
      <3>1. i + 1 \in 1..Len(q.reads) /\ Tail(q.reads)[i] = q.reads[i + 1]
        BY <1>1
      <3> QED
        BY <3>1 DEF Columns
    <2> QED
      BY <1>2, <2>1, <2>2 DEF Columns
  <1>4. Columns(q.reads) \subseteq RowsRead(q.op)
    BY DEF Checked
  <1>5. ASSUME n.op \in TaskReaders, "task" \notin Columns(n.reads) PROVE TaskCheck(n, n.row)
    <2>1. TaskCheck(q, n.row)
      <3>1. CASE Head(q.reads) = "task"
        BY <1>2, <3>1 DEF Check
      <3>2. CASE Head(q.reads) # "task"
        <4>1. "task" \notin Columns(q.reads)
          BY <1>1, <1>2, <1>5, <3>2, ColumnsOfTail
        <4>2. Head(q.reads) # "report"
          BY <1>1, <1>2, <1>3, <1>4, <1>5, ReportReaderIs
        <4> QED
          BY <1>2, <1>5, <3>2, <4>1, <4>2 DEF Checked
      <3> QED
        BY <3>1, <3>2
    <2> QED
      BY <1>2, <2>1 DEF TaskCheck
  <1>6. ASSUME n.op \notin TaskReaders \cup {"ResolveTaskReport"} PROVE ~n.row.deleted
    <2>1. Head(q.reads) \notin {"task", "report"}
      BY <1>1, <1>2, <1>3, <1>4, <1>6, ReportReaderIs DEF TaskReaders
    <2> QED
      BY <1>2, <1>6, <2>1 DEF Checked
  <1> QED
    BY <1>2, <1>3, <1>4, <1>5, <1>6 DEF Checked

LEMMA StartChecked ==
  ASSUME NEW q, Fits(q), Checked(q), Starts(q), q.reads = << >>,
         NEW n, n = [q EXCEPT !.reads = <<"chat">>, !.app = "NONE"]
  PROVE  Checked(n)
  <1>1. /\ n.op = q.op /\ n.developer = q.developer /\ n.row = q.row /\ n.reads = <<"chat">>
    BY DEF Fits, RequestRow
  <1>2. q.op \in TaskReaders
    BY RowsOfHiring DEF TaskReaders, Starts, Fits, RequestRow
  <1>3. TaskCheck(q, q.row)
    BY <1>2, ColumnsOfTuple DEF Checked
  <1> QED
    BY <1>1, <1>2, <1>3 DEF Checked, TaskCheck

\* The rows of task t that make up its substance.
SameTask(t) ==
  /\ task'[t] = task[t] /\ dispute'[t] = dispute[t] /\ rejections'[t] = rejections[t]
  /\ review'[t] = review[t] /\ application'[t] = application[t] /\ invite'[t] = invite[t]

LEMMA SameTaskSame == ASSUME NEW t, SameTask(t) PROVE Substance(t)' = Substance(t)
  BY DEF SameTask, Substance

\* A handler other than DeleteProject writes only about its own task.
LEMMA OthersSpared ==
  ASSUME TInv, DOMAIN review = Tasks, NEW q, Fits(q), q.op # "DeleteProject",
         HiringWrites(q) \/ DraftWrites(q) \/ WorkWrites(q),
         NEW t \in Tasks, t # q.task
  PROVE  SameTask(t)
  <1>1. /\ DOMAIN task = Tasks /\ DOMAIN dispute = Tasks /\ DOMAIN rejections = Tasks
        /\ DOMAIN application = Tasks /\ DOMAIN invite = Tasks
    BY DEF TInv, Tables
  <1>2. CASE HiringWrites(q)
    <2>1. /\ UNCHANGED <<dispute, rejections, review>>
          /\ task'[t] = task[t] /\ application'[t] = application[t] /\ invite'[t] = invite[t]
      BY <1>1, <1>2 DEF HiringWrites, ApplyWrite, AcceptApplicationWrite, AcceptInviteWrite,
         StartWrite, RejectApplicationWrite, InviteWrite, AnswerInviteWrite, taskTables
    <2> QED
      BY <2>1 DEF SameTask
  <1>3. CASE DraftWrites(q)
    <2>1. /\ UNCHANGED <<dispute, rejections, review, application, invite>>
          /\ task'[t] = task[t]
      BY <1>1, <1>3 DEF DraftWrites, CreateDraftWrite, UpdateDraftWrite, PublishWrite,
         CloseWrite, DeleteWrite, ReportTaskWrite, ResolveTaskReportWrite, UpdateProjectWrite,
         taskTables, hiringTables
    <2> QED
      BY <2>1 DEF SameTask
  <1>4. CASE WorkWrites(q)
    <2>1. UNCHANGED <<application, invite>>
      BY <1>4 DEF WorkWrites, RequestCompletionWrite, RejectCompletionWrite, ConfirmWrite,
         DisputeWrite, ResolveWrite, ReviewWrite, hiringTables
    <2>2. /\ task'[t] = task[t] /\ dispute'[t] = dispute[t]
          /\ rejections'[t] = rejections[t] /\ review'[t] = review[t]
      BY <1>1, <1>4 DEF WorkWrites, RequestCompletionWrite, RejectCompletionWrite, ConfirmWrite,
         DisputeWrite, ResolveWrite, ReviewWrite, Resolve, taskTables
    <2> QED
      BY <2>1, <2>2 DEF SameTask
  <1> QED
    BY <1>2, <1>3, <1>4

\* What a commit may do to a deleted task, to the developer of a task, and to its start.
LEMMA CommitIsLate ==
  ASSUME TInv, DOMAIN review = Tasks, NEW q, Fits(q), Checked(q), q.reads = << >>,
         HiringWrites(q) \/ DraftWrites(q) \/ WorkWrites(q), NEW t \in Tasks
  PROVE  /\ task[t].deleted /\ ~SameTask(t) =>
              q.task = t /\ (~q.row.deleted \/ Starts(q))
         /\ task[t].accepted # NoDeveloper /\ task'[t].accepted # task[t].accepted =>
              q.task = t /\ Starts(q) /\ q.row.accepted = NoDeveloper
         /\ task[t].status \in Started /\ task'[t].status \notin Started =>
              \/ q.op \in {"ResolveTaskReport", "DeleteProject"}
              \/ q.task = t /\ q.row.status \notin Started
  <1>0. q.op \in DOMAIN Reads /\ task \in [Tasks -> TaskRow]
    BY DEF Fits, RequestRow, TInv, Tables
  <1>1. q.op \in TaskReaders => TaskCheck(q, q.row)
    BY ColumnsOfTuple DEF Checked
  <1>2. CASE q.op = "DeleteProject"
    <2>1. /\ UNCHANGED <<dispute, rejections, review, application, invite>>
          /\ ArchiveWrite(q.project)
      BY <1>2 DEF HiringWrites, DraftWrites, WorkWrites, DeleteProjectWrite, taskTables,
         hiringTables
    <2>2. /\ task'[t].accepted = task[t].accepted
          /\ task[t].deleted => task'[t] = task[t]
      BY <1>0, <2>1 DEF ArchiveWrite, Deleted, Live, TaskRow
    <2> QED
      BY <1>2, <2>1, <2>2 DEF SameTask
  <1>3. CASE q.op # "DeleteProject" /\ t # q.task
    <2>1. SameTask(t)
      BY <1>3, OthersSpared
    <2> QED
      BY <2>1 DEF SameTask
  <1>4. CASE q.op # "DeleteProject" /\ t = q.task
    <2>1. ASSUME task[t].deleted, ~SameTask(t) PROVE ~q.row.deleted \/ Starts(q)
      <3>1. CASE q.op \in TaskReaders
        <4>1. Live(q.row) \/ Starts(q)
          BY <1>1, <3>1, TaskReadersAre DEF TaskCheck, MayUpdateDraft, MayPublish, MayClose,
             MayDelete, MayApply, MayInvite, MayCreateThread, MayRequestCompletion,
             MayAnswerCompletion, MayOpenDispute, MayEscalate, MayReview, Starts
        <4> QED
          BY <4>1 DEF Live
      <3>2. CASE q.op = "ResolveTaskReport"
        <4>1. ResolveTaskReportWrite(q.task, q.choice[1], q.choice[2], q.row)
          BY <3>2 DEF HiringWrites, DraftWrites, WorkWrites
        <4>2. UNCHANGED <<dispute, rejections, review, application, invite>>
          BY <4>1 DEF ResolveTaskReportWrite, hiringTables
        <4>3. Live(q.row)
          BY <2>1, <4>1, <4>2 DEF ResolveTaskReportWrite, SameTask
        <4> QED
          BY <4>3 DEF Live
      <3>3. CASE q.op \notin TaskReaders \cup {"ResolveTaskReport"}
        BY <3>3 DEF Checked
      <3> QED
        BY <3>1, <3>2, <3>3
    <2>2. task[t] \in TaskRow
      BY <1>0
    <2>3. ASSUME Starts(q)
          PROVE  /\ task'[t].status = "IN_PROGRESS"
                 /\ q.row.accepted = NoDeveloper
      <3>1. task'[t] = [task[t] EXCEPT !.status = "IN_PROGRESS", !.accepted = q.developer]
        BY <1>0, <1>4, <2>3 DEF HiringWrites, DraftWrites, WorkWrites, Starts,
           AcceptApplicationWrite, AcceptInviteWrite, StartWrite
      <3>2. q.op \in TaskReaders
        BY <1>0, <2>3, RowsOfHiring DEF TaskReaders, Starts
      <3>3. MayStart(q.row)
        BY <1>1, <2>3, <3>2 DEF TaskCheck, Starts
      <3> QED
        BY <2>2, <3>1, <3>3 DEF MayStart, TaskRow
    <2>4. CASE Starts(q)
      BY <1>4, <2>1, <2>3, <2>4 DEF Started
    <2>5. ASSUME ~Starts(q) PROVE task'[t].accepted = task[t].accepted
      <3>1. CASE HiringWrites(q)
        BY <2>5, <3>1 DEF HiringWrites, Starts, ApplyWrite, RejectApplicationWrite, InviteWrite,
           AnswerInviteWrite
      <3>2. CASE DraftWrites(q)
        BY <1>0, <1>4, <2>2, <3>2 DEF DraftWrites, CreateDraftWrite, UpdateDraftWrite,
           PublishWrite, CloseWrite, DeleteWrite, ReportTaskWrite, ResolveTaskReportWrite,
           UpdateProjectWrite, Deleted, TaskRow
      <3>3. CASE WorkWrites(q)
        BY <1>0, <1>4, <2>2, <3>3 DEF WorkWrites, RequestCompletionWrite,
           RejectCompletionWrite, ConfirmWrite, DisputeWrite, ResolveWrite, ReviewWrite, TaskRow
      <3> QED
        BY <3>1, <3>2, <3>3
    <2>6. ASSUME ~Starts(q), q.op # "ResolveTaskReport",
                 task[t].status \in Started, task'[t].status \notin Started
          PROVE  q.row.status \notin Started
      <3>1. CASE HiringWrites(q)
        BY <2>6, <3>1 DEF HiringWrites, Starts, ApplyWrite, RejectApplicationWrite, InviteWrite,
           AnswerInviteWrite
      <3>2. CASE DraftWrites(q)
        <4>1. CASE q.op \in {"PublishTask", "CloseTask", "DeleteTask"}
          <5>1. q.op \in TaskReaders
            BY <1>0, <4>1, RowsOfDrafts DEF TaskReaders
          <5>2. q.row.status \in NotStarted
            BY <1>1, <4>1, <5>1 DEF TaskCheck, MayPublish, MayClose, MayDelete, NotStarted
          <5> QED
            BY <5>2 DEF Started, NotStarted
        <4>2. CASE q.op \notin {"PublishTask", "CloseTask", "DeleteTask"}
          <5>1. CASE q.op = "CreateTaskDraft"
            BY <1>4, <2>6, <3>2, <5>1 DEF DraftWrites, CreateDraftWrite, Started
          <5>2. CASE q.op = "UpdateTaskDraft"
            BY <1>0, <1>4, <2>2, <2>6, <3>2, <5>2 DEF DraftWrites, UpdateDraftWrite, TaskRow
          <5> QED
            BY <1>4, <2>6, <3>2, <4>2, <5>1, <5>2 DEF DraftWrites, ReportTaskWrite,
               UpdateProjectWrite
        <4> QED
          BY <4>1, <4>2
      <3>3. CASE WorkWrites(q)
        <4>1. CASE q.op = "RejectCompletion"
          BY <1>0, <1>4, <2>2, <2>6, <3>3, <4>1 DEF WorkWrites, RejectCompletionWrite,
             StatusAfterRejection, Started, TaskRow
        <4>2. CASE q.op = "ResolveDispute"
          <5>1. q.choice \in ResolutionAction
            BY <4>2 DEF Fits, Named, WithAChoice, Choices
          <5> QED
            BY <1>0, <1>4, <2>2, <2>6, <3>3, <4>2, <5>1 DEF WorkWrites, ResolveWrite,
               StatusAfterResolution, ResolutionAction, Started, TaskRow
        <4>3. CASE q.op \notin {"RejectCompletion", "ResolveDispute"}
          BY <1>0, <1>4, <2>2, <2>6, <3>3, <4>3 DEF WorkWrites, RequestCompletionWrite,
             ConfirmWrite, DisputeWrite, ReviewWrite, Started, TaskRow
        <4> QED
          BY <4>1, <4>2, <4>3
      <3> QED
        BY <3>1, <3>2, <3>3
    <2>7. CASE ~Starts(q)
      BY <1>4, <2>1, <2>5, <2>6, <2>7
    <2> QED
      BY <2>4, <2>7
  <1> QED
    BY <1>2, <1>3, <1>4

LEMMA LateInit == RequestsInit => LateInv
  BY DEF RequestsInit, Init, LateInv

\* No statement changes whom reviews are kept for.
LEMMA ReviewRows ==
  ASSUME NEW q, HiringWrites(q) \/ DraftWrites(q) \/ WorkWrites(q)
  PROVE  DOMAIN review' = DOMAIN review
  <1>1. CASE HiringWrites(q)
    BY <1>1 DEF HiringWrites, ApplyWrite, AcceptApplicationWrite, AcceptInviteWrite,
       RejectApplicationWrite, InviteWrite, AnswerInviteWrite, taskTables
  <1>2. CASE DraftWrites(q)
    BY <1>2 DEF DraftWrites, CreateDraftWrite, UpdateDraftWrite, PublishWrite,
       CloseWrite, DeleteWrite, ReportTaskWrite, ResolveTaskReportWrite, UpdateProjectWrite,
       DeleteProjectWrite, taskTables
  <1>3. CASE WorkWrites(q)
    BY <1>3 DEF WorkWrites, RequestCompletionWrite, RejectCompletionWrite, ConfirmWrite,
       DisputeWrite, ResolveWrite, ReviewWrite, taskTables
  <1> QED
    BY <1>1, <1>2, <1>3

\* The clock, a new project, a read and a thread leave every substance as it is.
LEMMA QuietStep ==
  ASSUME TInv, UNCHANGED vars \/ Background \/ \E r \in Requests : CreateThread(r),
         NEW t \in Tasks
  PROVE  /\ UNCHANGED review
         /\ Substance(t)' = Substance(t)
         /\ task'[t].accepted = task[t].accepted /\ task'[t].status = task[t].status
  <1>1. ASSUME UNCHANGED <<task, dispute, rejections, review, application, invite>>
        PROVE  /\ UNCHANGED review
               /\ Substance(t)' = Substance(t)
               /\ task'[t].accepted = task[t].accepted /\ task'[t].status = task[t].status
    BY <1>1, SameTaskSame DEF SameTask
  <1>2. CASE UNCHANGED vars
    BY <1>1, <1>2 DEF vars, taskTables, hiringTables
  <1>3. CASE \E r \in Requests : CreateThread(r)
    BY <1>1, <1>3 DEF CreateThread, taskTables
  <1>4. CASE \E p \in group.projects, limit \in TalentLimits : CreateProject(p, limit)
    BY <1>1, <1>4 DEF CreateProject, taskTables, hiringTables
  <1>5. CASE \E x \in Tasks : ResponseDeadlinePasses(x)
    <2>1. /\ UNCHANGED <<dispute, rejections, review, application, invite>>
          /\ task'[t] = task[t] \/ task'[t] = [task[t] EXCEPT !.deadline = "passed"]
      BY <1>5 DEF ResponseDeadlinePasses, TInv, Tables, taskTables, hiringTables
    <2>2. task[t] \in TaskRow
      BY OneTaskRow DEF TInv
    <2>3. /\ [task'[t] EXCEPT !.deadline = "none"] = [task[t] EXCEPT !.deadline = "none"]
          /\ task'[t].accepted = task[t].accepted /\ task'[t].status = task[t].status
      BY <2>1, <2>2 DEF TaskRow
    <2> QED
      BY <2>1, <2>3 DEF Substance
  <1> QED
    BY <1>2, <1>3, <1>4, <1>5 DEF Background

LEMMA LateStep ==
  ASSUME OverlapInv, LateInv, [RequestsNext]_reqVars
  PROVE  LateInv'
  <1>1. ASSUME NEW r \in Requests, NEW q, Goes(r, q), q # Idle => Checked(q),
               DOMAIN review' = DOMAIN review
        PROVE  LateInv'
    <2>1. \A o \in Requests : req'[o] = IF o = r THEN q ELSE req[o]
      BY <1>1 DEF OverlapInv, RInv, Goes
    <2> QED
      BY <1>1, <2>1 DEF LateInv, Checked
  <1>2. CASE UNCHANGED reqVars
    BY <1>2 DEF reqVars, vars, taskTables, LateInv, Checked
  <1>3. CASE Background
    <2>1. UNCHANGED req
      BY <1>3 DEF Background
    <2>2. UNCHANGED review
      BY <1>3 DEF Background, ResponseDeadlinePasses, CreateProject, taskTables
    <2> QED
      BY <2>1, <2>2 DEF LateInv, Checked
  <1>4. ASSUME NEW r \in Requests, Begin(r) PROVE LateInv'
    <2> PICK q \in Possible : Check(q) /\ Goes(r, AfterRead(q))
      BY <1>4 DEF Begin
    <2> PICK n : n = AfterRead(q)
      OBVIOUS
    <2>1. Fits(q) /\ q.reads \notin {<< >>, <<"chat">>} /\ Checked(q)
      BY PossibleFits, PossibleChecked DEF OverlapInv
    <2>2. Checked(n)
      BY <2>1, ReadChecked
    <2>3. UNCHANGED review
      BY <1>4 DEF Begin, vars, taskTables
    <2> QED
      BY <1>1, <2>2, <2>3
  <1>5. ASSUME NEW r \in Requests, Read(r) PROVE LateInv'
    <2> PICK q : q = req[r]
      OBVIOUS
    <2> PICK n : n = AfterRead(q)
      OBVIOUS
    <2>1. Fits(q) /\ Checked(q) /\ q.reads \notin {<< >>, <<"chat">>} /\ Check(q) /\ Goes(r, n)
      BY <1>5 DEF Read, OverlapInv, RInv, LateInv
    <2>2. Checked(n)
      BY <2>1, ReadChecked
    <2>3. UNCHANGED review
      BY <1>5 DEF Read, vars, taskTables
    <2> QED
      BY <1>1, <2>1, <2>2, <2>3
  <1>6. ASSUME NEW r \in Requests, Commit(r) PROVE LateInv'
    <2> PICK q : q = req[r]
      OBVIOUS
    <2> PICK n : n = [q EXCEPT !.reads = <<"chat">>, !.app = "NONE"]
      OBVIOUS
    <2>1. /\ Fits(q) /\ Checked(q) /\ q.reads = << >>
          /\ HiringWrites(q) \/ DraftWrites(q) \/ WorkWrites(q)
          /\ Goes(r, IF Starts(q) THEN n ELSE Idle)
      BY <1>6 DEF Commit, OverlapInv, RInv, LateInv
    <2>2. DOMAIN review' = DOMAIN review
      BY <2>1, ReviewRows
    <2>3. CASE Starts(q)
      BY <1>1, <2>1, <2>2, <2>3, StartChecked
    <2>4. CASE ~Starts(q)
      BY <1>1, <2>1, <2>2, <2>4
    <2> QED
      BY <2>3, <2>4
  <1>7. ASSUME NEW r \in Requests, CreateThread(r) \/ GiveUp(r) PROVE LateInv'
    <2>1. Goes(r, Idle) /\ UNCHANGED review
      BY <1>7 DEF CreateThread, GiveUp, vars, taskTables
    <2> QED
      BY <1>1, <2>1
  <1> QED
    BY <1>2, <1>3, <1>4, <1>5, <1>6, <1>7 DEF RequestsNext

\* Publishing, closing, deleting, archiving, moderating and starting overlap and write by id
\* what they had checked before (task-drafts.js:120): a deleted task is changed only by a
\* request that saw it undeleted or by an accept (application.js:247, which does not look at
\* deletedAt), a developer is replaced only by an accept that saw none, and a started task
\* falls back only through a request that saw it not started, a moderator or its project.
THEOREM OnlyLateWritersCorrect == RequestsSpec => OnlyLateWriters
  <1> DEFINE Late(t) ==
        /\ task[t].deleted /\ Substance(t)' # Substance(t) =>
             \E r \in Requests : /\ Commit(r) /\ req[r].task = t
                                 /\ ~req[r].row.deleted \/ Starts(req[r])
        /\ task[t].accepted # NoDeveloper /\ task'[t].accepted # task[t].accepted =>
             \E r \in Requests : /\ Commit(r) /\ req[r].task = t
                                 /\ Starts(req[r]) /\ req[r].row.accepted = NoDeveloper
        /\ task[t].status \in Started /\ task'[t].status \notin Started =>
             \E r \in Requests : /\ Commit(r)
                                 /\ \/ req[r].op \in {"ResolveTaskReport", "DeleteProject"}
                                    \/ req[r].task = t /\ req[r].row.status \notin Started
  <1>1. LateInv /\ OverlapInv /\ [RequestsNext]_reqVars => LateInv'
    BY LateStep
  <1>2. ASSUME LateInv, OverlapInv, [RequestsNext]_reqVars PROVE [\A t \in Tasks : Late(t)]_vars
    <2> SUFFICES ASSUME NEW t \in Tasks PROVE Late(t)
      OBVIOUS
    <2>1. TInv
      BY <1>2 DEF OverlapInv
    <2>2. CASE \E r \in Requests : Commit(r)
      <3> PICK r \in Requests : Commit(r)
        BY <2>2
      <3> PICK q : q = req[r]
        OBVIOUS
      <3>1. /\ Fits(q) /\ Checked(q) /\ q.reads = << >> /\ DOMAIN review = Tasks
            /\ HiringWrites(q) \/ DraftWrites(q) \/ WorkWrites(q)
        BY <1>2 DEF Commit, OverlapInv, RInv, LateInv
      <3>2. /\ task[t].deleted /\ ~SameTask(t) =>
                 q.task = t /\ (~q.row.deleted \/ Starts(q))
            /\ task[t].accepted # NoDeveloper /\ task'[t].accepted # task[t].accepted =>
                 q.task = t /\ Starts(q) /\ q.row.accepted = NoDeveloper
            /\ task[t].status \in Started /\ task'[t].status \notin Started =>
                 \/ q.op \in {"ResolveTaskReport", "DeleteProject"}
                 \/ q.task = t /\ q.row.status \notin Started
        BY <2>1, <3>1, CommitIsLate
      <3> QED
        BY <3>2, SameTaskSame
    <2>3. CASE UNCHANGED vars \/ Background \/ \E r \in Requests : CreateThread(r)
      BY <2>1, <2>3, QuietStep
    <2> QED
      BY <1>2, <2>2, <2>3 DEF RequestsNext, reqVars, Begin, Read, GiveUp
  <1>3. [\A t \in Tasks : Late(t)]_vars =>
          [\A t \in Tasks :
             /\ task[t].deleted /\ Substance(t)' # Substance(t) =>
                  \E r \in Requests : /\ Commit(r) /\ req[r].task = t
                                      /\ ~req[r].row.deleted \/ Starts(req[r])
             /\ task[t].accepted # NoDeveloper /\ task'[t].accepted # task[t].accepted =>
                  \E r \in Requests : /\ Commit(r) /\ req[r].task = t
                                      /\ Starts(req[r]) /\ req[r].row.accepted = NoDeveloper
             /\ task[t].status \in Started /\ task'[t].status \notin Started =>
                  \E r \in Requests : /\ Commit(r)
                                      /\ \/ req[r].op \in {"ResolveTaskReport", "DeleteProject"}
                                         \/ req[r].task = t /\ req[r].row.status \notin Started]_vars
    OBVIOUS
  <1> HIDE DEF Late
  <1> QED
    BY <1>1, <1>2, <1>3, LateInit, OverlapInvariance, PTL DEF RequestsSpec, OnlyLateWriters
=============================================================================
