--------------------------- MODULE TaskLifecycle ---------------------------
(***************************************************************************)
(* What a client may rely on about the life of a task: which status        *)
(* follows which, who works on the task, how many times a completion may   *)
(* be rejected, and whether a dispute is open.  These are the arrows that  *)
(* the handlers' guards and writes allow, without the applications,        *)
(* invites, projects and deadlines that decide when one is taken.          *)
(* TaskWorkflow.tla implements it.                                         *)
(***************************************************************************)
EXTENDS Naturals

CONSTANTS Tasks, Developers, NoDeveloper, MaxRejections

VARIABLES
  stage,      \* the status of each task, "ABSENT" before it is created
  worker,     \* the developer who has it, NoDeveloper before anyone does
  attempts,   \* rejected completions so far
  contested   \* a dispute is open

vars == <<stage, worker, attempts, contested>>

Init ==
  /\ stage     = [t \in Tasks |-> "ABSENT"]
  /\ worker    = [t \in Tasks |-> NoDeveloper]
  /\ attempts  = [t \in Tasks |-> 0]
  /\ contested = [t \in Tasks |-> FALSE]

Move(t, from, to) == stage[t] \in from /\ stage' = [stage EXCEPT ![t] = to]

\* DRAFT -> PUBLISHED, DRAFT/PUBLISHED -> CLOSED, and the owner's delete.
Prepare(t) ==
  /\ \/ Move(t, {"ABSENT"}, "DRAFT")
     \/ Move(t, {"DRAFT"}, "PUBLISHED")
     \/ Move(t, {"DRAFT", "PUBLISHED"}, "CLOSED")
  /\ UNCHANGED <<worker, attempts, contested>>

\* One developer gets the task, once, by an application or by an invite.
Hire(t) ==
  /\ Move(t, {"PUBLISHED"}, "IN_PROGRESS")
  /\ worker[t] = NoDeveloper
  /\ \E d \in Developers : worker' = [worker EXCEPT ![t] = d]
  /\ UNCHANGED <<attempts, contested>>

\* IN_PROGRESS/DISPUTE -> COMPLETION_REQUESTED; an open dispute stays open.
RequestCompletion(t) ==
  /\ Move(t, {"IN_PROGRESS", "DISPUTE"}, "COMPLETION_REQUESTED")
  /\ UNCHANGED <<worker, attempts, contested>>

\* Rejections 1 and 2 return the task to IN_PROGRESS, the third makes it FAILED.
RejectCompletion(t) ==
  /\ attempts' = [attempts EXCEPT ![t] = @ + 1]
  /\ Move(t, {"COMPLETION_REQUESTED"},
          IF attempts[t] + 1 < MaxRejections THEN "IN_PROGRESS" ELSE "FAILED")
  /\ contested' = [contested EXCEPT ![t] = FALSE]
  /\ UNCHANGED worker

ConfirmCompletion(t) ==
  /\ Move(t, {"COMPLETION_REQUESTED"}, "COMPLETED")
  /\ contested' = [contested EXCEPT ![t] = FALSE]
  /\ UNCHANGED <<worker, attempts>>

\* The company disputes a running task, the developer an unanswered request.
OpenDispute(t) ==
  /\ Move(t, {"IN_PROGRESS", "COMPLETION_REQUESTED"}, "DISPUTE")
  /\ ~contested[t]
  /\ contested' = [contested EXCEPT ![t] = TRUE]
  /\ UNCHANGED <<worker, attempts>>

\* A moderator decides an open dispute of a task that is not finished.
ResolveDispute(t) ==
  /\ contested[t]
  /\ \E to \in {"IN_PROGRESS", "FAILED", "COMPLETED"} :
       Move(t, {"DISPUTE", "COMPLETION_REQUESTED"}, to)
  /\ contested' = [contested EXCEPT ![t] = FALSE]
  /\ UNCHANGED <<worker, attempts>>

\* The owner, a moderator, or the deletion of the whole project.
Remove(S) ==
  /\ \A t \in S : stage[t] \notin {"ABSENT", "DELETED"}
  /\ stage' = [t \in Tasks |-> IF t \in S THEN "DELETED" ELSE stage[t]]
  /\ UNCHANGED <<worker, attempts, contested>>

Next ==
  \/ \E t \in Tasks :
       \/ Prepare(t) \/ Hire(t)
       \/ RequestCompletion(t) \/ RejectCompletion(t) \/ ConfirmCompletion(t)
       \/ OpenDispute(t) \/ ResolveDispute(t)
  \/ \E S \in SUBSET Tasks : Remove(S)

Spec == Init /\ [][Next]_vars
=============================================================================
