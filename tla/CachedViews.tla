---------------------------- MODULE CachedViews ----------------------------
(***************************************************************************)
(* The read-through caches of src/cache in front of five lists, while the  *)
(* handlers of TaskRequests.tla run.                                       *)
(*                                                                         *)
(* A reader that misses reads the tables and then stores what it read with *)
(* a time to live; a handler that changed a list deletes its keys after    *)
(* its commit.  These are separate steps without a common lock: a reader   *)
(* may store what it read before the deletion, a crash or a Redis error    *)
(* may swallow the deletion, and some handlers never ask for it.  Only one *)
(* list is watched in a behaviour, chosen at the start, since lists do not *)
(* share keys; NoRedis stands for a client that is not connected, with     *)
(* which every operation of the cache is a no-op.  The count of candidates *)
(* is cached but never used to answer, and left out.                       *)
(***************************************************************************)
EXTENDS TaskRequests, TaskViews

CONSTANT Scenes   \* a list to watch, and who takes part: [view, group]

VARIABLES
  watched,  \* the list whose cache entry is modelled
  cached,   \* its cache entry: {} or one entry
  fill,     \* what a reader that missed holds and has not stored yet: {} or one entry
  pending   \* a handler has committed a change and still has to delete the key

cacheVars  == <<watched, cached, fill, pending>>
cachedVars == <<reqVars, cacheVars>>

NoRedis == <<"nothing", NoDeveloper>>

\* The name of a list, and whose it is.
Views == {<<"public tasks", NoDeveloper>>, <<"public projects", NoDeveloper>>}
  \cup {<<"task invites", t>> : t \in Tasks}
  \cup ({"my invites", "my threads"} \X Developers)

ASSUME ScenesAssumption ==
  \A s \in Scenes : s.view \in Views \cup {NoRedis} /\ s.group \in Groups

\* What the list would answer now.
Value(v) ==
  CASE v[1] = "public tasks"    -> TasksCatalog
    [] v[1] = "public projects" -> ProjectsCatalog
    [] v[1] = "task invites"    -> {<<d, invite[v[2]][d]>> : d \in Developers}
    [] v[1] = "my invites"      -> {<<t, invite[t][v[2]]>> : t \in Tasks}
    [] v[1] = "my threads"      -> {<<t, task[t].status>> : t \in MyThreads(v[2])}

\* why is history: what happened since the value was read that may have made it old
\* for good.
Entry(value) == [value |-> value, why |-> "nothing"]

Spoil(entries, why) == {[e EXCEPT !.why = why] : e \in entries}

CachedInit ==
  /\ RequestsInit
  /\ \E s \in Scenes : group = s.group /\ watched = s.view
  /\ cached = {} /\ fill = {} /\ pending = FALSE

-----------------------------------------------------------------------------
(* Who deletes which keys after a commit *)

\* Mutant: closeTask leaves the catalogue alone.
OpsInvalidatingPublicTasksButClose ==
  {"UpdateTaskDraft", "PublishTask", "DeleteTask", "AcceptApplication", "AcceptInvite"}

OpsInvalidatingPublicTasks ==
  {"UpdateTaskDraft", "PublishTask", "CloseTask", "DeleteTask",
   "AcceptApplication", "AcceptInvite"}

InvalidatesPublicTasks(q) ==
  \/ q.op \in OpsInvalidatingPublicTasks
  \/ q.op = "ResolveTaskReport" /\ q.choice[2] = "DELETE"

InvalidatesPublicProjects(q) == q.op \in {"UpdateProject", "DeleteProject"}

OpsInvalidatingInvites == {"CreateTaskInvite", "AcceptInvite", "DeclineInvite", "CancelInvite"}

InvalidatesTaskInvites(q, t) == q.op \in OpsInvalidatingInvites /\ q.task = t
InvalidatesMyInvites(q, d)   == q.op \in OpsInvalidatingInvites /\ q.developer = d

\* Only the requests that create the thread do; d is its developer.
InvalidatesMyThreads(q, d) ==
  \/ q.op = "GetThreadByTaskId" /\ q.row.accepted = d
  \/ q.reads = <<"chat">> /\ q.developer = d

Invalidates(q, v) ==
  CASE v[1] = "public tasks"    -> InvalidatesPublicTasks(q)
    [] v[1] = "public projects" -> InvalidatesPublicProjects(q)
    [] v[1] = "task invites"    -> InvalidatesTaskInvites(q, v[2])
    [] v[1] = "my invites"      -> InvalidatesMyInvites(q, v[2])
    [] v[1] = "my threads"      -> InvalidatesMyThreads(q, v[2])
    [] OTHER                    -> FALSE

\* The changes of a list that no handler follows up: a deleted project takes its tasks
\* out of the public catalogue, an accepted invite cancels those of other developers,
\* and the status of a task decides whether its thread is listed.
Forgotten ==
  ({"public tasks"} \X {"DeleteProject"})
  \cup ({"my invites"} \X {"AcceptInvite"})
  \cup ({"my threads"} \X {"RequestCompletion", "RejectCompletion", "ConfirmCompletion",
                           "OpenDispute", "EscalateDispute", "ResolveDispute",
                           "DeleteProject", "ResolveTaskReport"})

\* The commit of request q, seen by the cache.
Committed(q) ==
  /\ UNCHANGED watched
  /\ pending' = (pending \/ Invalidates(q, watched))
  /\ IF /\ ~Invalidates(q, watched)
        /\ <<watched[1], q.op>> \in Forgotten
        /\ Value(watched)' # Value(watched)
     THEN cached' = Spoil(cached, "forgotten") /\ fill' = Spoil(fill, "forgotten")
     ELSE UNCHANGED <<cached, fill>>

-----------------------------------------------------------------------------
(* The cache itself *)

\* A reader misses: the answer is computed from the tables.
Miss ==
  /\ watched # NoRedis /\ cached = {} /\ fill = {}
  /\ fill' = {Entry(Value(watched))}
  /\ UNCHANGED <<reqVars, watched, cached, pending>>

\* setEx
Store ==
  /\ fill # {}
  /\ cached' = fill /\ fill' = {}
  /\ UNCHANGED <<reqVars, watched, pending>>

\* DEL of the keys that are there; a reader in flight does not notice.
Invalidate ==
  /\ pending
  /\ cached' = {} /\ pending' = FALSE
  /\ fill' = Spoil(fill, "raced")
  /\ UNCHANGED <<reqVars, watched>>

\* An error of Redis, a crash, or an error in between (the popularity counters).
InvalidationLost ==
  /\ pending
  /\ pending' = FALSE
  /\ cached' = Spoil(cached, "lost") /\ fill' = Spoil(fill, "lost")
  /\ UNCHANGED <<reqVars, watched>>

Expires ==
  /\ cached # {}
  /\ cached' = {}
  /\ UNCHANGED <<reqVars, watched, fill, pending>>

CacheStep == Miss \/ Store \/ Invalidate \/ InvalidationLost \/ Expires

HandlerStep ==
  /\ \/ \E r \in Requests : \/ (Begin(r) \/ Read(r) \/ GiveUp(r)) /\ UNCHANGED cacheVars
                            \/ (Commit(r) \/ CreateThread(r)) /\ Committed(req[r])
     \/ \E t \in Tasks : ResponseDeadlinePasses(t) /\ UNCHANGED <<req, cacheVars>>
     \/ /\ \E p \in group.projects, limit \in TalentLimits : CreateProject(p, limit)
        /\ pending' = (pending \/ watched[1] = "public projects")
        /\ UNCHANGED <<req, watched, cached, fill>>
  /\ UNCHANGED group

CachedNext == HandlerStep \/ CacheStep

CachedSpec == CachedInit /\ [][CachedNext]_cachedVars

-----------------------------------------------------------------------------
\* A list answered from the cache is what the tables say, unless a handler is just
\* about to delete its key, the deletion was lost, a reader that had missed before the
\* deletion stored its answer after it, or the change is one of those that no handler
\* follows up; the time to live ends all four.
StaleHasReason ==
  \A e \in cached : e.value # Value(watched) => pending \/ e.why # "nothing"
=============================================================================
