------------------------------- MODULE Inbox --------------------------------
(***************************************************************************)
(* What waits for a user: the messages of one chat thread between the      *)
(* company that owns a task and its developer, the notifications of both,  *)
(* and the cached count of unread notifications, under overlapping         *)
(* requests.                                                               *)
(*                                                                         *)
(* Every database statement, upload and cache call whose order matters is  *)
(* a step.  A message takes its time, uploads its files one by one and     *)
(* only then opens its transaction; a notification is inserted and the     *)
(* cached count deleted inside a transaction, which commits afterwards.    *)
(*                                                                         *)
(* Time is the number of the last moment anything took its time: moments   *)
(* differ.  Moment 0 is the creation of the thread, which is also what a   *)
(* user has read of it when there is no row of chat_thread_reads.          *)
(* Task and users are never removed from under a notification, so the      *)
(* branches for a missing task or actor are left out; the caches of thread *)
(* lists are in CachedViews.tla.  A behaviour has the requests of one      *)
(* group: around the thread, or around the notifications.                  *)
(***************************************************************************)
EXTENDS Naturals, FiniteSets

CONSTANTS
  Requests,     \* bound: requests in flight at the same time
  Idle,         \* a request slot with no request
  NoEntry,      \* the cache holds no count
  Raised,       \* bound: the kinds of them, as <<recipient, kind>>
  MaxTime,      \* bound: moments
  MaxRaised,    \* bound: notifications the other handlers raise
  MaxFiles,     \* bound: files of a message
  MaxFaults     \* bound: lost answers, lost deletions and processes that stop

ASSUME BoundsAssumption ==
  MaxTime \in Nat /\ MaxRaised \in Nat /\ MaxFiles \in Nat /\ MaxFaults \in Nat

VARIABLES
  time,         \* the last moment taken
  taskOpen,     \* the task of the thread is not deleted
  lastMessageAt, \* of the thread; 0 is null
  messages,     \* chat_messages of the thread
  threadRead,   \* [Users -> a row of chat_thread_reads]
  stored,       \* files in the storage, as <<moment of the message, number>>
  notifications, \* the rows of notifications
  unreadCount,  \* [Users -> NoEntry or the cached count]
  group,        \* which requests come, chosen at the start
  req,          \* [Requests -> {Idle} or a request]
  faults,       \* bound counter
  known,        \* history: messages there or being sent when each user marked the thread
  misled        \* history: moments of messages whose files a failure left wrong

chatVars  == <<taskOpen, lastMessageAt, messages, threadRead, stored, known, misled>>
vars == <<time, chatVars, notifications, unreadCount, group, req, faults>>

Moments  == 0..MaxTime
Users    == {"company", "developer"}
Personas == Users
Groups   == {"thread", "notifications"}
Files    == Moments \X (1..MaxFiles)
-----------------------------------------------------------------------------
(* Who sees a notification *)

OwnerTypes  == {"APPLICATION_CREATED", "TASK_INVITE_ACCEPTED", "TASK_INVITE_DECLINED"}
WorkerTypes == {"APPLICATION_ACCEPTED", "APPLICATION_REJECTED", "TASK_COMPLETED",
                "TASK_DELETED", "PROJECT_DELETED", "TASK_INVITE_CREATED",
                "TASK_INVITE_CANCELLED"}
TwoWayTypes == {"COMPLETION_REQUESTED", "TASK_DISPUTE_OPENED"}
CommonTypes == {"CHAT_MESSAGE", "PROJECT_ARCHIVED_LIMIT_REACHED",
                "PROJECT_ARCHIVED_MODERATION", "MODERATOR_ROLE_GRANTED",
                "MODERATOR_ROLE_REVOKED"}
Types == OwnerTypes \cup WorkerTypes \cup TwoWayTypes \cup CommonTypes \cup {"REVIEW_CREATED"}

\* own: the recipient owns the task; byDeveloper: the actor has a developer profile.
Kinds == [type : Types, own : BOOLEAN, byDeveloper : BOOLEAN]

\* The kinds the handlers raise: some types go to the owner of the task, some to the
\* developer, and who reviews the owner is a developer.  Who reviews the developer is the
\* owner, who may have a developer profile too.
RaisedKinds ==
  {k \in Kinds : /\ k.type \in OwnerTypes => k.own
                 /\ k.type \in WorkerTypes => ~k.own
                 /\ k.type = "REVIEW_CREATED" /\ k.own => k.byDeveloper}

\* setUserModeratorRole raises them outside any transaction.
RaisedAtOnce(k) == k.type \in {"MODERATOR_ROLE_GRANTED", "MODERATOR_ROLE_REVOKED"}

ASSUME RaisedAssumption == Raised \subseteq Users \X RaisedKinds

\* The list of notifications shows it to this persona.
Visible(k, persona) ==
  \/ k.type \in CommonTypes
  \/ persona = "company" /\ k.type \in OwnerTypes
  \/ persona = "developer" /\ k.type \in WorkerTypes
  \/ k.type \in TwoWayTypes \cup {"REVIEW_CREATED"} /\ (k.own <=> persona = "company")

\* This persona may mark it, alone or with all the others.
IsNotificationRelevantForPersona(k, persona) ==
  CASE k.type \in OwnerTypes -> persona = "company" /\ k.own
    [] k.type \in WorkerTypes -> persona = "developer"
    [] k.type \in TwoWayTypes -> k.own <=> persona = "company"
    [] k.type = "REVIEW_CREATED" ->
         IF k.byDeveloper THEN persona = "company" /\ k.own ELSE persona = "developer"
    [] OTHER -> TRUE

MessageKind(to) == [type |-> "CHAT_MESSAGE", own |-> to = "company", byDeveloper |-> TRUE]

-----------------------------------------------------------------------------
(* Requests *)

Message == [sentAt : Moments, sender : Users, files : SUBSET Files, important : BOOLEAN]
Notification == [id : Moments, user : Users, kind : Kinds, read : BOOLEAN, important : BOOLEAN]

\* A request: the moment it took (or the id of what it inserts), the files it still has
\* to upload, the rows it found (of the thread or of the notifications), the count it
\* read.
Request(op, at, user) ==
  [op |-> op, at |-> at, user |-> user, moment |-> 0, toUpload |-> 0, found |-> {},
   kind |-> MessageKind("company"), count |-> 0, outdated |-> FALSE]

Counts == Nat
RequestRow ==
  [op : {"send", "markRead", "raise", "list", "mark", "markAll"},
   at : {"upload", "insert", "commit", "write", "count", "store", "invalidate"},
   user : Users, moment : Moments, toUpload : 0..MaxFiles, found : SUBSET Moments,
   kind : Kinds, count : Counts, outdated : BOOLEAN]

\* The cached count also remembers, as history, whether something changed behind its
\* back: after it was read no invalidation will come.
CacheEntry == [count : Counts, outdated : BOOLEAN]

ASSUME NullAssumption == Idle \notin RequestRow /\ NoEntry \notin CacheEntry

Init ==
  /\ group \in Groups
  /\ time = 0 /\ faults = 0
  /\ taskOpen = TRUE /\ lastMessageAt = 0 /\ messages = {} /\ stored = {}
  /\ threadRead = [u \in Users |-> [lastReadAt |-> 0, important |-> FALSE]]
  /\ notifications = {}
  /\ unreadCount = [u \in Users |-> NoEntry]
  /\ req = [r \in Requests |-> Idle]
  /\ known = [u \in Users |-> {}] /\ misled = {}

Other(u) == CHOOSE v \in Users : v # u

At(r, op, at) == req[r] # Idle /\ req[r].op = op /\ req[r].at = at
Begins(r, q) == req[r] = Idle /\ req' = [req EXCEPT ![r] = q]
Ends(r) == req' = [req EXCEPT ![r] = Idle]
GoesTo(r, at) == req' = [req EXCEPT ![r].at = at]

TakesTime == time < MaxTime /\ time' = time + 1
Fault == faults < MaxFaults /\ faults' = faults + 1

Of(u) == {n \in notifications : n.user = u}
Unread(u) == Cardinality({n \in Of(u) : ~n.read})

-----------------------------------------------------------------------------
(* The cached count *)

\* Requests that have counted and will store what they counted.
Outdate(reqs, u) ==
  [r \in Requests |->
     IF reqs[r] # Idle /\ reqs[r].at = "store" /\ reqs[r].user = u
     THEN [reqs[r] EXCEPT !.outdated = TRUE] ELSE reqs[r]]

\* DEL: a count on its way to the cache escapes it.
InvalidateCachedUnreadNotificationCount(u, reqs) ==
  /\ unreadCount' = [unreadCount EXCEPT ![u] = NoEntry]
  /\ req' = Outdate(reqs, u)
  /\ UNCHANGED faults

\* A failing DEL is logged and forgotten.
LoseInvalidation(u, reqs) ==
  /\ Fault
  /\ unreadCount' = [unreadCount EXCEPT ![u] =
                       IF @ = NoEntry THEN @ ELSE [@ EXCEPT !.outdated = TRUE]]
  /\ req' = Outdate(reqs, u)

InvalidateOrLose(u, reqs) ==
  \/ InvalidateCachedUnreadNotificationCount(u, reqs)
  \/ LoseInvalidation(u, reqs)

NewNotification(id, u, kind) ==
  [id |-> id, user |-> u, kind |-> kind, read |-> FALSE, important |-> FALSE]

\* A notification becomes visible: its DEL was before, so whatever was counted since
\* is out of date.
CommitsNotification(r, u, kind) ==
  /\ notifications' = notifications \cup {NewNotification(req[r].moment, u, kind)}
  /\ unreadCount' = [unreadCount EXCEPT ![u] =
                       IF @ = NoEntry THEN @ ELSE [@ EXCEPT !.outdated = TRUE]]
  /\ req' = Outdate([req EXCEPT ![r] = Idle], u)

\* GET /me/notifications.  A count that is cached is answered and nothing changes.
ListMisses(r) ==
  /\ group = "notifications"
  /\ \E u \in Users : unreadCount[u] = NoEntry /\ Begins(r, Request("list", "count", u))
  /\ UNCHANGED <<time, chatVars, notifications, unreadCount, group, faults>>

ListCounts(r) ==
  /\ At(r, "list", "count")
  /\ req' = [req EXCEPT ![r].at = "store", ![r].count = Unread(req[r].user)]
  /\ UNCHANGED <<time, chatVars, notifications, unreadCount, group, faults>>

\* setEx; a failing one is logged, and the answer goes out without it.
ListStores(r) ==
  /\ At(r, "list", "store")
  /\ \/ /\ unreadCount' = [unreadCount EXCEPT ![req[r].user] =
                             [count |-> req[r].count, outdated |-> req[r].outdated]]
        /\ UNCHANGED faults
     \/ Fault /\ UNCHANGED unreadCount
  /\ Ends(r)
  /\ UNCHANGED <<time, chatVars, notifications, group>>

\* The entry lives for NOTIFICATION_UNREAD_CACHE_TTL_SECONDS.
EntryExpires ==
  /\ \E u \in Users : /\ unreadCount[u] # NoEntry
                      /\ unreadCount' = [unreadCount EXCEPT ![u] = NoEntry]
  /\ UNCHANGED <<time, chatVars, notifications, group, req, faults>>

-----------------------------------------------------------------------------
(* Notifications *)

\* createNotification in a handler's transaction: the row, the DEL, then the commit.
Raise(r) ==
  /\ group = "notifications" /\ TakesTime /\ time' <= MaxRaised
  /\ req[r] = Idle
  /\ \E to \in Raised :
       /\ ~RaisedAtOnce(to[2])
       /\ InvalidateOrLose(to[1], [req EXCEPT ![r] =
            [Request("raise", "commit", to[1]) EXCEPT !.moment = time', !.kind = to[2]]])
  /\ UNCHANGED <<chatVars, notifications, group>>

RaiseCommits(r) ==
  /\ At(r, "raise", "commit")
  /\ CommitsNotification(r, req[r].user, req[r].kind)
  /\ UNCHANGED <<time, chatVars, group, faults>>

\* Outside a transaction the row is there before the DEL.
RaiseAtOnce(r) ==
  /\ group = "notifications" /\ TakesTime /\ time' <= MaxRaised
  /\ \E to \in Raised :
       /\ RaisedAtOnce(to[2])
       /\ notifications' = notifications \cup {NewNotification(time', to[1], to[2])}
       /\ Begins(r, Request("raise", "invalidate", to[1]))
  /\ UNCHANGED <<chatVars, unreadCount, group, faults>>

\* The four marks of one notification: found and allowed, written by id, then the DEL.
\* Nothing that is checked can change before the write, so they are one step.
MarkedRead(n)        == [n EXCEPT !.read = TRUE]
MarkedUnread(n)      == [n EXCEPT !.read = FALSE]
MarkedImportant(n)   == [n EXCEPT !.important = TRUE]
MarkedUnimportant(n) == [n EXCEPT !.important = FALSE]

\* The mutant of MarkInvalidates: only the row is written.
MarkForgetsTheCount(r, n) == req[r] = Idle /\ UNCHANGED req

\* Every mark, whatever it changed, is followed by the DEL.
MarkInvalidates(r, n) == Begins(r, Request("mark", "invalidate", n.user))

Mark(r) ==
  /\ group = "notifications"
  /\ \E n \in notifications, persona \in Personas :
       /\ IsNotificationRelevantForPersona(n.kind, persona)
       /\ \E marked \in {MarkedRead(n), MarkedUnread(n), MarkedImportant(n), MarkedUnimportant(n)} :
            notifications' = (notifications \ {n}) \cup {marked}
       /\ MarkInvalidates(r, n)
  /\ UNCHANGED <<time, chatVars, unreadCount, group, faults>>

\* markAllNotificationsAsRead: the unread ones this persona may mark are found, marked
\* by id, and the count invalidated; when there is none nothing is done.
MarkAllFinds(r) ==
  /\ group = "notifications"
  /\ \E u \in Users, persona \in Personas :
       LET relevant == {n \in Of(u) : /\ ~n.read
                                      /\ IsNotificationRelevantForPersona(n.kind, persona)}
       IN /\ relevant # {}
          /\ Begins(r, [Request("markAll", "write", u) EXCEPT
                          !.found = {n.id : n \in relevant}])
  /\ UNCHANGED <<time, chatVars, notifications, unreadCount, group, faults>>

MarkAllWrites(r) ==
  /\ At(r, "markAll", "write")
  /\ notifications' = {IF n.id \in req[r].found THEN MarkedRead(n) ELSE n : n \in notifications}
  /\ GoesTo(r, "invalidate")
  /\ UNCHANGED <<time, chatVars, unreadCount, group, faults>>

Invalidates(r) ==
  /\ req[r] # Idle /\ req[r].at = "invalidate"
  /\ InvalidateOrLose(req[r].user, [req EXCEPT ![r] = Idle])
  /\ UNCHANGED <<time, chatVars, notifications, group>>

-----------------------------------------------------------------------------
(* The thread *)

\* getAuthorizedThread: only while the task exists.
Authorized == group = "thread" /\ taskOpen

\* A moderator deletes the task (TaskWorkflow.tla); the rows stay.
TaskDeleted ==
  /\ Authorized /\ taskOpen' = FALSE
  /\ UNCHANGED <<time, lastMessageAt, messages, threadRead, stored, known, misled,
                 notifications, unreadCount, group, req, faults>>

\* createMessage takes its time before the files are uploaded.
SendBegins(r) ==
  /\ Authorized /\ TakesTime
  /\ \E u \in Users, files \in 0..MaxFiles :
       Begins(r, [Request("send", "upload", u) EXCEPT !.moment = time', !.toUpload = files])
  /\ UNCHANGED <<chatVars, notifications, unreadCount, group, faults>>

HasFiles(r)   == req[r].toUpload > 0
UploadedBy(r) == {f \in stored : f[1] = req[r].moment}

SendUploads(r) ==
  /\ At(r, "send", "upload") /\ HasFiles(r)
  /\ stored' = stored \cup {<<req[r].moment, req[r].toUpload>>}
  /\ req' = [req EXCEPT ![r].toUpload = @ - 1]
  /\ UNCHANGED <<time, taskOpen, lastMessageAt, messages, threadRead, known, misled,
                 notifications, unreadCount, group, faults>>

\* The mutant of CleanupUploadedAttachments: the request just ends.
LeaveUploadedAttachments(r) == UNCHANGED <<stored, misled, faults>>

\* cleanupUploadedAttachments deletes each file of the message; the files whose deletion
\* fails stay.
CleanupUploadedAttachments(r) ==
  \/ /\ stored' = stored \ UploadedBy(r)
     /\ UNCHANGED <<misled, faults>>
  \/ /\ \E kept \in SUBSET UploadedBy(r) \ {{}} : stored' = (stored \ UploadedBy(r)) \cup kept
     /\ misled' = misled \cup {req[r].moment}
     /\ Fault

\* The upload is rejected after the storage kept the file (its answer is lost or comes too
\* late): that file is not among the uploaded ones, so nobody deletes it.
KeepsUnansweredUpload(r) ==
  /\ \E kept \in SUBSET UploadedBy(r) :
       stored' = (stored \ UploadedBy(r)) \cup kept \cup {<<req[r].moment, req[r].toUpload>>}
  /\ misled' = misled \cup {req[r].moment}
  /\ Fault

\* An upload fails: the files uploaded before it are deleted and the request ends.
SendUploadFails(r) ==
  /\ At(r, "send", "upload") /\ HasFiles(r)
  /\ CleanupUploadedAttachments(r) \/ KeepsUnansweredUpload(r)
  /\ Ends(r)
  /\ UNCHANGED <<time, taskOpen, lastMessageAt, messages, threadRead, known,
                 notifications, unreadCount, group>>

\* In the transaction: the message, lastMessageAt, the notification and the DEL of its
\* reader's count.
SendInserts(r) ==
  /\ At(r, "send", "upload") /\ ~HasFiles(r)
  /\ InvalidateOrLose(Other(req[r].user), [req EXCEPT ![r].at = "commit"])
  /\ UNCHANGED <<time, chatVars, notifications, group>>

\* What the transaction writes.  lastMessageAt is the time of the message that commits.
SendWrites(r) ==
  LET u == req[r].user
      m == [sentAt |-> req[r].moment, sender |-> u, files |-> UploadedBy(r),
            important |-> FALSE]
  IN /\ messages' = messages \cup {m}
     /\ lastMessageAt' = m.sentAt
     /\ CommitsNotification(r, Other(u), MessageKind(Other(u)))

SendCommits(r) ==
  /\ At(r, "send", "commit")
  /\ SendWrites(r)
  /\ UNCHANGED <<time, taskOpen, threadRead, stored, known, misled, group, faults>>

\* The transaction fails: the files are deleted.
SendRollsBack(r) ==
  /\ At(r, "send", "commit")
  /\ CleanupUploadedAttachments(r)
  /\ Ends(r)
  /\ UNCHANGED <<time, taskOpen, lastMessageAt, messages, threadRead, known,
                 notifications, unreadCount, group>>

\* The transaction commits but its answer is lost: the code takes it for a failure and
\* deletes the files of a message that is there, or those it can.
SendAnswerLost(r) ==
  /\ At(r, "send", "commit")
  /\ Fault
  /\ SendWrites(r)
  /\ \E kept \in SUBSET UploadedBy(r) : stored' = (stored \ UploadedBy(r)) \cup kept
  /\ misled' = misled \cup {req[r].moment}
  /\ UNCHANGED <<time, taskOpen, threadRead, known, group>>

\* The process stops between two steps of the request: an open transaction is lost.
Dies(r) ==
  /\ req[r] # Idle /\ Fault
  /\ IF req[r].op = "send" THEN misled' = misled \cup {req[r].moment} ELSE UNCHANGED misled
  /\ IF req[r].at = "invalidate"
     THEN LET u == req[r].user
          IN /\ unreadCount' = [unreadCount EXCEPT ![u] =
                                  IF @ = NoEntry THEN @ ELSE [@ EXCEPT !.outdated = TRUE]]
             /\ req' = Outdate([req EXCEPT ![r] = Idle], u)
     ELSE Ends(r) /\ UNCHANGED unreadCount
  /\ UNCHANGED <<time, taskOpen, lastMessageAt, messages, threadRead, stored, known,
                 notifications, group>>

\* markThreadAsRead takes its time, then writes it.
BeingSent == {req[q].moment : q \in {p \in Requests : req[p] # Idle /\ req[p].op = "send"}}

MarkReadBegins(r) ==
  /\ Authorized /\ TakesTime
  /\ \E u \in Users :
       Begins(r, [Request("markRead", "write", u) EXCEPT
                    !.moment = time', !.found = {m.sentAt : m \in messages} \cup BeingSent])
  /\ UNCHANGED <<chatVars, notifications, unreadCount, group, faults>>

MarkReadWrites(r) ==
  /\ At(r, "markRead", "write")
  /\ LET u == req[r].user
     IN /\ threadRead' = [threadRead EXCEPT ![u].lastReadAt = req[r].moment]
        /\ known' = [known EXCEPT ![u] = req[r].found]
  /\ Ends(r)
  /\ UNCHANGED <<time, taskOpen, lastMessageAt, messages, stored, misled,
                 notifications, unreadCount, group, faults>>

\* The mutant of MarkedThreadRow: the thread is read as well.
MarkedThreadRowRead(row, important) ==
  [row EXCEPT !.important = important, !.lastReadAt = time]

\* Marking a thread important makes the row of a user who has read nothing yet, with
\* the creation of the thread as lastReadAt; a row that is there keeps its own.
MarkedThreadRow(row, important) == [row EXCEPT !.important = important]

MarkThreadImportantOrNot ==
  /\ Authorized
  /\ \E u \in Users, important \in BOOLEAN :
       threadRead' = [threadRead EXCEPT ![u] = MarkedThreadRow(@, important)]
  /\ UNCHANGED <<time, taskOpen, lastMessageAt, messages, stored, known, misled,
                 notifications, unreadCount, group, req, faults>>

MarkMessageImportantOrNot ==
  /\ Authorized
  /\ \E m \in messages, important \in BOOLEAN :
       messages' = (messages \ {m}) \cup {[m EXCEPT !.important = important]}
  /\ UNCHANGED <<time, taskOpen, lastMessageAt, threadRead, stored, known, misled,
                 notifications, unreadCount, group, req, faults>>

-----------------------------------------------------------------------------
NotificationStep(r) ==
  \/ ListMisses(r) \/ ListCounts(r) \/ ListStores(r)
  \/ Raise(r) \/ RaiseCommits(r) \/ RaiseAtOnce(r)
  \/ Mark(r) \/ MarkAllFinds(r) \/ MarkAllWrites(r) \/ Invalidates(r)

ThreadStep(r) ==
  \/ SendBegins(r) \/ SendUploads(r) \/ SendUploadFails(r) \/ SendInserts(r)
  \/ SendCommits(r) \/ SendRollsBack(r) \/ SendAnswerLost(r)
  \/ MarkReadBegins(r) \/ MarkReadWrites(r)

Background ==
  EntryExpires \/ TaskDeleted \/ MarkThreadImportantOrNot \/ MarkMessageImportantOrNot

Next == Background \/ \E r \in Requests : NotificationStep(r) \/ ThreadStep(r) \/ Dies(r)

Spec == Init /\ [][Next]_vars

-----------------------------------------------------------------------------
(* What the views show *)

\* getMyThreads, getThreadById: the messages counted as unread, one's own included.
CountedUnread(u) == {m \in messages : m.sentAt > threadRead[u].lastReadAt}

-----------------------------------------------------------------------------
(* Properties *)

TypeOK ==
  /\ time \in Moments /\ taskOpen \in BOOLEAN /\ lastMessageAt \in Moments
  /\ messages \subseteq Message
  /\ threadRead \in [Users -> [lastReadAt : Moments, important : BOOLEAN]]
  /\ stored \subseteq Files
  /\ notifications \subseteq Notification
  /\ unreadCount \in [Users -> CacheEntry \cup {NoEntry}]
  /\ group \in Groups
  /\ req \in [Requests -> RequestRow \cup {Idle}]
  /\ faults \in 0..MaxFaults
  /\ known \in [Users -> SUBSET Moments] /\ misled \subseteq Moments

\* A message stays counted as unread until its reader marks the thread: it is counted as
\* read only if it was there, or was already being sent (its files uploading), when the
\* reader last did.  Nothing else that writes the row of chat_thread_reads, such as
\* marking the thread important first, may hide a message.
UnreadUntilRead ==
  \A u \in Users : \A m \in messages \ CountedUnread(u) : m.sentAt \in known[u]

\* The cached count of unread notifications differs from the rows only while a request
\* still has to delete it, or when something changed behind its back: a notification
\* committed after its DEL, a reader that counted before a DEL and stored after it, or a
\* DEL that was lost.
UnreadCountHasReason ==
  \A u \in Users :
    unreadCount[u] # NoEntry /\ unreadCount[u].count # Unread(u) =>
      \/ unreadCount[u].outdated
      \/ \E r \in Requests : req[r] # Idle /\ req[r].at = "invalidate" /\ req[r].user = u

\* A message's files are in the storage, and no file there is without its message or a
\* request that will make it, except where a deletion failed, the process stopped, or
\* the answer of an upload or of a commit was lost.
AttachmentsAreStored ==
  /\ \A m \in messages : m.files \subseteq stored \/ m.sentAt \in misled
  /\ \A f \in stored : \/ \E m \in messages : f \in m.files
                       \/ f[1] \in BeingSent \cup misled
=============================================================================
