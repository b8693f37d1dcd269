---------------------------- MODULE Inbox_proofs ----------------------------
(***************************************************************************)
(* Proofs about Inbox, for any number of overlapping requests, moments,    *)
(* files and faults: types, what a user may mark, when a message counts as *)
(* read, which files are in the storage, and when the cached count of      *)
(* unread notifications is wrong.                                          *)
(***************************************************************************)
EXTENDS Inbox, FiniteSetTheorems, TLAPS

-----------------------------------------------------------------------------
(* Requests *)

Ops == {"send", "markRead", "raise", "list", "mark", "markAll"}
Ats == {"upload", "insert", "commit", "write", "count", "store", "invalidate"}
ReqTables == [Requests -> RequestRow \cup {Idle}]

\* Two states of a request do the same for the same user, with the same moment and rows.
SameErrand(p, q) ==
  /\ p.op = q.op /\ p.user = q.user /\ p.moment = q.moment /\ p.found = q.found

LEMMA MessageKindType ==
  ASSUME NEW u \in Users
  PROVE  MessageKind(u) \in RaisedKinds /\ MessageKind(u) \in Kinds
  BY DEF MessageKind, RaisedKinds, Kinds, Types, CommonTypes, OwnerTypes, WorkerTypes,
         TwoWayTypes

LEMMA RequestType ==
  ASSUME NEW op \in Ops, NEW at \in Ats, NEW u \in Users
  PROVE  /\ Request(op, at, u) \in RequestRow
         /\ Request(op, at, u).op = op /\ Request(op, at, u).at = at
         /\ Request(op, at, u).user = u
  <1>1. MessageKind("company") \in Kinds
    BY MessageKindType DEF Users
  <1> QED
    BY <1>1, BoundsAssumption DEF Request, RequestRow, Ops, Ats, Moments, Counts

LEMMA UserOther == ASSUME NEW u \in Users PROVE Other(u) \in Users
  BY DEF Other, Users

\* Outdating the counts on their way changes nothing else.
LEMMA OutdateKeeps ==
  ASSUME NEW reqs \in ReqTables, NEW u \in Users
  PROVE  /\ Outdate(reqs, u) \in ReqTables
         /\ \A r \in Requests :
              /\ reqs[r] = Idle <=> Outdate(reqs, u)[r] = Idle
              /\ reqs[r] # Idle => /\ SameErrand(Outdate(reqs, u)[r], reqs[r])
                                   /\ Outdate(reqs, u)[r].at = reqs[r].at
  <1>1. ASSUME NEW r \in Requests, reqs[r] # Idle
        PROVE  /\ reqs[r] \in RequestRow
               /\ [reqs[r] EXCEPT !.outdated = TRUE] \in RequestRow
               /\ [reqs[r] EXCEPT !.outdated = TRUE] # Idle
               /\ SameErrand([reqs[r] EXCEPT !.outdated = TRUE], reqs[r])
               /\ [reqs[r] EXCEPT !.outdated = TRUE].at = reqs[r].at
               /\ SameErrand(reqs[r], reqs[r])
    <2>1. reqs[r] \in RequestRow
      BY <1>1 DEF ReqTables
    <2>2. [reqs[r] EXCEPT !.outdated = TRUE] \in RequestRow
      BY <2>1 DEF RequestRow
    <2>3. [reqs[r] EXCEPT !.outdated = TRUE] # Idle
      BY <2>2, NullAssumption
    <2>4. SameErrand([reqs[r] EXCEPT !.outdated = TRUE], reqs[r])
      BY <2>1 DEF RequestRow, SameErrand
    <2>5. [reqs[r] EXCEPT !.outdated = TRUE].at = reqs[r].at
      BY <2>1 DEF RequestRow
    <2> QED
      BY <2>1, <2>2, <2>3, <2>4, <2>5 DEF SameErrand
  <1>2. ASSUME NEW r \in Requests
        PROVE  \/ Outdate(reqs, u)[r] = reqs[r]
               \/ reqs[r] # Idle /\ Outdate(reqs, u)[r] = [reqs[r] EXCEPT !.outdated = TRUE]
    <2>1. Outdate(reqs, u)[r] =
            IF reqs[r] # Idle /\ reqs[r].at = "store" /\ reqs[r].user = u
            THEN [reqs[r] EXCEPT !.outdated = TRUE] ELSE reqs[r]
      BY DEF Outdate
    <2> QED
      BY <2>1
  <1>3. Outdate(reqs, u) \in ReqTables
    <2>1. \A r \in Requests :
            (IF reqs[r] # Idle /\ reqs[r].at = "store" /\ reqs[r].user = u
             THEN [reqs[r] EXCEPT !.outdated = TRUE] ELSE reqs[r]) \in RequestRow \cup {Idle}
      BY <1>1 DEF ReqTables
    <2> QED
      BY <2>1 DEF Outdate, ReqTables
  <1> QED
    BY <1>1, <1>2, <1>3

\* Begins, Ends and GoesTo, and the tables they give.
LEMMA TableUpdates ==
  ASSUME NEW reqs \in ReqTables, NEW r \in Requests, NEW q \in RequestRow
  PROVE  /\ [reqs EXCEPT ![r] = q] \in ReqTables
         /\ [reqs EXCEPT ![r] = Idle] \in ReqTables
         /\ [reqs EXCEPT ![r] = q][r] = q
         /\ [reqs EXCEPT ![r] = Idle][r] = Idle
         /\ \A p \in Requests \ {r} : /\ [reqs EXCEPT ![r] = q][p] = reqs[p]
                                      /\ [reqs EXCEPT ![r] = Idle][p] = reqs[p]
  BY DEF ReqTables

LEMMA GoesToIs ==
  ASSUME req \in ReqTables, NEW r \in Requests, req[r] # Idle, NEW at \in Ats
  PROVE  /\ req[r] \in RequestRow
         /\ [req EXCEPT ![r].at = at] = [req EXCEPT ![r] = [req[r] EXCEPT !.at = at]]
         /\ [req[r] EXCEPT !.at = at] \in RequestRow
         /\ [req[r] EXCEPT !.at = at].at = at
         /\ SameErrand([req[r] EXCEPT !.at = at], req[r])
  <1>1. req[r] \in RequestRow
    BY DEF ReqTables
  <1>2. [req[r] EXCEPT !.at = at] \in RequestRow
    BY <1>1 DEF RequestRow, Ats
  <1>3. [req EXCEPT ![r].at = at] = [req EXCEPT ![r] = [req[r] EXCEPT !.at = at]]
    BY DEF ReqTables
  <1>4. SameErrand([req[r] EXCEPT !.at = at], req[r]) /\ [req[r] EXCEPT !.at = at].at = at
    BY <1>1 DEF RequestRow, SameErrand
  <1> QED
    BY <1>1, <1>2, <1>3, <1>4

-----------------------------------------------------------------------------
(* Types *)

CacheTables == [Users -> CacheEntry \cup {NoEntry}]

LEMMA InvalidateType ==
  ASSUME TypeOK, NEW u \in Users, NEW reqs \in ReqTables, InvalidateOrLose(u, reqs)
  PROVE  /\ req' = Outdate(reqs, u) /\ req' \in ReqTables
         /\ unreadCount' \in CacheTables
         /\ faults' \in 0..MaxFaults
  <1>1. req' = Outdate(reqs, u)
    BY DEF InvalidateOrLose, InvalidateCachedUnreadNotificationCount, LoseInvalidation
  <1>2. req' \in ReqTables
    BY <1>1, OutdateKeeps
  <1>3. CASE InvalidateCachedUnreadNotificationCount(u, reqs)
    BY <1>1, <1>2, <1>3 DEF InvalidateCachedUnreadNotificationCount, TypeOK, CacheTables
  <1>4. CASE LoseInvalidation(u, reqs)
    <2>1. faults' \in 0..MaxFaults
      BY <1>4, BoundsAssumption DEF LoseInvalidation, Fault, TypeOK
    <2>2. unreadCount' \in CacheTables
      BY <1>4 DEF LoseInvalidation, TypeOK, CacheTables, CacheEntry
    <2> QED
      BY <1>1, <1>2, <2>1, <2>2
  <1> QED
    BY <1>3, <1>4 DEF InvalidateOrLose

LEMMA CacheOutdatedType ==
  ASSUME TypeOK, NEW u \in Users,
         unreadCount' = [unreadCount EXCEPT ![u] =
                           IF @ = NoEntry THEN @ ELSE [@ EXCEPT !.outdated = TRUE]]
  PROVE  unreadCount' \in CacheTables
  BY DEF TypeOK, CacheTables, CacheEntry

LEMMA CommitType ==
  ASSUME TypeOK, IsFiniteSet(notifications), NEW r \in Requests, req[r] # Idle,
         NEW u \in Users, NEW kind \in Kinds, CommitsNotification(r, u, kind)
  PROVE  /\ notifications' \subseteq Notification /\ IsFiniteSet(notifications')
         /\ unreadCount' \in CacheTables
         /\ req' \in ReqTables
  <1>1. req \in ReqTables /\ req[r] \in RequestRow /\ req[r].moment \in Moments
    BY DEF TypeOK, ReqTables, RequestRow
  <1>2. [req EXCEPT ![r] = Idle] \in ReqTables
    BY <1>1 DEF ReqTables
  <1>3. req' \in ReqTables
    BY <1>2, OutdateKeeps DEF CommitsNotification
  <1>4. unreadCount' \in CacheTables
    BY CacheOutdatedType DEF CommitsNotification
  <1>5. NewNotification(req[r].moment, u, kind) \in Notification
    BY <1>1 DEF NewNotification, Notification
  <1>6. IsFiniteSet(notifications')
    BY FS_AddElement DEF CommitsNotification
  <1> QED
    BY <1>3, <1>4, <1>5, <1>6 DEF CommitsNotification, TypeOK

\* Types, and what they need: there are finitely many notifications.
Typed == TypeOK /\ IsFiniteSet(notifications)

\* A step of the notifications.
LEMMA RestType ==
  ASSUME TypeOK, UNCHANGED <<chatVars, group>>, time' \in Moments,
         notifications' \subseteq Notification, unreadCount' \in CacheTables,
         req' \in ReqTables, faults' \in 0..MaxFaults
  PROVE  TypeOK'
  BY DEF TypeOK, chatVars, CacheTables, ReqTables

LEMMA TimeType == ASSUME TypeOK, TakesTime PROVE time' \in Moments /\ time' > time
  BY BoundsAssumption DEF TypeOK, TakesTime, Moments

LEMMA ChangedRow ==
  ASSUME Typed, NEW n \in notifications, NEW m,
         m \in {MarkedRead(n), MarkedUnread(n), MarkedImportant(n), MarkedUnimportant(n)},
         notifications' = (notifications \ {n}) \cup {m}
  PROVE  /\ notifications' \subseteq Notification /\ IsFiniteSet(notifications')
         /\ m.id = n.id /\ m.user = n.user /\ m.kind = n.kind
  <1>1. n \in Notification
    BY DEF Typed, TypeOK
  <1>2. m \in Notification /\ m.id = n.id /\ m.user = n.user /\ m.kind = n.kind
    BY <1>1 DEF Notification, MarkedRead, MarkedUnread, MarkedImportant, MarkedUnimportant
  <1>3. IsFiniteSet(notifications')
    BY FS_AddElement, FS_RemoveElement DEF Typed
  <1> QED
    BY <1>2, <1>3 DEF Typed, TypeOK

LEMMA AllMarked ==
  ASSUME Typed, NEW ids,
         notifications' = {IF n.id \in ids THEN MarkedRead(n) ELSE n : n \in notifications}
  PROVE  /\ notifications' \subseteq Notification /\ IsFiniteSet(notifications')
         /\ \A m \in notifications' : \E n \in notifications :
              m.id = n.id /\ m.user = n.user /\ m.kind = n.kind
  <1> DEFINE f == [n \in notifications |-> IF n.id \in ids THEN MarkedRead(n) ELSE n]
  <1>1. ASSUME NEW n \in notifications
        PROVE  /\ f[n] \in Notification
               /\ f[n].id = n.id /\ f[n].user = n.user /\ f[n].kind = n.kind
    BY DEF Typed, TypeOK, Notification, MarkedRead
  <1>2. notifications' = {f[n] : n \in notifications}
    OBVIOUS
  <1>3. f \in Surjection(notifications, notifications')
    BY <1>2 DEF Surjection
  <1>4. IsFiniteSet(notifications')
    BY <1>3, FS_Surjection DEF Typed
  <1> QED
    BY <1>1, <1>2, <1>4

LEMMA UnreadType == ASSUME Typed, NEW u \in Users PROVE Unread(u) \in Counts
  <1>1. {n \in Of(u) : ~n.read} \in SUBSET notifications
    BY DEF Of
  <1>2. IsFiniteSet({n \in Of(u) : ~n.read})
    BY <1>1, FS_Subset DEF Typed
  <1> QED
    BY <1>2, FS_CardinalityType DEF Unread, Counts

LEMMA NotificationStepType ==
  ASSUME Typed, NEW r \in Requests, NotificationStep(r)
  PROVE  Typed'
  <1> TypeOK /\ IsFiniteSet(notifications)
    BY DEF Typed
  <1>0. /\ req \in ReqTables /\ unreadCount \in CacheTables
        /\ time \in Moments /\ faults \in 0..MaxFaults
        /\ notifications \subseteq Notification
    BY DEF TypeOK, ReqTables, CacheTables
  <1>1. CASE ListMisses(r)
    <2>1. PICK u \in Users : Begins(r, Request("list", "count", u))
      BY <1>1 DEF ListMisses
    <2>2. Request("list", "count", u) \in RequestRow
      BY RequestType DEF Ops, Ats
    <2>3. req' \in ReqTables
      BY <1>0, <2>1, <2>2, TableUpdates DEF Begins
    <2> QED
      BY <1>0, <1>1, <2>3, RestType DEF ListMisses, Typed
  <1>2. CASE ListCounts(r)
    <2>1. req[r] \in RequestRow /\ req[r].user \in Users
      BY <1>0, <1>2 DEF ListCounts, At, ReqTables, RequestRow
    <2>2. [req[r] EXCEPT !.at = "store", !.count = Unread(req[r].user)] \in RequestRow
      BY <2>1, UnreadType DEF RequestRow
    <2>3. req' = [req EXCEPT ![r] = [req[r] EXCEPT !.at = "store", !.count = Unread(req[r].user)]]
      BY <1>0, <1>2 DEF ListCounts, ReqTables
    <2>4. req' \in ReqTables
      BY <1>0, <2>2, <2>3, TableUpdates
    <2> QED
      BY <1>0, <1>2, <2>4, RestType DEF ListCounts, Typed
  <1>3. CASE ListStores(r)
    <2>1. req[r] \in RequestRow
      BY <1>0, <1>3 DEF ListStores, At, ReqTables
    <2>2. [count |-> req[r].count, outdated |-> req[r].outdated] \in CacheEntry
      BY <2>1 DEF RequestRow, CacheEntry
    <2>3. unreadCount' \in CacheTables
      BY <1>0, <1>3, <2>2 DEF ListStores, CacheTables
    <2>4. faults' \in 0..MaxFaults
      BY <1>0, <1>3, BoundsAssumption DEF ListStores, Fault
    <2>5. req' \in ReqTables
      BY <1>0, <1>3 DEF ListStores, Ends, ReqTables
    <2> QED
      BY <1>0, <1>3, <2>3, <2>4, <2>5, RestType DEF ListStores, Typed
  <1>4. CASE Raise(r)
    <2>1. PICK to \in Raised :
            InvalidateOrLose(to[1], [req EXCEPT ![r] =
              [Request("raise", "commit", to[1]) EXCEPT !.moment = time', !.kind = to[2]]])
      BY <1>4 DEF Raise
    <2>2. to[1] \in Users /\ to[2] \in Kinds
      BY RaisedAssumption DEF RaisedKinds
    <2>3. time' \in Moments
      BY <1>4, TimeType DEF Raise
    <2>7. Request("raise", "commit", to[1]) \in RequestRow
      BY <2>2, RequestType DEF Ops, Ats
    <2>4. [Request("raise", "commit", to[1]) EXCEPT !.moment = time', !.kind = to[2]] \in RequestRow
      BY <2>2, <2>3, <2>7 DEF RequestRow
    <2>5. [req EXCEPT ![r] =
            [Request("raise", "commit", to[1]) EXCEPT !.moment = time', !.kind = to[2]]] \in ReqTables
      BY <1>0, <2>4, TableUpdates
    <2>6. req' \in ReqTables /\ unreadCount' \in CacheTables /\ faults' \in 0..MaxFaults
      BY <2>1, <2>2, <2>5, InvalidateType
    <2> QED
      BY <1>0, <1>4, <2>3, <2>6, RestType DEF Raise, Typed
  <1>5. CASE RaiseCommits(r)
    <2>1. req[r].user \in Users /\ req[r].kind \in Kinds /\ req[r] # Idle
      BY <1>0, <1>5 DEF RaiseCommits, At, ReqTables, RequestRow
    <2> QED
      BY <1>0, <1>5, <2>1, CommitType, RestType DEF RaiseCommits, Typed
  <1>6. CASE RaiseAtOnce(r)
    <2>1. PICK to \in Raised :
            /\ notifications' = notifications \cup {NewNotification(time', to[1], to[2])}
            /\ Begins(r, Request("raise", "invalidate", to[1]))
      BY <1>6 DEF RaiseAtOnce
    <2>2. to[1] \in Users /\ to[2] \in Kinds
      BY RaisedAssumption DEF RaisedKinds
    <2>3. time' \in Moments
      BY <1>6, TimeType DEF RaiseAtOnce
    <2>4. NewNotification(time', to[1], to[2]) \in Notification
      BY <2>2, <2>3 DEF NewNotification, Notification
    <2>5. IsFiniteSet(notifications') /\ notifications' \subseteq Notification
      BY <1>0, <2>1, <2>4, FS_AddElement
    <2>7. Request("raise", "invalidate", to[1]) \in RequestRow
      BY <2>2, RequestType DEF Ops, Ats
    <2>6. req' \in ReqTables
      BY <1>0, <2>1, <2>7, TableUpdates DEF Begins
    <2> QED
      BY <1>0, <1>6, <2>3, <2>5, <2>6, RestType DEF RaiseAtOnce, Typed
  <1>7. CASE Mark(r)
    <2>0. PICK n \in notifications :
            /\ \E m \in {MarkedRead(n), MarkedUnread(n), MarkedImportant(n), MarkedUnimportant(n)} :
                 notifications' = (notifications \ {n}) \cup {m}
            /\ MarkInvalidates(r, n)
      BY <1>7 DEF Mark
    <2>1. PICK m \in {MarkedRead(n), MarkedUnread(n), MarkedImportant(n), MarkedUnimportant(n)} :
            notifications' = (notifications \ {n}) \cup {m}
      BY <2>0
    <2>2. IsFiniteSet(notifications') /\ notifications' \subseteq Notification
      BY <2>1, ChangedRow DEF Typed
    <2>3. n.user \in Users
      BY <1>0 DEF Notification
    <2>5. Request("mark", "invalidate", n.user) \in RequestRow
      BY <2>3, RequestType DEF Ops, Ats
    <2>4. req' \in ReqTables
      BY <1>0, <2>0, <2>5, TableUpdates DEF MarkInvalidates, Begins
    <2> QED
      BY <1>0, <1>7, <2>2, <2>4, RestType DEF Mark, Typed
  <1>8. CASE MarkAllFinds(r)
    <2>1. PICK u \in Users, found \in SUBSET Moments :
            Begins(r, [Request("markAll", "write", u) EXCEPT !.found = found])
      <3>1. PICK u \in Users, persona \in Personas :
              Begins(r, [Request("markAll", "write", u) EXCEPT
                !.found = {n.id : n \in {k \in Of(u) : /\ ~k.read
                             /\ IsNotificationRelevantForPersona(k.kind, persona)}}])
        BY <1>8 DEF MarkAllFinds
      <3>2. {n.id : n \in {k \in Of(u) : /\ ~k.read
                /\ IsNotificationRelevantForPersona(k.kind, persona)}} \in SUBSET Moments
        BY <1>0 DEF Of, Notification
      <3> QED
        BY <3>1, <3>2
    <2>4. Request("markAll", "write", u) \in RequestRow
      BY RequestType DEF Ops, Ats
    <2>2. [Request("markAll", "write", u) EXCEPT !.found = found] \in RequestRow
      BY <2>4 DEF RequestRow
    <2>3. req' \in ReqTables
      BY <1>0, <2>1, <2>2, TableUpdates DEF Begins
    <2> QED
      BY <1>0, <1>8, <2>3, RestType DEF MarkAllFinds, Typed
  <1>9. CASE MarkAllWrites(r)
    <2>1. IsFiniteSet(notifications') /\ notifications' \subseteq Notification
      BY <1>9, AllMarked DEF MarkAllWrites, Typed
    <2>2. req' \in ReqTables
      BY <1>0, <1>9, GoesToIs, TableUpdates DEF MarkAllWrites, GoesTo, At, Ats
    <2> QED
      BY <1>0, <1>9, <2>1, <2>2, RestType DEF MarkAllWrites, Typed
  <1>10. CASE Invalidates(r)
    <2>1. req[r].user \in Users
      BY <1>0, <1>10 DEF Invalidates, ReqTables, RequestRow
    <2>2. [req EXCEPT ![r] = Idle] \in ReqTables
      BY <1>0 DEF ReqTables
    <2> QED
      BY <1>0, <1>10, <2>1, <2>2, InvalidateType, RestType DEF Invalidates, Typed
  <1> QED
    BY <1>1, <1>2, <1>3, <1>4, <1>5, <1>6, <1>7, <1>8, <1>9, <1>10 DEF NotificationStep

\* A step of the thread, or of the background, that raises no notification.
LEMMA ThreadRestType ==
  ASSUME TypeOK, time' \in Moments, taskOpen' \in BOOLEAN, lastMessageAt' \in Moments,
         messages' \subseteq Message,
         threadRead' \in [Users -> [lastReadAt : Moments, important : BOOLEAN]],
         stored' \subseteq Files, known' \in [Users -> SUBSET Moments],
         misled' \subseteq Moments, group' = group,
         notifications' \subseteq Notification, unreadCount' \in CacheTables,
         req' \in ReqTables, faults' \in 0..MaxFaults
  PROVE  TypeOK'
  BY DEF TypeOK, CacheTables, ReqTables

LEMMA FaultType == ASSUME TypeOK, Fault PROVE faults' \in 0..MaxFaults
  BY BoundsAssumption DEF TypeOK, Fault

LEMMA CleanupType ==
  ASSUME TypeOK, NEW r \in Requests, req[r] # Idle, CleanupUploadedAttachments(r)
  PROVE  stored' \subseteq Files /\ misled' \subseteq Moments /\ faults' \in 0..MaxFaults
  <1>1. req[r].moment \in Moments
    BY DEF TypeOK, RequestRow
  <1> QED
    BY <1>1, FaultType DEF CleanupUploadedAttachments, UploadedBy, TypeOK

LEMMA UnansweredType ==
  ASSUME TypeOK, NEW r \in Requests, req[r] # Idle, HasFiles(r), KeepsUnansweredUpload(r)
  PROVE  stored' \subseteq Files /\ misled' \subseteq Moments /\ faults' \in 0..MaxFaults
  <1>1. req[r].moment \in Moments /\ req[r].toUpload \in 0..MaxFiles
    BY DEF TypeOK, RequestRow
  <1>2. req[r].toUpload \in 1..MaxFiles
    BY <1>1, BoundsAssumption DEF HasFiles
  <1>3. <<req[r].moment, req[r].toUpload>> \in Files
    BY <1>1, <1>2 DEF Files
  <1>4. stored' \subseteq stored \cup {<<req[r].moment, req[r].toUpload>>}
    BY DEF KeepsUnansweredUpload, UploadedBy
  <1> QED
    BY <1>1, <1>3, <1>4, FaultType DEF KeepsUnansweredUpload, TypeOK

LEMMA WriteType ==
  ASSUME Typed, NEW r \in Requests, req[r] # Idle, SendWrites(r)
  PROVE  /\ messages' \subseteq Message /\ lastMessageAt' \in Moments
         /\ notifications' \subseteq Notification /\ IsFiniteSet(notifications')
         /\ unreadCount' \in CacheTables /\ req' \in ReqTables
  <1>1. req[r].moment \in Moments /\ req[r].user \in Users
    BY DEF Typed, TypeOK, RequestRow
  <1>2. UploadedBy(r) \in SUBSET Files
    BY DEF Typed, TypeOK, UploadedBy
  <1>3. [sentAt |-> req[r].moment, sender |-> req[r].user, files |-> UploadedBy(r),
         important |-> FALSE] \in Message
    BY <1>1, <1>2 DEF Message
  <1>4. messages' \subseteq Message /\ lastMessageAt' \in Moments
    BY <1>1, <1>3 DEF SendWrites, Typed, TypeOK
  <1>5. Other(req[r].user) \in Users
    BY <1>1, UserOther
  <1>6. CommitsNotification(r, Other(req[r].user), MessageKind(Other(req[r].user)))
    BY DEF SendWrites
  <1> QED
    BY <1>4, <1>5, <1>6, CommitType, MessageKindType DEF Typed

LEMMA ThreadStepType ==
  ASSUME Typed, NEW r \in Requests, ThreadStep(r)
  PROVE  Typed'
  <1> TypeOK /\ IsFiniteSet(notifications)
    BY DEF Typed
  <1>0. /\ req \in ReqTables /\ unreadCount \in CacheTables
        /\ time \in Moments /\ taskOpen \in BOOLEAN /\ lastMessageAt \in Moments
        /\ messages \subseteq Message
        /\ threadRead \in [Users -> [lastReadAt : Moments, important : BOOLEAN]]
        /\ stored \subseteq Files /\ notifications \subseteq Notification
        /\ faults \in 0..MaxFaults
        /\ known \in [Users -> SUBSET Moments] /\ misled \subseteq Moments
    BY DEF TypeOK, ReqTables, CacheTables
  <1>1. CASE SendBegins(r)
    <2>1. PICK u \in Users, files \in 0..MaxFiles :
            Begins(r, [Request("send", "upload", u) EXCEPT !.moment = time', !.toUpload = files])
      BY <1>1 DEF SendBegins
    <2>2. time' \in Moments
      BY <1>1, TimeType DEF SendBegins
    <2>3. Request("send", "upload", u) \in RequestRow
      BY RequestType DEF Ops, Ats
    <2>4. [Request("send", "upload", u) EXCEPT !.moment = time', !.toUpload = files] \in RequestRow
      BY <2>2, <2>3 DEF RequestRow
    <2>5. req' \in ReqTables
      BY <1>0, <2>1, <2>4, TableUpdates DEF Begins
    <2> QED
      BY <1>0, <1>1, <2>2, <2>5, RestType DEF SendBegins, Typed
  <1>2. CASE SendUploads(r)
    <2>1. req[r] \in RequestRow
      BY <1>0, <1>2 DEF SendUploads, At, ReqTables
    <2>2. /\ req[r].moment \in Moments /\ req[r].toUpload \in 1..MaxFiles
          /\ req[r].toUpload - 1 \in 0..MaxFiles
      BY <1>2, <2>1, BoundsAssumption DEF SendUploads, HasFiles, RequestRow
    <2>3. stored' \subseteq Files
      BY <1>0, <1>2, <2>2 DEF SendUploads, Files
    <2>4. [req[r] EXCEPT !.toUpload = req[r].toUpload - 1] \in RequestRow
      BY <2>1, <2>2 DEF RequestRow
    <2>5. req' = [req EXCEPT ![r] = [req[r] EXCEPT !.toUpload = req[r].toUpload - 1]]
      BY <1>0, <1>2 DEF SendUploads, ReqTables
    <2>6. req' \in ReqTables
      BY <1>0, <2>4, <2>5, TableUpdates
    <2> QED
      BY <1>0, <1>2, <2>3, <2>6, ThreadRestType DEF SendUploads, Typed
  <1>3. CASE SendUploadFails(r)
    <2>1. /\ stored' \subseteq Files /\ misled' \subseteq Moments /\ faults' \in 0..MaxFaults
      BY <1>0, <1>3, CleanupType, UnansweredType DEF SendUploadFails, At, Typed
    <2>2. req' \in ReqTables
      BY <1>0, <1>3 DEF SendUploadFails, Ends, ReqTables
    <2> QED
      BY <1>0, <1>3, <2>1, <2>2, ThreadRestType DEF SendUploadFails, Typed
  <1>4. CASE SendInserts(r)
    <2>1. req[r] \in RequestRow
      BY <1>0, <1>4 DEF SendInserts, At, ReqTables
    <2>2. Other(req[r].user) \in Users
      BY <2>1, UserOther DEF RequestRow
    <2>3. [req EXCEPT ![r].at = "commit"] \in ReqTables
      BY <1>0, <1>4, GoesToIs, TableUpdates DEF SendInserts, At, Ats
    <2>4. req' \in ReqTables /\ unreadCount' \in CacheTables /\ faults' \in 0..MaxFaults
      BY <1>4, <2>2, <2>3, InvalidateType DEF SendInserts
    <2> QED
      BY <1>0, <1>4, <2>4, RestType DEF SendInserts, Typed
  <1>5. CASE SendCommits(r)
    BY <1>0, <1>5, WriteType, ThreadRestType DEF SendCommits, At, Typed
  <1>6. CASE SendRollsBack(r)
    <2>1. /\ stored' \subseteq Files /\ misled' \subseteq Moments /\ faults' \in 0..MaxFaults
      BY <1>6, CleanupType DEF SendRollsBack, At
    <2>2. req' \in ReqTables
      BY <1>0, <1>6 DEF SendRollsBack, Ends, ReqTables
    <2> QED
      BY <1>0, <1>6, <2>1, <2>2, ThreadRestType DEF SendRollsBack, Typed
  <1>7. CASE SendAnswerLost(r)
    <2>1. req[r].moment \in Moments /\ req[r] # Idle
      BY <1>0, <1>7 DEF SendAnswerLost, At, ReqTables, RequestRow
    <2>2. stored' \subseteq Files /\ misled' \subseteq Moments
      BY <1>0, <1>7, <2>1 DEF SendAnswerLost, UploadedBy
    <2> QED
      BY <1>0, <1>7, <2>1, <2>2, FaultType, WriteType, ThreadRestType DEF SendAnswerLost, Typed
  <1>8. CASE MarkReadBegins(r)
    <2>1. {m.sentAt : m \in messages} \cup BeingSent \in SUBSET Moments
      BY <1>0 DEF Message, BeingSent, ReqTables, RequestRow
    <2>2. PICK u \in Users :
            Begins(r, [Request("markRead", "write", u) EXCEPT
              !.moment = time', !.found = {m.sentAt : m \in messages} \cup BeingSent])
      BY <1>8 DEF MarkReadBegins
    <2>3. time' \in Moments
      BY <1>8, TimeType DEF MarkReadBegins
    <2>4. Request("markRead", "write", u) \in RequestRow
      BY RequestType DEF Ops, Ats
    <2>5. [Request("markRead", "write", u) EXCEPT
            !.moment = time', !.found = {m.sentAt : m \in messages} \cup BeingSent] \in RequestRow
      BY <2>1, <2>3, <2>4 DEF RequestRow
    <2>6. req' \in ReqTables
      BY <1>0, <2>2, <2>5, TableUpdates DEF Begins
    <2> QED
      BY <1>0, <1>8, <2>3, <2>6, RestType DEF MarkReadBegins, Typed
  <1>9. CASE MarkReadWrites(r)
    <2>1. req[r] \in RequestRow
      BY <1>0, <1>9 DEF MarkReadWrites, At, ReqTables
    <2>2. /\ threadRead' \in [Users -> [lastReadAt : Moments, important : BOOLEAN]]
          /\ known' \in [Users -> SUBSET Moments]
      BY <1>0, <1>9, <2>1 DEF MarkReadWrites, RequestRow
    <2>3. req' \in ReqTables
      BY <1>0, <1>9 DEF MarkReadWrites, Ends, ReqTables
    <2> QED
      BY <1>0, <1>9, <2>2, <2>3, ThreadRestType DEF MarkReadWrites, Typed
  <1> QED
    BY <1>1, <1>2, <1>3, <1>4, <1>5, <1>6, <1>7, <1>8, <1>9 DEF ThreadStep

LEMMA TypedStep == ASSUME Typed, [Next]_vars PROVE Typed'
  <1> TypeOK /\ IsFiniteSet(notifications)
    BY DEF Typed
  <1>0. /\ req \in ReqTables /\ unreadCount \in CacheTables
        /\ time \in Moments /\ taskOpen \in BOOLEAN /\ lastMessageAt \in Moments
        /\ messages \subseteq Message
        /\ threadRead \in [Users -> [lastReadAt : Moments, important : BOOLEAN]]
        /\ stored \subseteq Files /\ notifications \subseteq Notification
        /\ faults \in 0..MaxFaults
        /\ known \in [Users -> SUBSET Moments] /\ misled \subseteq Moments
    BY DEF TypeOK, ReqTables, CacheTables
  <1>1. CASE EntryExpires
    <2>1. unreadCount' \in CacheTables
      BY <1>0, <1>1 DEF EntryExpires, CacheTables
    <2> QED
      BY <1>0, <1>1, <2>1, RestType DEF EntryExpires, Typed
  <1>2. CASE TaskDeleted
    BY <1>0, <1>2, ThreadRestType DEF TaskDeleted, Typed
  <1>3. CASE MarkThreadImportantOrNot
    <2>1. threadRead' \in [Users -> [lastReadAt : Moments, important : BOOLEAN]]
      BY <1>0, <1>3 DEF MarkThreadImportantOrNot, MarkedThreadRow
    <2> QED
      BY <1>0, <1>3, <2>1, ThreadRestType DEF MarkThreadImportantOrNot, Typed
  <1>4. CASE MarkMessageImportantOrNot
    <2>1. messages' \subseteq Message
      BY <1>0, <1>4 DEF MarkMessageImportantOrNot, Message
    <2> QED
      BY <1>0, <1>4, <2>1, ThreadRestType DEF MarkMessageImportantOrNot, Typed
  <1>5. ASSUME NEW r \in Requests, Dies(r) PROVE Typed'
    <2>1. req[r] \in RequestRow /\ [req EXCEPT ![r] = Idle] \in ReqTables
      BY <1>0, <1>5 DEF Dies, ReqTables
    <2>2. misled' \subseteq Moments
      BY <1>0, <1>5, <2>1 DEF Dies, RequestRow
    <2>3. req' \in ReqTables /\ unreadCount' \in CacheTables
      <3>1. CASE req[r].at = "invalidate"
        <4>1. req[r].user \in Users
          BY <2>1 DEF RequestRow
        <4>2. /\ req' = Outdate([req EXCEPT ![r] = Idle], req[r].user)
              /\ unreadCount' = [unreadCount EXCEPT ![req[r].user] =
                                   IF @ = NoEntry THEN @ ELSE [@ EXCEPT !.outdated = TRUE]]
          BY <1>5, <3>1 DEF Dies
        <4> QED
          BY <2>1, <4>1, <4>2, OutdateKeeps, CacheOutdatedType
      <3>2. CASE req[r].at # "invalidate"
        BY <1>0, <1>5, <2>1, <3>2 DEF Dies, Ends
      <3> QED
        BY <3>1, <3>2
    <2>4. faults' \in 0..MaxFaults
      BY <1>5, FaultType DEF Dies
    <2> QED
      BY <1>0, <1>5, <2>2, <2>3, <2>4, ThreadRestType DEF Dies, Typed
  <1>6. CASE UNCHANGED vars
    BY <1>0, <1>6, RestType DEF vars, Typed
  <1> QED
    BY <1>1, <1>2, <1>3, <1>4, <1>5, <1>6, NotificationStepType, ThreadStepType
    DEF Next, Background

LEMMA TypedInit == Init => Typed
  BY BoundsAssumption, FS_EmptySet
  DEF Init, Typed, TypeOK, Moments, Message, Notification, CacheEntry

\* Messages, notifications, their cached counts and the requests that work on them keep
\* their types (services/chat, services/notifications).
THEOREM TypeCorrect == Spec => []TypeOK
  <1>1. Typed => TypeOK
    BY DEF Typed
  <1> QED
    BY <1>1, TypedInit, TypedStep, PTL DEF Spec

-----------------------------------------------------------------------------
(* What a user may mark *)

\* Whatever a persona may mark (services/notifications) its list shows; and what its list
\* shows it may mark, except the review of a developer by a user who has a developer
\* profile as well.
THEOREM MarkableIsListed ==
  \A k \in RaisedKinds, persona \in Personas :
    /\ IsNotificationRelevantForPersona(k, persona) => Visible(k, persona)
    /\ Visible(k, persona) =>
         \/ IsNotificationRelevantForPersona(k, persona)
         \/ k.type = "REVIEW_CREATED" /\ ~k.own /\ k.byDeveloper
  <1> SUFFICES ASSUME NEW k \in RaisedKinds, NEW persona \in Personas
               PROVE  /\ IsNotificationRelevantForPersona(k, persona) => Visible(k, persona)
                      /\ Visible(k, persona) =>
                           \/ IsNotificationRelevantForPersona(k, persona)
                           \/ k.type = "REVIEW_CREATED" /\ ~k.own /\ k.byDeveloper
    OBVIOUS
  <1>0. /\ k.type \in Types /\ k.own \in BOOLEAN /\ k.byDeveloper \in BOOLEAN
        /\ k.type \in OwnerTypes => k.own
        /\ k.type \in WorkerTypes => ~k.own
        /\ k.type = "REVIEW_CREATED" /\ k.own => k.byDeveloper
        /\ persona = "company" \/ persona = "developer"
    BY DEF RaisedKinds, Kinds, Personas, Users
  <1>1. CASE k.type \in OwnerTypes
    BY <1>0, <1>1 DEF IsNotificationRelevantForPersona, Visible, OwnerTypes, WorkerTypes,
                      TwoWayTypes, CommonTypes
  <1>2. CASE k.type \in WorkerTypes
    BY <1>0, <1>2 DEF IsNotificationRelevantForPersona, Visible, OwnerTypes, WorkerTypes,
                      TwoWayTypes, CommonTypes
  <1>3. CASE k.type \in TwoWayTypes
    BY <1>0, <1>3 DEF IsNotificationRelevantForPersona, Visible, OwnerTypes, WorkerTypes,
                      TwoWayTypes, CommonTypes
  <1>4. CASE k.type \in CommonTypes
    BY <1>0, <1>4 DEF IsNotificationRelevantForPersona, Visible, OwnerTypes, WorkerTypes,
                      TwoWayTypes, CommonTypes
  <1>5. CASE k.type = "REVIEW_CREATED"
    BY <1>0, <1>5 DEF IsNotificationRelevantForPersona, Visible, OwnerTypes, WorkerTypes,
                      TwoWayTypes, CommonTypes
  <1> QED
    BY <1>0, <1>1, <1>2, <1>3, <1>4, <1>5 DEF Types

-----------------------------------------------------------------------------
(* The requests that send a message or mark the thread *)

Sending(p) == req[p] # Idle /\ req[p].op = "send"
Marking(p) == req[p] # Idle /\ req[p].op = "markRead"
OfThread(p) == Sending(p) \/ Marking(p)

\* None of them is about to delete a cached count.
NoneInvalidates == \A p \in Requests : OfThread(p) => req[p].at # "invalidate"

\* If request p is one of them after the step, it was before it, on the same errand.
Earlier(p) ==
  OfThread(p)' => OfThread(p) /\ SameErrand(req'[p], req[p]) /\ req'[p].at # "invalidate"

\* If request p sends a message before the step, it does so after it.
StillSends(p) == Sending(p) => Sending(p)' /\ req'[p].moment = req[p].moment

\* The next table is this one, but for counts that are outdated.
Follows(reqs) ==
  \A p \in Requests :
    /\ req'[p] = Idle <=> reqs[p] = Idle
    /\ reqs[p] # Idle => SameErrand(req'[p], reqs[p]) /\ req'[p].at = reqs[p].at

LEMMA FollowsIf ==
  ASSUME NEW reqs \in ReqTables, NEW u \in Users, req' = reqs \/ req' = Outdate(reqs, u)
  PROVE  Follows(reqs)
  <1>1. CASE req' = reqs
    BY <1>1 DEF Follows, SameErrand
  <1>2. CASE req' = Outdate(reqs, u)
    BY <1>2, OutdateKeeps DEF Follows
  <1> QED
    BY <1>1, <1>2

LEMMA BeginsFrame ==
  ASSUME req \in ReqTables, NoneInvalidates, NEW r \in Requests, NEW q \in RequestRow,
         req[r] = Idle, q.op \notin {"send", "markRead"}, Follows([req EXCEPT ![r] = q])
  PROVE  \A p \in Requests : Earlier(p) /\ StillSends(p)
  <1> SUFFICES ASSUME NEW p \in Requests PROVE Earlier(p) /\ StillSends(p)
    OBVIOUS
  <1>1. CASE p = r
    BY <1>1, TableUpdates DEF Follows, Earlier, StillSends, OfThread, Sending, Marking, SameErrand
  <1>2. CASE p # r
    BY <1>2, TableUpdates
    DEF Follows, Earlier, StillSends, OfThread, Sending, Marking, SameErrand, NoneInvalidates
  <1> QED
    BY <1>1, <1>2

LEMMA EndsFrame ==
  ASSUME req \in ReqTables, NoneInvalidates, NEW r \in Requests,
         Follows([req EXCEPT ![r] = Idle])
  PROVE  /\ \A p \in Requests : Earlier(p)
         /\ \A p \in Requests \ {r} : StillSends(p)
         /\ ~OfThread(r)'
  <1>1. [req EXCEPT ![r] = Idle][r] = Idle
    BY DEF ReqTables
  <1>2. ~OfThread(r)'
    BY <1>1 DEF Follows, OfThread, Sending, Marking
  <1>3. ASSUME NEW p \in Requests \ {r} PROVE Earlier(p) /\ StillSends(p)
    <2>1. [req EXCEPT ![r] = Idle][p] = req[p]
      BY DEF ReqTables
    <2> QED
      BY <2>1
      DEF Follows, Earlier, StillSends, OfThread, Sending, Marking, SameErrand, NoneInvalidates
  <1> QED
    BY <1>2, <1>3 DEF Earlier

LEMMA MovesFrame ==
  ASSUME req \in ReqTables, NoneInvalidates, NEW r \in Requests, req[r] # Idle,
         NEW q \in RequestRow, q.op = req[r].op, q.moment = req[r].moment,
         SameErrand(q, req[r]) \/ q.op \notin {"send", "markRead"},
         OfThread(r) => q.at # "invalidate", Follows([req EXCEPT ![r] = q])
  PROVE  \A p \in Requests : Earlier(p) /\ StillSends(p)
  <1> SUFFICES ASSUME NEW p \in Requests PROVE Earlier(p) /\ StillSends(p)
    OBVIOUS
  <1>0. q # Idle
    BY NullAssumption
  <1>1. CASE p = r
    <2>1. [req EXCEPT ![r] = q][r] = q
      BY DEF ReqTables
    <2>2. /\ req'[r] # Idle /\ req'[r].at = q.at /\ SameErrand(req'[r], q)
      BY <1>0, <2>1 DEF Follows
    <2>3. /\ req'[r].op = req[r].op /\ req'[r].moment = req[r].moment
          /\ SameErrand(req'[r], req[r]) \/ ~OfThread(r)
      BY <2>2 DEF SameErrand, OfThread, Sending, Marking
    <2>4. Sending(r)' <=> Sending(r)
      BY <2>2, <2>3 DEF Sending
    <2>5. Marking(r)' <=> Marking(r)
      BY <2>2, <2>3 DEF Marking
    <2> QED
      BY <1>1, <2>2, <2>3, <2>4, <2>5 DEF Earlier, StillSends, OfThread
  <1>2. CASE p # r
    BY <1>2, TableUpdates
    DEF Follows, Earlier, StillSends, OfThread, Sending, Marking, SameErrand, NoneInvalidates
  <1> QED
    BY <1>1, <1>2

LEMMA SameFrame ==
  ASSUME NoneInvalidates, UNCHANGED req
  PROVE  \A p \in Requests : Earlier(p) /\ StillSends(p)
  BY DEF Earlier, StillSends, OfThread, Sending, Marking, SameErrand, NoneInvalidates

\* A step of the notifications is none of theirs.
LEMMA NotificationFrame ==
  ASSUME Typed, NoneInvalidates, NEW r \in Requests, NotificationStep(r)
  PROVE  \A p \in Requests : Earlier(p) /\ StillSends(p)
  <1>0. /\ req \in ReqTables /\ notifications \subseteq Notification
        /\ req[r] # Idle => req[r] \in RequestRow
    BY DEF Typed, TypeOK, ReqTables
  <1>1. ASSUME NEW q \in RequestRow, q.op \notin {"send", "markRead"},
               req[r] = Idle, NEW v \in Users,
               req' = [req EXCEPT ![r] = q] \/ req' = Outdate([req EXCEPT ![r] = q], v)
        PROVE  \A p \in Requests : Earlier(p) /\ StillSends(p)
    <2>1. [req EXCEPT ![r] = q] \in ReqTables
      BY <1>0 DEF ReqTables
    <2>2. Follows([req EXCEPT ![r] = q])
      BY <1>1, <2>1, FollowsIf
    <2> QED
      BY <1>0, <1>1, <2>2, BeginsFrame
  <1>2. ASSUME NEW v \in Users, req[r] # Idle, ~OfThread(r),
               req' = [req EXCEPT ![r] = Idle] \/ req' = Outdate([req EXCEPT ![r] = Idle], v)
        PROVE  \A p \in Requests : Earlier(p) /\ StillSends(p)
    <2>1. [req EXCEPT ![r] = Idle] \in ReqTables
      BY <1>0 DEF ReqTables
    <2> QED
      BY <1>0, <1>2, <2>1, FollowsIf, EndsFrame DEF StillSends, OfThread
  <1>3. CASE ListMisses(r)
    <2>1. PICK u \in Users : Begins(r, Request("list", "count", u))
      BY <1>3 DEF ListMisses
    <2>2. Request("list", "count", u) \in RequestRow /\ Request("list", "count", u).op = "list"
      BY RequestType DEF Ops, Ats
    <2> QED
      BY <1>1, <2>1, <2>2 DEF Begins
  <1>4. CASE ListCounts(r)
    <2> DEFINE q == [req[r] EXCEPT !.at = "store", !.count = Unread(req[r].user)]
    <2>1. req[r] # Idle /\ req[r] \in RequestRow /\ req[r].op = "list"
      BY <1>0, <1>4 DEF ListCounts, At
    <2>2. req[r].user \in Users
      BY <2>1 DEF RequestRow
    <2>3. /\ q \in RequestRow /\ q.op = "list" /\ q.moment = req[r].moment
      BY <2>1, <2>2, UnreadType DEF RequestRow
    <2>4. req' = [req EXCEPT ![r] = q]
      BY <1>0, <1>4 DEF ListCounts, ReqTables
    <2>5. Follows([req EXCEPT ![r] = q])
      BY <1>0, <2>2, <2>3, <2>4, TableUpdates, FollowsIf
    <2>6. ~OfThread(r)
      BY <2>1 DEF OfThread, Sending, Marking
    <2> HIDE DEF q
    <2> QED
      BY <1>0, <2>1, <2>3, <2>5, <2>6, MovesFrame
  <1>5. CASE ListStores(r)
    <2>1. req[r] # Idle /\ ~OfThread(r)
      BY <1>5 DEF ListStores, At, OfThread, Sending, Marking
    <2> QED
      BY <1>2, <1>5, <2>1 DEF ListStores, Ends, Users
  <1>6. CASE Raise(r)
    <2>1. PICK to \in Raised :
            InvalidateOrLose(to[1], [req EXCEPT ![r] =
              [Request("raise", "commit", to[1]) EXCEPT !.moment = time', !.kind = to[2]]])
      BY <1>6 DEF Raise
    <2>2. to[1] \in Users /\ to[2] \in Kinds
      BY RaisedAssumption DEF RaisedKinds
    <2> DEFINE q == [Request("raise", "commit", to[1]) EXCEPT !.moment = time', !.kind = to[2]]
    <2>3. time' \in Moments
      BY <1>6, TimeType DEF Raise, Typed
    <2>4. Request("raise", "commit", to[1]) \in RequestRow
          /\ Request("raise", "commit", to[1]).op = "raise"
      BY <2>2, RequestType DEF Ops, Ats
    <2>5. q \in RequestRow /\ q.op = "raise"
      BY <2>2, <2>3, <2>4 DEF RequestRow
    <2>6. req' = Outdate([req EXCEPT ![r] = q], to[1])
      BY <2>1 DEF InvalidateOrLose, InvalidateCachedUnreadNotificationCount, LoseInvalidation
    <2> HIDE DEF q
    <2> QED
      BY <1>1, <1>6, <2>2, <2>5, <2>6 DEF Raise
  <1>7. CASE RaiseCommits(r)
    <2>1. req[r] # Idle /\ ~OfThread(r)
      BY <1>7 DEF RaiseCommits, At, OfThread, Sending, Marking
    <2>2. req[r].user \in Users
      BY <1>0, <2>1 DEF RequestRow
    <2> QED
      BY <1>2, <1>7, <2>1, <2>2 DEF RaiseCommits, CommitsNotification
  <1>8. CASE RaiseAtOnce(r)
    <2>1. PICK to \in Raised : Begins(r, Request("raise", "invalidate", to[1]))
      BY <1>8 DEF RaiseAtOnce
    <2>2. to[1] \in Users
      BY RaisedAssumption
    <2>3. /\ Request("raise", "invalidate", to[1]) \in RequestRow
          /\ Request("raise", "invalidate", to[1]).op = "raise"
      BY <2>2, RequestType DEF Ops, Ats
    <2> QED
      BY <1>1, <2>1, <2>2, <2>3 DEF Begins
  <1>9. CASE Mark(r)
    <2>1. PICK n \in notifications : MarkInvalidates(r, n)
      BY <1>9 DEF Mark
    <2>2. n.user \in Users
      BY <1>0 DEF Notification
    <2>3. /\ Request("mark", "invalidate", n.user) \in RequestRow
          /\ Request("mark", "invalidate", n.user).op = "mark"
      BY <2>2, RequestType DEF Ops, Ats
    <2> QED
      BY <1>1, <2>1, <2>2, <2>3 DEF MarkInvalidates, Begins
  <1>10. CASE MarkAllFinds(r)
    <2>1. PICK u \in Users, found \in SUBSET Moments :
            Begins(r, [Request("markAll", "write", u) EXCEPT !.found = found])
      <3>1. PICK u \in Users, persona \in Personas :
              Begins(r, [Request("markAll", "write", u) EXCEPT
                !.found = {n.id : n \in {k \in Of(u) : /\ ~k.read
                             /\ IsNotificationRelevantForPersona(k.kind, persona)}}])
        BY <1>10 DEF MarkAllFinds
      <3>2. {n.id : n \in {k \in Of(u) : /\ ~k.read
                /\ IsNotificationRelevantForPersona(k.kind, persona)}} \in SUBSET Moments
        BY <1>0 DEF Of, Notification
      <3> QED
        BY <3>1, <3>2
    <2>2. Request("markAll", "write", u) \in RequestRow
          /\ Request("markAll", "write", u).op = "markAll"
      BY RequestType DEF Ops, Ats
    <2>3. /\ [Request("markAll", "write", u) EXCEPT !.found = found] \in RequestRow
          /\ [Request("markAll", "write", u) EXCEPT !.found = found].op = "markAll"
      BY <2>2 DEF RequestRow
    <2> QED
      BY <1>1, <2>1, <2>3 DEF Begins
  <1>11. CASE MarkAllWrites(r)
    <2> DEFINE q == [req[r] EXCEPT !.at = "invalidate"]
    <2>1. req[r] # Idle /\ req[r] \in RequestRow /\ req[r].op = "markAll"
      BY <1>0, <1>11 DEF MarkAllWrites, At
    <2>2. /\ q \in RequestRow /\ SameErrand(q, req[r]) /\ req' = [req EXCEPT ![r] = q]
      BY <1>0, <1>11, <2>1, GoesToIs DEF MarkAllWrites, GoesTo, Ats
    <2>3. Follows([req EXCEPT ![r] = q])
      BY <1>0, <2>2, TableUpdates, FollowsIf DEF Users
    <2>4. ~OfThread(r)
      BY <2>1 DEF OfThread, Sending, Marking
    <2> HIDE DEF q
    <2> QED
      BY <1>0, <2>1, <2>2, <2>3, <2>4, MovesFrame DEF SameErrand
  <1>12. CASE Invalidates(r)
    <2>1. req[r] # Idle /\ ~OfThread(r)
      BY <1>12 DEF Invalidates, NoneInvalidates
    <2>2. req[r].user \in Users
      BY <1>0, <2>1 DEF RequestRow
    <2>3. req' = Outdate([req EXCEPT ![r] = Idle], req[r].user)
      BY <1>12 DEF Invalidates, InvalidateOrLose, InvalidateCachedUnreadNotificationCount,
                   LoseInvalidation
    <2> QED
      BY <1>2, <2>1, <2>2, <2>3
  <1> QED
    BY <1>3, <1>4, <1>5, <1>6, <1>7, <1>8, <1>9, <1>10, <1>11, <1>12 DEF NotificationStep

-----------------------------------------------------------------------------
(* When a message counts as read *)

\* No moment lies ahead, and whatever lies before a user's last mark of the thread, or
\* before one under way, was known when that mark began.
ReadInv ==
  /\ \A m \in messages : m.sentAt <= time
  /\ \A p \in Requests : OfThread(p) => req[p].moment <= time
  /\ \A u \in Users : threadRead[u].lastReadAt <= time
  /\ \A u \in Users, m \in messages :
       m.sentAt <= threadRead[u].lastReadAt => m.sentAt \in known[u]
  /\ \A u \in Users, p \in Requests :
       Sending(p) /\ req[p].moment <= threadRead[u].lastReadAt => req[p].moment \in known[u]
  /\ \A r \in Requests, m \in messages :
       Marking(r) /\ m.sentAt <= req[r].moment => m.sentAt \in req[r].found
  /\ \A r, p \in Requests :
       Marking(r) /\ Sending(p) /\ req[p].moment <= req[r].moment => req[p].moment \in req[r].found

\* The messages are the same, but for what is marked important.
SameMessages ==
  /\ \A m \in messages' : \E k \in messages : m.sentAt = k.sentAt /\ m.files = k.files
  /\ \A k \in messages : \E m \in messages' : m.sentAt = k.sentAt /\ m.files = k.files

SameReads ==
  known' = known /\ \A u \in Users : threadRead'[u].lastReadAt = threadRead[u].lastReadAt

LEMMA MomentsAreNumbers ==
  ASSUME TypeOK
  PROVE  /\ time \in Nat
         /\ \A m \in messages : m.sentAt \in Nat
         /\ \A p \in Requests : req[p] # Idle => req[p].moment \in Nat
         /\ \A u \in Users : threadRead[u].lastReadAt \in Nat
  BY BoundsAssumption DEF TypeOK, Moments, Message, RequestRow

LEMMA TimePasses == ASSUME TypeOK, TypeOK', TakesTime PROVE time' > time /\ time' >= time
  BY MomentsAreNumbers DEF TakesTime

\* A step that sends nothing and marks nothing.
LEMMA ReadQuiet ==
  ASSUME TypeOK, TypeOK', ReadInv, time' >= time, SameMessages, SameReads,
         \A p \in Requests : Earlier(p)
  PROVE  ReadInv'
  <1>0. /\ time \in Nat /\ time' \in Nat
        /\ \A m \in messages : m.sentAt \in Nat
        /\ \A p \in Requests : req[p] # Idle => req[p].moment \in Nat
        /\ \A u \in Users : threadRead[u].lastReadAt \in Nat
    BY MomentsAreNumbers, BoundsAssumption DEF TypeOK, Moments
  <1>1. \A m \in messages' : m.sentAt <= time'
    BY <1>0 DEF ReadInv, SameMessages
  <1>2. ASSUME NEW p \in Requests, OfThread(p)'
        PROVE  req'[p].moment <= time'
    <2>1. OfThread(p) /\ req'[p].moment = req[p].moment /\ req[p] # Idle
      BY <1>2 DEF Earlier, SameErrand, OfThread, Sending, Marking
    <2> QED
      BY <1>0, <2>1 DEF ReadInv
  <1>3. \A u \in Users : threadRead'[u].lastReadAt <= time'
    BY <1>0 DEF ReadInv, SameReads
  <1>4. \A u \in Users, m \in messages' :
          m.sentAt <= threadRead'[u].lastReadAt => m.sentAt \in known'[u]
    BY DEF ReadInv, SameReads, SameMessages
  <1>5. ASSUME NEW p \in Requests
        PROVE  /\ Sending(p)' => Sending(p) /\ req'[p].moment = req[p].moment
               /\ Marking(p)' => /\ Marking(p) /\ req'[p].moment = req[p].moment
                                 /\ req'[p].found = req[p].found
    BY DEF Earlier, SameErrand, OfThread, Sending, Marking
  <1>6. \A u \in Users, p \in Requests :
          Sending(p)' /\ req'[p].moment <= threadRead'[u].lastReadAt => req'[p].moment \in known'[u]
    BY <1>5 DEF ReadInv, SameReads
  <1>7. \A r \in Requests, m \in messages' :
          Marking(r)' /\ m.sentAt <= req'[r].moment => m.sentAt \in req'[r].found
    BY <1>5 DEF ReadInv, SameMessages
  <1>8. \A r, p \in Requests :
          Marking(r)' /\ Sending(p)' /\ req'[p].moment <= req'[r].moment
            => req'[p].moment \in req'[r].found
    BY <1>5 DEF ReadInv
  <1> QED
    BY <1>1, <1>2, <1>3, <1>4, <1>6, <1>7, <1>8 DEF ReadInv

\* A message begins to be sent: it is later than everything.
LEMMA ReadSendBegins ==
  ASSUME Typed, TypeOK', ReadInv, NEW r \in Requests, SendBegins(r)
  PROVE  ReadInv'
  <1>0. /\ time \in Nat /\ time' = time + 1 /\ req[r] = Idle
        /\ \A m \in messages : m.sentAt \in Nat
        /\ \A p \in Requests : req[p] # Idle => req[p].moment \in Nat
        /\ \A u \in Users : threadRead[u].lastReadAt \in Nat
    BY MomentsAreNumbers DEF SendBegins, TakesTime, Begins, Typed
  <1>1. /\ messages' = messages /\ threadRead' = threadRead /\ known' = known
    BY DEF SendBegins, chatVars
  <1>2. PICK u \in Users, files \in 0..MaxFiles :
          Begins(r, [Request("send", "upload", u) EXCEPT !.moment = time', !.toUpload = files])
    BY DEF SendBegins
  <1>3. Request("send", "upload", u) \in RequestRow /\ Request("send", "upload", u).op = "send"
    BY RequestType DEF Ops, Ats
  <1>4. req'[r].op = "send" /\ req'[r].moment = time'
    BY <1>2, <1>3 DEF Begins, Typed, TypeOK, RequestRow
  <1>5. \A p \in Requests \ {r} : req'[p] = req[p]
    BY <1>2 DEF Begins, Typed, TypeOK
  <1>6. \A p \in Requests :
          /\ Sending(p)' => p = r \/ (Sending(p) /\ req'[p] = req[p])
          /\ Marking(p)' => p # r /\ Marking(p) /\ req'[p] = req[p]
    BY <1>4, <1>5 DEF Sending, Marking
  <1>7. /\ \A p \in Requests : OfThread(p)' => req'[p].moment <= time'
        /\ \A m \in messages' : m.sentAt <= time'
        /\ \A v \in Users : threadRead'[v].lastReadAt <= time'
    BY <1>0, <1>1, <1>4, <1>6 DEF ReadInv, OfThread, Sending, Marking
  <1>8. \A v \in Users, p \in Requests :
          Sending(p)' /\ req'[p].moment <= threadRead'[v].lastReadAt => req'[p].moment \in known'[v]
    BY <1>0, <1>1, <1>4, <1>6 DEF ReadInv
  <1>9. \A q, p \in Requests :
          Marking(q)' /\ Sending(p)' /\ req'[p].moment <= req'[q].moment
            => req'[p].moment \in req'[q].found
    BY <1>0, <1>4, <1>6 DEF ReadInv, OfThread, Marking
  <1>10. \A q \in Requests, m \in messages' :
          Marking(q)' /\ m.sentAt <= req'[q].moment => m.sentAt \in req'[q].found
    BY <1>1, <1>6 DEF ReadInv
  <1> QED
    BY <1>1, <1>7, <1>8, <1>9, <1>10 DEF ReadInv

\* A message is written: its moment was that of the request that sent it.
LEMMA ReadWrites ==
  ASSUME Typed, TypeOK', ReadInv, NoneInvalidates, NEW r \in Requests, Sending(r),
         SendWrites(r), UNCHANGED <<time, threadRead, known>>
  PROVE  ReadInv' /\ (\A p \in Requests : Earlier(p)) /\ ~OfThread(r)'
                  /\ \A p \in Requests \ {r} : StillSends(p)
  <1>1. req[r] # Idle /\ req[r] \in RequestRow /\ req[r].user \in Users
    BY DEF Sending, Typed, TypeOK, RequestRow
  <1>2. req' = Outdate([req EXCEPT ![r] = Idle], Other(req[r].user))
    BY DEF SendWrites, CommitsNotification
  <1>3. Follows([req EXCEPT ![r] = Idle])
    <2>1. Other(req[r].user) \in Users
      BY <1>1, UserOther
    <2>2. [req EXCEPT ![r] = Idle] \in ReqTables
      BY DEF Typed, TypeOK, ReqTables
    <2> QED
      BY <1>2, <2>1, <2>2, FollowsIf
  <1>4. /\ \A p \in Requests : Earlier(p)
        /\ ~OfThread(r)'
        /\ \A p \in Requests \ {r} : StillSends(p)
    <2>1. req \in ReqTables
      BY DEF Typed, TypeOK, ReqTables
    <2> QED
      BY <1>3, <2>1, EndsFrame
  <1>5. \A m \in messages' : m \in messages \/ m.sentAt = req[r].moment
    BY DEF SendWrites
  <1>6. ASSUME NEW p \in Requests
        PROVE  /\ Sending(p)' => Sending(p) /\ req'[p].moment = req[p].moment
               /\ Marking(p)' => /\ Marking(p) /\ req'[p].moment = req[p].moment
                                 /\ req'[p].found = req[p].found
    BY <1>4 DEF Earlier, SameErrand, OfThread, Sending, Marking
  <1>7. /\ \A m \in messages' : m.sentAt <= time'
        /\ \A p \in Requests : OfThread(p)' => req'[p].moment <= time'
        /\ \A u \in Users : threadRead'[u].lastReadAt <= time'
    BY <1>5, <1>6 DEF ReadInv, OfThread
  <1>8. /\ \A u \in Users, m \in messages' :
             m.sentAt <= threadRead'[u].lastReadAt => m.sentAt \in known'[u]
        /\ \A u \in Users, p \in Requests :
             Sending(p)' /\ req'[p].moment <= threadRead'[u].lastReadAt => req'[p].moment \in known'[u]
    BY <1>5, <1>6 DEF ReadInv
  <1>9. /\ \A q \in Requests, m \in messages' :
             Marking(q)' /\ m.sentAt <= req'[q].moment => m.sentAt \in req'[q].found
        /\ \A q, p \in Requests :
             Marking(q)' /\ Sending(p)' /\ req'[p].moment <= req'[q].moment
               => req'[p].moment \in req'[q].found
    BY <1>5, <1>6 DEF ReadInv
  <1> QED
    BY <1>4, <1>7, <1>8, <1>9 DEF ReadInv

\* The thread begins to be marked: everything is known.
LEMMA ReadMarkBegins ==
  ASSUME Typed, TypeOK', ReadInv, NEW r \in Requests, MarkReadBegins(r)
  PROVE  ReadInv'
  <1>0. /\ time \in Nat /\ time' = time + 1 /\ req[r] = Idle
        /\ \A m \in messages : m.sentAt \in Nat
        /\ \A p \in Requests : req[p] # Idle => req[p].moment \in Nat
        /\ \A u \in Users : threadRead[u].lastReadAt \in Nat
    BY MomentsAreNumbers DEF MarkReadBegins, TakesTime, Begins, Typed
  <1>1. /\ messages' = messages /\ threadRead' = threadRead /\ known' = known
    BY DEF MarkReadBegins, chatVars
  <1> DEFINE all == {m.sentAt : m \in messages} \cup BeingSent
  <1>2. PICK u \in Users :
          Begins(r, [Request("markRead", "write", u) EXCEPT !.moment = time', !.found = all])
    BY DEF MarkReadBegins
  <1>3. /\ Request("markRead", "write", u) \in RequestRow
        /\ Request("markRead", "write", u).op = "markRead"
    BY RequestType DEF Ops, Ats
  <1>4. /\ \A m \in messages : m.sentAt \in all
        /\ \A p \in Requests : Sending(p) => req[p].moment \in all
    BY DEF BeingSent, Sending
  <1> HIDE DEF all
  <1>5. req'[r].op = "markRead" /\ req'[r].moment = time' /\ req'[r].found = all
    BY <1>2, <1>3 DEF Begins, Typed, TypeOK, RequestRow
  <1>6. \A p \in Requests \ {r} : req'[p] = req[p]
    BY <1>2 DEF Begins, Typed, TypeOK
  <1>7. \A p \in Requests :
          /\ Sending(p)' => p # r /\ Sending(p) /\ req'[p] = req[p]
          /\ Marking(p)' => p = r \/ (Marking(p) /\ req'[p] = req[p])
    BY <1>5, <1>6 DEF Sending, Marking
  <1>8. /\ \A p \in Requests : OfThread(p)' => req'[p].moment <= time'
        /\ \A m \in messages' : m.sentAt <= time'
        /\ \A v \in Users : threadRead'[v].lastReadAt <= time'
    BY <1>0, <1>1, <1>5, <1>7 DEF ReadInv, OfThread, Sending, Marking
  <1>9. \A v \in Users, p \in Requests :
          Sending(p)' /\ req'[p].moment <= threadRead'[v].lastReadAt => req'[p].moment \in known'[v]
    BY <1>1, <1>7 DEF ReadInv
  <1>10. \A q, p \in Requests :
          Marking(q)' /\ Sending(p)' /\ req'[p].moment <= req'[q].moment
            => req'[p].moment \in req'[q].found
    BY <1>4, <1>5, <1>7 DEF ReadInv
  <1>11. \A q \in Requests, m \in messages' :
          Marking(q)' /\ m.sentAt <= req'[q].moment => m.sentAt \in req'[q].found
    BY <1>1, <1>4, <1>5, <1>7 DEF ReadInv
  <1> QED
    BY <1>1, <1>8, <1>9, <1>10, <1>11 DEF ReadInv

\* The mark is written: what it found becomes what is known.
LEMMA ReadMarkWrites ==
  ASSUME Typed, TypeOK', ReadInv, NEW r \in Requests, MarkReadWrites(r)
  PROVE  ReadInv'
  <1>1. Marking(r) /\ req[r].user \in Users
    BY DEF MarkReadWrites, At, Marking, Typed, TypeOK, RequestRow
  <1>2. time' = time /\ messages' = messages
    BY DEF MarkReadWrites
  <1>3. \A p \in Requests :
          /\ Sending(p)' => Sending(p) /\ req'[p] = req[p]
          /\ Marking(p)' => Marking(p) /\ req'[p] = req[p]
    BY DEF MarkReadWrites, Ends, Sending, Marking, Typed, TypeOK
  <1>4. /\ threadRead'[req[r].user].lastReadAt = req[r].moment
        /\ known'[req[r].user] = req[r].found
        /\ \A u \in Users \ {req[r].user} :
             threadRead'[u] = threadRead[u] /\ known'[u] = known[u]
    BY <1>1 DEF MarkReadWrites, Typed, TypeOK
  <1>5. /\ \A m \in messages' : m.sentAt <= time'
        /\ \A p \in Requests : OfThread(p)' => req'[p].moment <= time'
        /\ \A u \in Users : threadRead'[u].lastReadAt <= time'
    BY <1>1, <1>2, <1>3, <1>4 DEF ReadInv, OfThread
  <1>6. /\ \A u \in Users, m \in messages' :
             m.sentAt <= threadRead'[u].lastReadAt => m.sentAt \in known'[u]
        /\ \A u \in Users, p \in Requests :
             Sending(p)' /\ req'[p].moment <= threadRead'[u].lastReadAt => req'[p].moment \in known'[u]
    BY <1>1, <1>2, <1>3, <1>4 DEF ReadInv
  <1>7. /\ \A q \in Requests, m \in messages' :
             Marking(q)' /\ m.sentAt <= req'[q].moment => m.sentAt \in req'[q].found
        /\ \A q, p \in Requests :
             Marking(q)' /\ Sending(p)' /\ req'[p].moment <= req'[q].moment
               => req'[p].moment \in req'[q].found
    BY <1>2, <1>3 DEF ReadInv
  <1> QED
    BY <1>5, <1>6, <1>7 DEF ReadInv

-----------------------------------------------------------------------------
(* Which files are in the storage *)

\* Messages that are sent or being sent have moments of their own, and a message has files
\* of its own moment.
FileInv ==
  /\ \A p, q \in Requests : Sending(p) /\ Sending(q) /\ p # q => req[p].moment # req[q].moment
  /\ \A p \in Requests, m \in messages : Sending(p) => m.sentAt # req[p].moment
  /\ \A m \in messages : \A f \in m.files : f[1] = m.sentAt
  /\ AttachmentsAreStored

LEMMA FileQuiet ==
  ASSUME FileInv, SameMessages, stored' = stored, misled' = misled,
         \A p \in Requests : Earlier(p) /\ StillSends(p)
  PROVE  FileInv'
  <1>1. \A p \in Requests : Sending(p)' => Sending(p) /\ req'[p].moment = req[p].moment
    BY DEF Earlier, SameErrand, OfThread, Sending, Marking
  <1>2. /\ \A p, q \in Requests :
             Sending(p)' /\ Sending(q)' /\ p # q => req'[p].moment # req'[q].moment
        /\ \A p \in Requests, m \in messages' : Sending(p)' => m.sentAt # req'[p].moment
        /\ \A m \in messages' : \A f \in m.files : f[1] = m.sentAt
    BY <1>1 DEF FileInv, SameMessages
  <1>3. BeingSent \subseteq BeingSent'
    BY DEF StillSends, BeingSent, Sending
  <1>4. /\ \A m \in messages' : m.files \subseteq stored' \/ m.sentAt \in misled'
        /\ \A f \in stored' : \/ \E m \in messages' : f \in m.files
                              \/ f[1] \in BeingSent' \cup misled'
    BY <1>3 DEF FileInv, AttachmentsAreStored, SameMessages
  <1> QED
    BY <1>2, <1>4 DEF FileInv, AttachmentsAreStored

LEMMA FileSendBegins ==
  ASSUME Typed, ReadInv, FileInv, NEW r \in Requests, SendBegins(r)
  PROVE  FileInv'
  <1>0. /\ time \in Nat /\ time' = time + 1 /\ req[r] = Idle
        /\ \A m \in messages : m.sentAt \in Nat
        /\ \A p \in Requests : req[p] # Idle => req[p].moment \in Nat
    BY MomentsAreNumbers DEF SendBegins, TakesTime, Begins, Typed
  <1>1. messages' = messages /\ stored' = stored /\ misled' = misled
    BY DEF SendBegins, chatVars
  <1>2. PICK u \in Users, files \in 0..MaxFiles :
          Begins(r, [Request("send", "upload", u) EXCEPT !.moment = time', !.toUpload = files])
    BY DEF SendBegins
  <1>3. Request("send", "upload", u) \in RequestRow
    BY RequestType DEF Ops, Ats
  <1>4. req'[r].moment = time'
    BY <1>2, <1>3 DEF Begins, Typed, TypeOK, RequestRow
  <1>5. \A p \in Requests \ {r} : req'[p] = req[p]
    BY <1>2 DEF Begins, Typed, TypeOK
  <1>6. \A p \in Requests : Sending(p) => p # r /\ req[p].moment <= time
    BY <1>0 DEF ReadInv, OfThread, Sending
  <1>7. /\ \A p, q \in Requests :
             Sending(p)' /\ Sending(q)' /\ p # q => req'[p].moment # req'[q].moment
    <2>1. \A p \in Requests : Sending(p)' /\ p # r =>
            Sending(p) /\ req'[p] = req[p] /\ req'[p].moment # time'
      BY <1>0, <1>5, <1>6 DEF Sending
    <2> QED
      BY <1>4, <2>1 DEF FileInv
  <1>8. \A p \in Requests, m \in messages' : Sending(p)' => m.sentAt # req'[p].moment
    <2>1. \A m \in messages : m.sentAt # time'
      BY <1>0 DEF ReadInv
    <2>2. \A p \in Requests : Sending(p)' /\ p # r => Sending(p) /\ req'[p] = req[p]
      BY <1>5 DEF Sending
    <2> QED
      BY <1>1, <1>4, <2>1, <2>2 DEF FileInv
  <1>9. BeingSent \subseteq BeingSent'
    BY <1>5, <1>6 DEF BeingSent, Sending
  <1> QED
    BY <1>1, <1>7, <1>8, <1>9 DEF FileInv, AttachmentsAreStored

\* A file is uploaded while its message is being sent.
LEMMA FileUploads ==
  ASSUME Typed, NoneInvalidates, FileInv, NEW r \in Requests, SendUploads(r)
  PROVE  FileInv' /\ \A p \in Requests : Earlier(p)
  <1> DEFINE q == [req[r] EXCEPT !.toUpload = req[r].toUpload - 1]
  <1>1. /\ req \in ReqTables /\ req[r] # Idle /\ req[r] \in RequestRow
        /\ Sending(r) /\ req[r].at = "upload" /\ req[r].toUpload > 0
    BY DEF SendUploads, At, HasFiles, Sending, Typed, TypeOK, ReqTables
  <1>2. /\ q \in RequestRow /\ SameErrand(q, req[r]) /\ q.at = "upload"
        /\ req' = [req EXCEPT ![r] = q]
    <2>1. req[r].toUpload - 1 \in 0..MaxFiles
      BY <1>1, BoundsAssumption DEF RequestRow
    <2>2. q \in RequestRow
      BY <1>1, <2>1 DEF RequestRow
    <2>3. SameErrand(q, req[r]) /\ q.at = "upload"
      BY <1>1 DEF RequestRow, SameErrand
    <2>4. req' = [req EXCEPT ![r] = q]
      BY <1>1 DEF SendUploads, ReqTables
    <2> QED
      BY <2>2, <2>3, <2>4
  <1> HIDE DEF q
  <1>3. Follows([req EXCEPT ![r] = q])
    BY <1>1, <1>2, TableUpdates, FollowsIf DEF Users
  <1>4. \A p \in Requests : Earlier(p) /\ StillSends(p)
    BY <1>1, <1>2, <1>3, MovesFrame DEF SameErrand
  <1>5. /\ messages' = messages /\ misled' = misled
        /\ stored' = stored \cup {<<req[r].moment, req[r].toUpload>>}
    BY DEF SendUploads
  <1>6. \A p \in Requests : Sending(p)' => Sending(p) /\ req'[p].moment = req[p].moment
    BY <1>4 DEF Earlier, SameErrand, OfThread, Sending, Marking
  <1>7. BeingSent \subseteq BeingSent' /\ req[r].moment \in BeingSent
    BY <1>1, <1>4 DEF StillSends, BeingSent, Sending
  <1>8. /\ \A p, s \in Requests :
             Sending(p)' /\ Sending(s)' /\ p # s => req'[p].moment # req'[s].moment
        /\ \A p \in Requests, m \in messages' : Sending(p)' => m.sentAt # req'[p].moment
        /\ \A m \in messages' : \A f \in m.files : f[1] = m.sentAt
    BY <1>5, <1>6 DEF FileInv
  <1>9. /\ \A m \in messages' : m.files \subseteq stored' \/ m.sentAt \in misled'
        /\ \A f \in stored' : \/ \E m \in messages' : f \in m.files
                              \/ f[1] \in BeingSent' \cup misled'
    BY <1>5, <1>7 DEF FileInv, AttachmentsAreStored
  <1> QED
    BY <1>4, <1>8, <1>9 DEF FileInv, AttachmentsAreStored

\* A request that sends ends without a message: its files go, or are known to be left.
LEMMA FileEnds ==
  ASSUME Typed, NoneInvalidates, FileInv, NEW r \in Requests, Sending(r),
         UNCHANGED messages, misled \subseteq misled',
         \A f \in stored' : f[1] # req[r].moment => f \in stored,
         \A f \in stored : f[1] # req[r].moment => f \in stored',
         \A f \in stored' : f[1] = req[r].moment => f[1] \in misled',
         \A p \in Requests : Earlier(p), \A p \in Requests \ {r} : StillSends(p)
  PROVE  FileInv'
  <1>1. \A p \in Requests : Sending(p)' => Sending(p) /\ req'[p].moment = req[p].moment
    BY DEF Earlier, SameErrand, OfThread, Sending, Marking
  <1>2. /\ \A p, q \in Requests :
             Sending(p)' /\ Sending(q)' /\ p # q => req'[p].moment # req'[q].moment
        /\ \A p \in Requests, m \in messages' : Sending(p)' => m.sentAt # req'[p].moment
        /\ \A m \in messages' : \A f \in m.files : f[1] = m.sentAt
    BY <1>1 DEF FileInv
  <1>3. \A x \in BeingSent : x = req[r].moment \/ x \in BeingSent'
    BY DEF StillSends, BeingSent, Sending
  <1>4. \A m \in messages' : m.files \subseteq stored' \/ m.sentAt \in misled'
    BY DEF FileInv, AttachmentsAreStored
  <1>5. \A f \in stored' : \/ \E m \in messages' : f \in m.files
                           \/ f[1] \in BeingSent' \cup misled'
    BY <1>3 DEF FileInv, AttachmentsAreStored
  <1> QED
    BY <1>2, <1>4, <1>5 DEF FileInv, AttachmentsAreStored

\* A message is written with the files uploaded for it; if the answer is lost they are
\* deleted again, or some of them.
LEMMA FileWrites ==
  ASSUME Typed, NoneInvalidates, FileInv, NEW r \in Requests, Sending(r), SendWrites(r),
         \/ stored' = stored /\ misled' = misled
         \/ /\ \E kept \in SUBSET UploadedBy(r) : stored' = (stored \ UploadedBy(r)) \cup kept
            /\ misled' = misled \cup {req[r].moment},
         \A p \in Requests : Earlier(p), \A p \in Requests \ {r} : StillSends(p), ~OfThread(r)'
  PROVE  FileInv'
  <1> DEFINE n == [sentAt |-> req[r].moment, sender |-> req[r].user, files |-> UploadedBy(r),
                   important |-> FALSE]
  <1>0. messages' = messages \cup {n}
    BY DEF SendWrites
  <1>1. n.sentAt = req[r].moment /\ n.files = UploadedBy(r)
    OBVIOUS
  <1> HIDE DEF n
  <1>2. /\ \A p \in Requests : Sending(p)' => Sending(p) /\ req'[p].moment = req[p].moment
        /\ ~Sending(r)'
    BY DEF Earlier, SameErrand, OfThread, Sending, Marking
  <1>3. \A p, q \in Requests :
          Sending(p)' /\ Sending(q)' /\ p # q => req'[p].moment # req'[q].moment
    BY <1>2 DEF FileInv
  <1>4. \A p \in Requests, m \in messages' : Sending(p)' => m.sentAt # req'[p].moment
    BY <1>0, <1>1, <1>2 DEF FileInv
  <1>5. \A m \in messages' : \A f \in m.files : f[1] = m.sentAt
    BY <1>0, <1>1 DEF FileInv, UploadedBy
  <1>6. \A x \in BeingSent : x = req[r].moment \/ x \in BeingSent'
    BY DEF StillSends, BeingSent, Sending
  <1>7. \A m \in messages' : m.files \subseteq stored' \/ m.sentAt \in misled'
    <2>1. ASSUME NEW m \in messages, m.files \subseteq stored
          PROVE  m.files \subseteq stored'
      <3>1. \A f \in m.files : f[1] # req[r].moment
        BY DEF FileInv
      <3> QED
        BY <2>1, <3>1 DEF UploadedBy
    <2>2. n.files \subseteq stored' \/ n.sentAt \in misled'
      BY <1>1 DEF UploadedBy
    <2> QED
      BY <1>0, <2>1, <2>2 DEF FileInv, AttachmentsAreStored
  <1>8. \A f \in stored' : \/ \E m \in messages' : f \in m.files
                           \/ f[1] \in BeingSent' \cup misled'
    BY <1>0, <1>1, <1>6 DEF FileInv, AttachmentsAreStored, UploadedBy
  <1> QED
    BY <1>3, <1>4, <1>5, <1>7, <1>8 DEF FileInv, AttachmentsAreStored

-----------------------------------------------------------------------------
(* Every step *)

IInv == Typed /\ NoneInvalidates /\ ReadInv /\ FileInv

LEMMA NoneInvalidatesKept ==
  ASSUME \A p \in Requests : Earlier(p)
  PROVE  NoneInvalidates'
  BY DEF Earlier, NoneInvalidates

LEMMA SameThread == UNCHANGED chatVars => SameMessages /\ SameReads
  BY DEF chatVars, SameMessages, SameReads

\* A step that leaves the thread, its messages and its files alone.
LEMMA QuietStep ==
  ASSUME IInv, Typed', time' >= time, SameMessages, SameReads, stored' = stored,
         misled' = misled, \A p \in Requests : Earlier(p) /\ StillSends(p)
  PROVE  IInv'
  BY ReadQuiet, FileQuiet, NoneInvalidatesKept DEF IInv, Typed

LEMMA NotificationKeeps ==
  ASSUME IInv, Typed', NEW r \in Requests, NotificationStep(r)
  PROVE  IInv'
  <1>1. UNCHANGED chatVars
    BY DEF NotificationStep, ListMisses, ListCounts, ListStores, Raise, RaiseCommits,
           RaiseAtOnce, Mark, MarkAllFinds, MarkAllWrites, Invalidates
  <1>2. time' = time \/ TakesTime
    BY DEF NotificationStep, ListMisses, ListCounts, ListStores, Raise, RaiseCommits,
           RaiseAtOnce, Mark, MarkAllFinds, MarkAllWrites, Invalidates
  <1>3. time' >= time
    BY <1>2, TimePasses, MomentsAreNumbers DEF IInv, Typed
  <1>4. stored' = stored /\ misled' = misled
    BY <1>1 DEF chatVars
  <1> QED
    BY <1>1, <1>3, <1>4, SameThread, NotificationFrame, QuietStep DEF IInv

\* What is cleaned up is what the request uploaded, or it is known to be left.
LEMMA CleansUp ==
  ASSUME NEW r \in Requests, CleanupUploadedAttachments(r) \/ KeepsUnansweredUpload(r)
  PROVE  /\ misled \subseteq misled'
         /\ \A f \in stored' : f[1] # req[r].moment => f \in stored
         /\ \A f \in stored : f[1] # req[r].moment => f \in stored'
         /\ \A f \in stored' : f[1] = req[r].moment => f[1] \in misled'
  BY DEF CleanupUploadedAttachments, KeepsUnansweredUpload, UploadedBy

LEMMA EndsPlainly ==
  ASSUME IInv, NEW r \in Requests, Ends(r)
  PROVE  /\ \A p \in Requests : Earlier(p)
         /\ \A p \in Requests \ {r} : StillSends(p)
  <1>1. req \in ReqTables /\ [req EXCEPT ![r] = Idle] \in ReqTables
    BY DEF IInv, Typed, TypeOK, ReqTables
  <1>2. Follows([req EXCEPT ![r] = Idle])
    BY <1>1, FollowsIf DEF Ends, Users
  <1> QED
    BY <1>1, <1>2, EndsFrame DEF IInv

LEMMA SendEndsKeeps ==
  ASSUME IInv, Typed', NEW r \in Requests, SendUploadFails(r) \/ SendRollsBack(r)
  PROVE  IInv'
  <1>1. /\ Sending(r) /\ Ends(r)
        /\ CleanupUploadedAttachments(r) \/ KeepsUnansweredUpload(r)
        /\ UNCHANGED <<time, messages, threadRead, known>>
    BY DEF SendUploadFails, SendRollsBack, At, Sending
  <1>2. time' >= time
    BY <1>1, MomentsAreNumbers DEF IInv, Typed
  <1>3. SameMessages /\ SameReads
    BY <1>1 DEF SameMessages, SameReads
  <1>4. ReadInv'
    BY <1>1, <1>2, <1>3, EndsPlainly, ReadQuiet DEF IInv, Typed
  <1>5. FileInv'
    BY <1>1, CleansUp, EndsPlainly, FileEnds DEF IInv
  <1> QED
    BY <1>1, <1>4, <1>5, EndsPlainly, NoneInvalidatesKept DEF IInv

LEMMA ThreadKeeps ==
  ASSUME IInv, Typed', NEW r \in Requests, ThreadStep(r)
  PROVE  IInv'
  <1>0. req \in ReqTables /\ TypeOK /\ TypeOK' /\ time' \in Nat /\ time \in Nat
    BY MomentsAreNumbers, BoundsAssumption DEF IInv, Typed, TypeOK, ReqTables, Moments
  <1>1. CASE SendBegins(r)
    <2>1. PICK u \in Users, files \in 0..MaxFiles :
            Begins(r, [Request("send", "upload", u) EXCEPT !.moment = time', !.toUpload = files])
      BY <1>1 DEF SendBegins
    <2>2. Request("send", "upload", u) \in RequestRow /\ Request("send", "upload", u).at = "upload"
      BY RequestType DEF Ops, Ats
    <2>3. req'[r].at = "upload" /\ \A p \in Requests \ {r} : req'[p] = req[p]
      BY <1>0, <2>1, <2>2 DEF Begins, ReqTables, RequestRow
    <2>4. NoneInvalidates'
      BY <2>3 DEF IInv, NoneInvalidates, OfThread, Sending, Marking
    <2> QED
      BY <1>0, <1>1, <2>4, ReadSendBegins, FileSendBegins DEF IInv
  <1>2. CASE SendUploads(r)
    <2>1. FileInv' /\ \A p \in Requests : Earlier(p)
      BY <1>2, FileUploads DEF IInv
    <2>2. UNCHANGED <<time, messages, threadRead, known>>
      BY <1>2 DEF SendUploads
    <2>3. time' >= time /\ SameMessages /\ SameReads
      BY <1>0, <2>2 DEF SameMessages, SameReads
    <2> QED
      BY <1>0, <2>1, <2>3, ReadQuiet, NoneInvalidatesKept DEF IInv
  <1>3. CASE SendUploadFails(r) \/ SendRollsBack(r)
    BY <1>3, SendEndsKeeps
  <1>4. CASE SendInserts(r)
    <2> DEFINE q == [req[r] EXCEPT !.at = "commit"]
    <2>1. req[r] # Idle /\ req[r] \in RequestRow
      BY <1>0, <1>4 DEF SendInserts, At, ReqTables
    <2>2. /\ q \in RequestRow /\ SameErrand(q, req[r]) /\ q.at = "commit"
          /\ [req EXCEPT ![r].at = "commit"] = [req EXCEPT ![r] = q]
      BY <1>0, <2>1, GoesToIs DEF Ats
    <2>3. Other(req[r].user) \in Users
      BY <2>1, UserOther DEF RequestRow
    <2>4. req' = Outdate([req EXCEPT ![r].at = "commit"], Other(req[r].user))
      BY <1>4 DEF SendInserts, InvalidateOrLose, InvalidateCachedUnreadNotificationCount,
                  LoseInvalidation
    <2> HIDE DEF q
    <2>5. Follows([req EXCEPT ![r] = q])
      BY <1>0, <2>2, <2>3, <2>4, TableUpdates, FollowsIf
    <2>6. \A p \in Requests : Earlier(p) /\ StillSends(p)
      BY <1>0, <2>1, <2>2, <2>5, MovesFrame DEF IInv, SameErrand
    <2>7. UNCHANGED <<time, chatVars>>
      BY <1>4 DEF SendInserts
    <2>8. time' >= time /\ stored' = stored /\ misled' = misled
      BY <1>0, <2>7 DEF chatVars
    <2> QED
      BY <2>6, <2>7, <2>8, SameThread, QuietStep
  <1>5. CASE SendCommits(r) \/ SendAnswerLost(r)
    <2>1. /\ Sending(r) /\ SendWrites(r) /\ UNCHANGED <<time, threadRead, known>>
      BY <1>5 DEF SendCommits, SendAnswerLost, At, Sending
    <2>2. ReadInv' /\ (\A p \in Requests : Earlier(p)) /\ ~OfThread(r)'
                   /\ \A p \in Requests \ {r} : StillSends(p)
      BY <1>0, <2>1, ReadWrites DEF IInv
    <2>3. \/ stored' = stored /\ misled' = misled
          \/ /\ \E kept \in SUBSET UploadedBy(r) : stored' = (stored \ UploadedBy(r)) \cup kept
             /\ misled' = misled \cup {req[r].moment}
      BY <1>5 DEF SendCommits, SendAnswerLost
    <2>4. FileInv'
      BY <2>1, <2>2, <2>3, FileWrites DEF IInv
    <2> QED
      BY <2>2, <2>4, NoneInvalidatesKept DEF IInv
  <1>6. CASE MarkReadBegins(r)
    <2> DEFINE all == {m.sentAt : m \in messages} \cup BeingSent
    <2>1. PICK u \in Users :
            Begins(r, [Request("markRead", "write", u) EXCEPT !.moment = time', !.found = all])
      BY <1>6 DEF MarkReadBegins
    <2>2. /\ Request("markRead", "write", u) \in RequestRow
          /\ Request("markRead", "write", u).at = "write"
          /\ Request("markRead", "write", u).op = "markRead"
      BY RequestType DEF Ops, Ats
    <2> HIDE DEF all
    <2>3. /\ req'[r].at = "write" /\ req'[r].op = "markRead" /\ req[r] = Idle
          /\ \A p \in Requests \ {r} : req'[p] = req[p]
      BY <1>0, <2>1, <2>2 DEF Begins, ReqTables, RequestRow
    <2>4. NoneInvalidates'
      BY <2>3 DEF IInv, NoneInvalidates, OfThread, Sending, Marking
    <2>5. /\ \A p \in Requests : Sending(p)' => Sending(p) /\ req'[p] = req[p]
          /\ \A p \in Requests : Sending(p) => Sending(p)' /\ req'[p] = req[p]
      BY <2>3 DEF Sending
    <2>6. messages' = messages /\ stored' = stored /\ misled' = misled
      BY <1>6 DEF MarkReadBegins, chatVars
    <2>7. BeingSent \subseteq BeingSent'
      BY <2>5 DEF BeingSent, Sending
    <2>8. FileInv'
      BY <2>5, <2>6, <2>7 DEF IInv, FileInv, AttachmentsAreStored
    <2> QED
      BY <1>0, <1>6, <2>4, <2>8, ReadMarkBegins DEF IInv
  <1>7. CASE MarkReadWrites(r)
    <2>1. Ends(r) /\ ~Sending(r) /\ UNCHANGED <<messages, stored, misled>>
      BY <1>7 DEF MarkReadWrites, At, Sending
    <2>2. \A p \in Requests : Earlier(p) /\ StillSends(p)
      BY <2>1, EndsPlainly DEF StillSends
    <2>3. FileInv'
      BY <2>1, <2>2, FileQuiet DEF IInv, SameMessages
    <2> QED
      BY <1>0, <1>7, <2>2, <2>3, ReadMarkWrites, NoneInvalidatesKept DEF IInv
  <1> QED
    BY <1>1, <1>2, <1>3, <1>4, <1>5, <1>6, <1>7 DEF ThreadStep

LEMMA DiesKeeps ==
  ASSUME IInv, Typed', NEW r \in Requests, Dies(r)
  PROVE  IInv'
  <1>0. /\ req \in ReqTables /\ req[r] \in RequestRow
        /\ [req EXCEPT ![r] = Idle] \in ReqTables /\ time \in Nat
    BY MomentsAreNumbers DEF Dies, IInv, Typed, TypeOK, ReqTables
  <1>1. Follows([req EXCEPT ![r] = Idle])
    <2>1. req[r].user \in Users
      BY <1>0 DEF RequestRow
    <2>2. \/ req' = [req EXCEPT ![r] = Idle]
          \/ req' = Outdate([req EXCEPT ![r] = Idle], req[r].user)
      BY DEF Dies, Ends
    <2> QED
      BY <1>0, <2>1, <2>2, FollowsIf
  <1>2. /\ \A p \in Requests : Earlier(p)
        /\ \A p \in Requests \ {r} : StillSends(p)
    BY <1>0, <1>1, EndsFrame DEF IInv
  <1>3. /\ UNCHANGED <<time, messages, threadRead, stored, known>>
        /\ req[r].op = "send" => misled' = misled \cup {req[r].moment}
        /\ req[r].op # "send" => misled' = misled
        /\ req[r] # Idle
    BY DEF Dies
  <1>4. time' >= time /\ SameMessages /\ SameReads
    BY <1>0, <1>3 DEF SameMessages, SameReads
  <1>5. ReadInv'
    BY <1>2, <1>4, ReadQuiet DEF IInv, Typed
  <1>6. FileInv'
    <2>1. CASE req[r].op = "send"
      BY <1>2, <1>3, <2>1, FileEnds DEF IInv, Sending
    <2>2. CASE req[r].op # "send"
      BY <1>2, <1>3, <1>4, <2>2, FileQuiet DEF IInv, Sending, StillSends
    <2> QED
      BY <2>1, <2>2
  <1> QED
    BY <1>2, <1>5, <1>6, NoneInvalidatesKept DEF IInv

LEMMA InvariantStep == ASSUME IInv, [Next]_vars PROVE IInv'
  <1> Typed'
    BY TypedStep DEF IInv
  <1>0. time \in Nat
    BY MomentsAreNumbers DEF IInv, Typed
  <1>1. CASE Background \/ UNCHANGED vars
    <2>1. UNCHANGED <<time, req, stored, known, misled>>
      BY <1>1 DEF Background, EntryExpires, TaskDeleted, MarkThreadImportantOrNot,
                  MarkMessageImportantOrNot, vars, chatVars
    <2>2. SameMessages
      <3>1. CASE MarkMessageImportantOrNot
        <4>1. PICK m \in messages, important \in BOOLEAN :
                messages' = (messages \ {m}) \cup {[m EXCEPT !.important = important]}
          BY <3>1 DEF MarkMessageImportantOrNot
        <4>2. /\ [m EXCEPT !.important = important].sentAt = m.sentAt
              /\ [m EXCEPT !.important = important].files = m.files
          BY DEF IInv, Typed, TypeOK, Message
        <4> QED
          BY <4>1, <4>2 DEF SameMessages
      <3>2. CASE messages' = messages
        BY <3>2 DEF SameMessages
      <3> QED
        BY <1>1, <3>1, <3>2 DEF Background, EntryExpires, TaskDeleted,
                                MarkThreadImportantOrNot, vars, chatVars
    <2>3. \A u \in Users : threadRead'[u].lastReadAt = threadRead[u].lastReadAt
      <3>1. CASE MarkThreadImportantOrNot
        BY <3>1 DEF MarkThreadImportantOrNot, MarkedThreadRow, IInv, Typed, TypeOK
      <3>2. CASE threadRead' = threadRead
        BY <3>2
      <3> QED
        BY <1>1, <3>1, <3>2 DEF Background, EntryExpires, TaskDeleted,
                                MarkMessageImportantOrNot, vars, chatVars
    <2>4. SameReads /\ time' >= time
      BY <1>0, <2>1, <2>3 DEF SameReads
    <2> QED
      BY <2>1, <2>2, <2>4, SameFrame, QuietStep DEF IInv
  <1> QED
    BY <1>1, NotificationKeeps, ThreadKeeps, DiesKeeps DEF Next

LEMMA InvariantInit == Init => IInv
  <1> SUFFICES ASSUME Init PROVE IInv
    OBVIOUS
  <1>1. \A p \in Requests : ~OfThread(p)
    BY DEF Init, OfThread, Sending, Marking
  <1>2. time = 0 /\ messages = {} /\ stored = {} /\ \A u \in Users : threadRead[u].lastReadAt = 0
    BY DEF Init
  <1>3. ReadInv /\ FileInv /\ NoneInvalidates
    BY <1>1, <1>2 DEF ReadInv, FileInv, AttachmentsAreStored, NoneInvalidates, OfThread
  <1> QED
    BY <1>3, TypedInit DEF IInv

\* A message stays unread for a user until he marks the thread while it is there or being
\* sent (services/chat: createMessage, markThreadAsRead, the important marks).
THEOREM UnreadUntilReadCorrect == Spec => []UnreadUntilRead
  <1>1. IInv => UnreadUntilRead
    <2> SUFFICES ASSUME IInv, NEW u \in Users, NEW m \in messages, m \notin CountedUnread(u)
                 PROVE  m.sentAt \in known[u]
      BY DEF UnreadUntilRead
    <2>1. m.sentAt \in Nat /\ threadRead[u].lastReadAt \in Nat
      BY MomentsAreNumbers DEF IInv, Typed
    <2>2. m.sentAt <= threadRead[u].lastReadAt
      BY <2>1 DEF CountedUnread
    <2> QED
      BY <2>2 DEF IInv, ReadInv
  <1> QED
    BY <1>1, InvariantInit, InvariantStep, PTL DEF Spec

\* A message's files are stored and no stored file is without its message, but for what
\* misled records (threads-messaging.js:66, 79, 229): a process that stopped, a deletion that
\* failed, a file kept by an upload that was answered with an error, a commit whose answer
\* was lost.
THEOREM AttachmentsAreStoredCorrect == Spec => []AttachmentsAreStored
  <1>1. IInv => AttachmentsAreStored
    BY DEF IInv, FileInv
  <1> QED
    BY <1>1, InvariantInit, InvariantStep, PTL DEF Spec

-----------------------------------------------------------------------------
(* Whose rows a request writes *)

\* A request that will insert a notification with the moment it took as its id, and one
\* that will mark the notifications it found.
WillNotify(p) == req[p] # Idle /\ req[p].op \in {"raise", "send"} /\ req[p].at # "invalidate"
WillMark(p)   == req[p] # Idle /\ req[p].op = "markAll" /\ req[p].at = "write"

\* A notification keeps its id for itself, and markAllNotificationsAsRead marks, by id,
\* no other user's.
IdInv ==
  /\ \A n \in notifications : n.id <= time
  /\ \A n, m \in notifications : n.id = m.id => n.user = m.user
  /\ \A p \in Requests : WillNotify(p) =>
       /\ req[p].moment <= time
       /\ \A n \in notifications : n.id # req[p].moment
       /\ \A q \in Requests \ {p} : WillNotify(q) => req[q].moment # req[p].moment
  /\ \A p \in Requests : WillMark(p) =>
       /\ \A id \in req[p].found : id <= time
       /\ \A n \in notifications : n.id \in req[p].found => n.user = req[p].user
       /\ \A q \in Requests : WillNotify(q) => req[q].moment \notin req[p].found

\* A request that will write does it for who it did before.
SameWriter(p) ==
  /\ WillNotify(p)' => WillNotify(p) /\ req'[p].moment = req[p].moment
  /\ WillMark(p)' => WillMark(p) /\ req'[p].found = req[p].found /\ req'[p].user = req[p].user

\* What a step does to request r: it becomes x, and counts on their way may be outdated.
Becomes(r, x) ==
  \/ req' = [req EXCEPT ![r] = x]
  \/ \E u \in Users : req' = Outdate([req EXCEPT ![r] = x], u)

LEMMA BecomesFollows ==
  ASSUME req \in ReqTables, NEW r \in Requests, NEW x \in RequestRow \cup {Idle}, Becomes(r, x)
  PROVE  Follows([req EXCEPT ![r] = x])
  <1>1. [req EXCEPT ![r] = x] \in ReqTables
    BY DEF ReqTables
  <1> QED
    BY <1>1, FollowsIf DEF Becomes, Users

LEMMA OtherWriters ==
  ASSUME req \in ReqTables, NEW r \in Requests, NEW x \in RequestRow \cup {Idle}, Becomes(r, x)
  PROVE  /\ \A p \in Requests \ {r} : SameWriter(p)
         /\ x = Idle <=> req'[r] = Idle
         /\ x # Idle => SameErrand(req'[r], x) /\ req'[r].at = x.at
  <1> DEFINE reqs == [req EXCEPT ![r] = x]
  <1>1. reqs[r] = x /\ \A p \in Requests \ {r} : reqs[p] = req[p]
    BY DEF ReqTables
  <1>2. Follows(reqs)
    BY BecomesFollows
  <1> HIDE DEF reqs
  <1>3. ASSUME NEW p \in Requests \ {r} PROVE SameWriter(p)
    <2>1. req'[p] = Idle <=> req[p] = Idle
      BY <1>1, <1>2 DEF Follows
    <2>2. req[p] # Idle => SameErrand(req'[p], req[p]) /\ req'[p].at = req[p].at
      BY <1>1, <1>2 DEF Follows
    <2> QED
      BY <2>1, <2>2 DEF SameWriter, WillNotify, WillMark, SameErrand
  <1> QED
    BY <1>1, <1>2, <1>3 DEF Follows

\* Times and ids are numbers.
LEMMA IdsAreNumbers ==
  ASSUME TypeOK
  PROVE  /\ time \in Nat
         /\ \A n \in notifications : n.id \in Nat
         /\ \A p \in Requests : req[p] # Idle =>
              req[p].moment \in Nat /\ \A id \in req[p].found : id \in Nat
  <1>1. ASSUME NEW p \in Requests, req[p] # Idle PROVE req[p] \in RequestRow
    BY <1>1 DEF TypeOK
  <1> QED
    BY <1>1, BoundsAssumption DEF TypeOK, Moments, Notification, RequestRow

\* Rows may be marked, requests may end and time may pass.
LEMMA IdQuiet ==
  ASSUME TypeOK, TypeOK', IdInv, time' >= time, \A p \in Requests : SameWriter(p),
         \A n \in notifications' : \E m \in notifications : m.id = n.id /\ m.user = n.user
  PROVE  IdInv'
  <1>0. /\ time \in Nat /\ time' \in Nat
        /\ \A n \in notifications : n.id \in Nat
        /\ \A p \in Requests : req[p] # Idle =>
              req[p].moment \in Nat /\ \A id \in req[p].found : id \in Nat
    BY IdsAreNumbers, BoundsAssumption DEF TypeOK, Moments
  <1>1. \A n \in notifications' : n.id <= time'
    BY <1>0 DEF IdInv
  <1>2. \A n, m \in notifications' : n.id = m.id => n.user = m.user
    <2> SUFFICES ASSUME NEW n \in notifications', NEW m \in notifications', n.id = m.id
                 PROVE  n.user = m.user
      OBVIOUS
    <2>1. PICK n0 \in notifications : n0.id = n.id /\ n0.user = n.user
      OBVIOUS
    <2>2. PICK m0 \in notifications : m0.id = m.id /\ m0.user = m.user
      OBVIOUS
    <2> QED
      BY <2>1, <2>2 DEF IdInv
  <1>3. ASSUME NEW p \in Requests, WillNotify(p)'
        PROVE  /\ req'[p].moment <= time'
               /\ \A n \in notifications' : n.id # req'[p].moment
               /\ \A q \in Requests \ {p} : WillNotify(q)' => req'[q].moment # req'[p].moment
    <2>1. WillNotify(p) /\ req'[p].moment = req[p].moment /\ req[p].moment \in Nat
      BY <1>0, <1>3 DEF SameWriter, WillNotify
    <2>2. req'[p].moment <= time'
      BY <1>0, <2>1 DEF IdInv
    <2>3. \A n \in notifications' : n.id # req'[p].moment
      BY <2>1 DEF IdInv
    <2>4. \A q \in Requests \ {p} : WillNotify(q)' => req'[q].moment # req'[p].moment
      BY <2>1 DEF IdInv, SameWriter
    <2> QED
      BY <2>2, <2>3, <2>4
  <1>4. ASSUME NEW p \in Requests, WillMark(p)'
        PROVE  /\ \A id \in req'[p].found : id <= time'
               /\ \A n \in notifications' : n.id \in req'[p].found => n.user = req'[p].user
               /\ \A q \in Requests : WillNotify(q)' => req'[q].moment \notin req'[p].found
    <2>1. /\ WillMark(p) /\ req'[p].found = req[p].found /\ req'[p].user = req[p].user
          /\ \A id \in req[p].found : id \in Nat
      BY <1>0, <1>4 DEF SameWriter, WillMark
    <2>2. \A id \in req'[p].found : id <= time'
      BY <1>0, <2>1 DEF IdInv
    <2>3. \A n \in notifications' : n.id \in req'[p].found => n.user = req'[p].user
      BY <2>1 DEF IdInv
    <2>4. \A q \in Requests : WillNotify(q)' => req'[q].moment \notin req'[p].found
      BY <2>1 DEF IdInv, SameWriter
    <2> QED
      BY <2>2, <2>3, <2>4
  <1> QED
    BY <1>1, <1>2, <1>3, <1>4 DEF IdInv

\* A request takes a new moment for the notification it will insert.
LEMMA IdBegins ==
  ASSUME TypeOK, TypeOK', IdInv, TakesTime, NEW r \in Requests, notifications' = notifications,
         req'[r] # Idle, req'[r].op # "markAll", req'[r].moment = time',
         \A p \in Requests \ {r} : SameWriter(p)
  PROVE  IdInv'
  <1>0. /\ time \in Nat /\ time' \in Nat /\ time' > time
        /\ \A n \in notifications : n.id \in Nat
        /\ \A p \in Requests : req[p] # Idle =>
              req[p].moment \in Nat /\ \A id \in req[p].found : id \in Nat
    BY IdsAreNumbers, TimeType, BoundsAssumption DEF TypeOK, Moments
  <1>1. \A n \in notifications' : n.id <= time' /\ n.id # time'
    BY <1>0 DEF IdInv
  <1>2. ~WillMark(r)'
    BY DEF WillMark
  <1>3. ASSUME NEW p \in Requests \ {r}, WillNotify(p)'
        PROVE  /\ WillNotify(p) /\ req'[p].moment = req[p].moment
               /\ req'[p].moment <= time' /\ req'[p].moment # time'
    <2>1. WillNotify(p) /\ req'[p].moment = req[p].moment /\ req[p].moment \in Nat
      BY <1>0, <1>3 DEF SameWriter, WillNotify
    <2>2. req[p].moment <= time
      BY <2>1 DEF IdInv
    <2> QED
      BY <1>0, <2>1, <2>2
  <1>4. ASSUME NEW p \in Requests \ {r}, WillMark(p)'
        PROVE  /\ WillMark(p) /\ req'[p].found = req[p].found /\ req'[p].user = req[p].user
               /\ \A id \in req'[p].found : id <= time' /\ id # time'
    <2>1. /\ WillMark(p) /\ req'[p].found = req[p].found /\ req'[p].user = req[p].user
          /\ \A id \in req[p].found : id \in Nat
      BY <1>0, <1>4 DEF SameWriter, WillMark
    <2>2. \A id \in req[p].found : id <= time
      BY <2>1 DEF IdInv
    <2> QED
      BY <1>0, <2>1, <2>2
  <1>5. ASSUME NEW p \in Requests, WillNotify(p)'
        PROVE  /\ req'[p].moment <= time'
               /\ \A n \in notifications' : n.id # req'[p].moment
               /\ \A q \in Requests \ {p} : WillNotify(q)' => req'[q].moment # req'[p].moment
    <2>1. CASE p = r
      BY <1>0, <1>1, <1>3, <2>1
    <2>2. CASE p # r
      BY <1>3, <1>5, <2>2 DEF IdInv
    <2> QED
      BY <2>1, <2>2
  <1>6. ASSUME NEW p \in Requests, WillMark(p)'
        PROVE  /\ \A id \in req'[p].found : id <= time'
               /\ \A n \in notifications' : n.id \in req'[p].found => n.user = req'[p].user
               /\ \A q \in Requests : WillNotify(q)' => req'[q].moment \notin req'[p].found
    <2>1. p # r /\ WillMark(p) /\ req'[p].found = req[p].found /\ req'[p].user = req[p].user
      BY <1>2, <1>4, <1>6
    <2>2. \A q \in Requests : WillNotify(q)' => req'[q].moment \notin req'[p].found
      BY <1>3, <1>4, <1>6, <2>1 DEF IdInv
    <2> QED
      BY <1>4, <1>6, <2>1, <2>2 DEF IdInv
  <1>7. \A n, m \in notifications' : n.id = m.id => n.user = m.user
    BY DEF IdInv
  <1> QED
    BY <1>1, <1>5, <1>6, <1>7 DEF IdInv

\* A request inserts its notification and is over.
LEMMA IdCommits ==
  ASSUME TypeOK, TypeOK', IdInv, time' = time, NEW r \in Requests, WillNotify(r),
         req'[r] = Idle, \A p \in Requests \ {r} : SameWriter(p),
         NEW n \in Notification, n.id = req[r].moment,
         notifications' = notifications \cup {n}
  PROVE  IdInv'
  <1>1. n.id <= time /\ \A m \in notifications : m.id # n.id
    BY DEF IdInv
  <1>2. ~WillNotify(r)' /\ ~WillMark(r)'
    BY DEF WillNotify, WillMark
  <1>3. (\A m \in notifications' : m.id <= time')
        /\ \A l, m \in notifications' : l.id = m.id => l.user = m.user
    BY <1>1 DEF IdInv
  <1>4. ASSUME NEW p \in Requests, WillNotify(p)'
        PROVE  /\ req'[p].moment <= time'
               /\ \A m \in notifications' : m.id # req'[p].moment
               /\ \A q \in Requests \ {p} : WillNotify(q)' => req'[q].moment # req'[p].moment
    <2>1. p # r /\ WillNotify(p) /\ req'[p].moment = req[p].moment
      BY <1>2, <1>4 DEF SameWriter
    <2>2. n.id # req[p].moment
      BY <2>1 DEF IdInv
    <2>3. \A q \in Requests \ {p} : WillNotify(q)' => req'[q].moment # req'[p].moment
      BY <1>2, <2>1 DEF IdInv, SameWriter
    <2> QED
      BY <2>1, <2>2, <2>3 DEF IdInv
  <1>5. ASSUME NEW p \in Requests, WillMark(p)'
        PROVE  /\ \A id \in req'[p].found : id <= time'
               /\ \A m \in notifications' : m.id \in req'[p].found => m.user = req'[p].user
               /\ \A q \in Requests : WillNotify(q)' => req'[q].moment \notin req'[p].found
    <2>1. p # r /\ WillMark(p) /\ req'[p].found = req[p].found /\ req'[p].user = req[p].user
      BY <1>2, <1>5 DEF SameWriter
    <2>2. n.id \notin req[p].found
      BY <2>1 DEF IdInv
    <2>3. \A q \in Requests : WillNotify(q)' => req'[q].moment \notin req'[p].found
      BY <1>2, <2>1 DEF IdInv, SameWriter
    <2> QED
      BY <2>1, <2>2, <2>3 DEF IdInv
  <1> QED
    BY <1>3, <1>4, <1>5 DEF IdInv

\* A notification is inserted with a new moment.
LEMMA IdAtOnce ==
  ASSUME TypeOK, TypeOK', IdInv, TakesTime, \A p \in Requests : SameWriter(p),
         NEW n \in Notification, n.id = time', notifications' = notifications \cup {n}
  PROVE  IdInv'
  <1>0. /\ time \in Nat /\ time' \in Nat /\ time' > time
        /\ \A m \in notifications : m.id \in Nat
        /\ \A p \in Requests : req[p] # Idle =>
              req[p].moment \in Nat /\ \A id \in req[p].found : id \in Nat
    BY IdsAreNumbers, TimeType, BoundsAssumption DEF TypeOK, Moments
  <1>1. \A m \in notifications : m.id <= time' /\ m.id # n.id
    BY <1>0 DEF IdInv
  <1>2. (\A m \in notifications' : m.id <= time')
        /\ \A l, m \in notifications' : l.id = m.id => l.user = m.user
    BY <1>0, <1>1 DEF IdInv
  <1>3. ASSUME NEW p \in Requests, WillNotify(p)'
        PROVE  /\ req'[p].moment <= time'
               /\ \A m \in notifications' : m.id # req'[p].moment
               /\ \A q \in Requests \ {p} : WillNotify(q)' => req'[q].moment # req'[p].moment
    <2>1. /\ WillNotify(p) /\ req'[p].moment = req[p].moment
          /\ req[p].moment <= time /\ req[p].moment \in Nat
      BY <1>0, <1>3 DEF SameWriter, IdInv, WillNotify
    <2>2. req[p].moment <= time' /\ req[p].moment # n.id
      BY <1>0, <2>1
    <2>3. \A q \in Requests \ {p} : WillNotify(q)' => req'[q].moment # req'[p].moment
      BY <2>1 DEF IdInv, SameWriter
    <2> QED
      BY <2>1, <2>2, <2>3 DEF IdInv
  <1>4. ASSUME NEW p \in Requests, WillMark(p)'
        PROVE  /\ \A id \in req'[p].found : id <= time'
               /\ \A m \in notifications' : m.id \in req'[p].found => m.user = req'[p].user
               /\ \A q \in Requests : WillNotify(q)' => req'[q].moment \notin req'[p].found
    <2>1. /\ WillMark(p) /\ req'[p].found = req[p].found /\ req'[p].user = req[p].user
          /\ \A id \in req[p].found : id <= time /\ id \in Nat
      BY <1>0, <1>4 DEF SameWriter, IdInv, WillMark
    <2>2. \A id \in req[p].found : id <= time' /\ id # n.id
      BY <1>0, <2>1
    <2>3. \A q \in Requests : WillNotify(q)' => req'[q].moment \notin req'[p].found
      BY <2>1 DEF IdInv, SameWriter
    <2> QED
      BY <2>1, <2>2, <2>3 DEF IdInv
  <1> QED
    BY <1>2, <1>3, <1>4 DEF IdInv

\* markAllNotificationsAsRead finds notifications of one user.
LEMMA IdFinds ==
  ASSUME TypeOK, TypeOK', IdInv, UNCHANGED <<time, notifications>>, NEW r \in Requests,
         NEW u \in Users, NEW S \in SUBSET Of(u), req'[r].user = u, ~WillNotify(r)',
         req'[r].found = {n.id : n \in S}, \A p \in Requests \ {r} : SameWriter(p)
  PROVE  IdInv'
  <1>1. ASSUME NEW p \in Requests, WillNotify(p)'
        PROVE  /\ req'[p].moment <= time'
               /\ \A m \in notifications' : m.id # req'[p].moment
               /\ \A q \in Requests \ {p} : WillNotify(q)' => req'[q].moment # req'[p].moment
    <2>1. p # r /\ WillNotify(p) /\ req'[p].moment = req[p].moment
      BY <1>1 DEF SameWriter
    <2>2. \A q \in Requests \ {p} : WillNotify(q)' => req'[q].moment # req'[p].moment
      BY <2>1 DEF IdInv, SameWriter
    <2> QED
      BY <2>1, <2>2 DEF IdInv
  <1>2. ASSUME NEW p \in Requests, WillMark(p)'
        PROVE  /\ \A id \in req'[p].found : id <= time'
               /\ \A m \in notifications' : m.id \in req'[p].found => m.user = req'[p].user
               /\ \A q \in Requests : WillNotify(q)' => req'[q].moment \notin req'[p].found
    <2>1. CASE p = r
      <3>1. \A id \in req'[r].found : \E n \in notifications : n.id = id /\ n.user = u
        BY DEF Of
      <3>2. \A id \in req'[r].found : id <= time'
        BY <3>1 DEF IdInv
      <3>3. \A m \in notifications' : m.id \in req'[r].found => m.user = req'[r].user
        BY <3>1 DEF IdInv
      <3>4. \A q \in Requests : WillNotify(q)' => req'[q].moment \notin req'[r].found
        BY <1>1, <3>1
      <3> QED
        BY <2>1, <3>2, <3>3, <3>4
    <2>2. CASE p # r
      <3>1. WillMark(p) /\ req'[p].found = req[p].found /\ req'[p].user = req[p].user
        BY <1>2, <2>2 DEF SameWriter
      <3>2. \A q \in Requests : WillNotify(q)' => req'[q].moment \notin req'[p].found
        BY <3>1 DEF IdInv, SameWriter
      <3> QED
        BY <3>1, <3>2 DEF IdInv
    <2> QED
      BY <2>1, <2>2
  <1> QED
    BY <1>1, <1>2 DEF IdInv

-----------------------------------------------------------------------------
(* Which counts are right *)

\* A request is about to delete the cached count of u; a request will store a count of
\* u's notifications.
Pending(u)     == \E p \in Requests : req[p] # Idle /\ req[p].at = "invalidate" /\ req[p].user = u
Counting(p, u) == req[p] # Idle /\ req[p].at = "store" /\ req[p].user = u

RightCount(u) ==
  /\ unreadCount[u] # NoEntry => unreadCount[u].outdated \/ unreadCount[u].count = Unread(u)
  /\ \A p \in Requests : Counting(p, u) => req[p].outdated \/ req[p].count = Unread(u)

\* UnreadCountHasReason, and the same of the counts on their way to the cache.
CountInv == \A u \in Users : Pending(u) \/ RightCount(u)

\* Outdate outdates the counts of u on their way, and nothing else.
LEMMA OutdateIs ==
  ASSUME NEW reqs \in ReqTables, NEW u \in Users, NEW p \in Requests
  PROVE  IF reqs[p] # Idle /\ reqs[p].at = "store" /\ reqs[p].user = u
         THEN Outdate(reqs, u)[p].outdated = TRUE
         ELSE Outdate(reqs, u)[p] = reqs[p]
  <1>1. Outdate(reqs, u)[p] =
          IF reqs[p] # Idle /\ reqs[p].at = "store" /\ reqs[p].user = u
          THEN [reqs[p] EXCEPT !.outdated = TRUE] ELSE reqs[p]
    BY DEF Outdate
  <1>2. reqs[p] # Idle => reqs[p] \in RequestRow
    BY DEF ReqTables
  <1> QED
    BY <1>1, <1>2 DEF RequestRow

\* The cached count of u, if there is one, is marked as out of date or deleted; all
\* others stay.
Escapes(u) ==
  /\ unreadCount'[u] # NoEntry => unreadCount'[u].outdated = TRUE
  /\ \A v \in Users \ {u} : unreadCount'[v] = unreadCount[v]

LEMMA OutdatedEntry ==
  ASSUME TypeOK, NEW u \in Users,
         \/ unreadCount' = [unreadCount EXCEPT ![u] = NoEntry]
         \/ unreadCount' = [unreadCount EXCEPT ![u] =
                              IF @ = NoEntry THEN @ ELSE [@ EXCEPT !.outdated = TRUE]]
  PROVE  Escapes(u)
  <1>1. unreadCount \in CacheTables /\ (unreadCount[u] = NoEntry \/ unreadCount[u] \in CacheEntry)
    BY DEF TypeOK, CacheTables
  <1>2. \A v \in Users \ {u} : unreadCount'[v] = unreadCount[v]
    BY <1>1 DEF CacheTables
  <1>3. \/ unreadCount'[u] = NoEntry
        \/ /\ unreadCount[u] \in CacheEntry
           /\ unreadCount'[u] = [unreadCount[u] EXCEPT !.outdated = TRUE]
    BY <1>1 DEF CacheTables
  <1> QED
    BY <1>2, <1>3 DEF Escapes, CacheEntry

LEMMA InvalidationEscapes ==
  ASSUME TypeOK, NEW u \in Users, NEW reqs, InvalidateOrLose(u, reqs)
  PROVE  Escapes(u) /\ req' = Outdate(reqs, u)
  BY OutdatedEntry
  DEF InvalidateOrLose, InvalidateCachedUnreadNotificationCount, LoseInvalidation

\* What a step on one request leaves of the counts of v.
LEMMA OtherCounts ==
  ASSUME req \in ReqTables, NEW r \in Requests, NEW x \in RequestRow \cup {Idle},
         NEW v \in Users, x # Idle => x.at # "store",
         req[r] # Idle /\ req[r].at = "invalidate" => req[r].user # v,
         \/ req' = [req EXCEPT ![r] = x]
         \/ \E u \in Users \ {v} : req' = Outdate([req EXCEPT ![r] = x], u)
  PROVE  /\ Pending(v) => Pending(v)'
         /\ \A p \in Requests : Counting(p, v)' => Counting(p, v) /\ req'[p] = req[p]
         /\ x # Idle /\ x.at = "invalidate" /\ x.user = v => Pending(v)'
  <1> DEFINE reqs == [req EXCEPT ![r] = x]
  <1>1. /\ reqs \in ReqTables /\ reqs[r] = x
        /\ \A p \in Requests \ {r} : reqs[p] = req[p]
    BY DEF ReqTables
  <1>2. Follows(reqs)
    BY <1>1, FollowsIf DEF Users
  <1>3. \A p \in Requests : Counting(p, v)' => req'[p] = reqs[p]
    <2>1. CASE req' = reqs
      BY <2>1
    <2>2. ASSUME NEW u \in Users \ {v}, req' = Outdate(reqs, u), NEW p \in Requests,
                 Counting(p, v)'
          PROVE  req'[p] = reqs[p]
      <3>1. reqs[p] # Idle /\ SameErrand(req'[p], reqs[p])
        BY <1>2, <2>2 DEF Follows, Counting
      <3>2. reqs[p].user = v
        BY <2>2, <3>1 DEF Counting, SameErrand
      <3> HIDE DEF reqs
      <3> QED
        BY <1>1, <2>2, <3>2, OutdateIs
    <2> QED
      BY <2>1, <2>2
  <1> HIDE DEF reqs
  <1>4. \A p \in Requests : Counting(p, v)' => Counting(p, v) /\ req'[p] = req[p]
    <2> SUFFICES ASSUME NEW p \in Requests, Counting(p, v)'
                 PROVE  Counting(p, v) /\ req'[p] = req[p]
      OBVIOUS
    <2>1. p # r
      BY <1>1, <1>3 DEF Counting
    <2> QED
      BY <1>1, <1>3, <2>1 DEF Counting
  <1>5. Pending(v) => Pending(v)'
    <2> SUFFICES ASSUME NEW p \in Requests, req[p] # Idle, req[p].at = "invalidate",
                        req[p].user = v
                 PROVE  Pending(v)'
      BY DEF Pending
    <2>1. p # r
      OBVIOUS
    <2> QED
      BY <1>1, <1>2, <2>1 DEF Pending, Follows, SameErrand
  <1>6. x # Idle /\ x.at = "invalidate" /\ x.user = v => Pending(v)'
    BY <1>1, <1>2 DEF Pending, Follows, SameErrand
  <1> QED
    BY <1>4, <1>5, <1>6

\* A step that invalidates, or goes behind the back of, the count of u.
LEMMA CountEscapes ==
  ASSUME TypeOK, CountInv, NEW r \in Requests, NEW x \in RequestRow \cup {Idle}, NEW u \in Users,
         x # Idle => x.at # "store",
         req[r] # Idle /\ req[r].at = "invalidate" => req[r].user = u,
         req' = Outdate([req EXCEPT ![r] = x], u), Escapes(u),
         \A v \in Users \ {u} : Unread(v)' = Unread(v)
  PROVE  CountInv'
  <1>0. req \in ReqTables /\ [req EXCEPT ![r] = x] \in ReqTables
    BY DEF TypeOK, ReqTables
  <1>1. RightCount(u)'
    <2>1. ASSUME NEW p \in Requests, Counting(p, u)' PROVE req'[p].outdated
      <3> DEFINE reqs == [req EXCEPT ![r] = x]
      <3>1. Follows(reqs)
        BY <1>0, FollowsIf
      <3> HIDE DEF reqs
      <3>2. reqs[p] # Idle /\ reqs[p].at = "store" /\ reqs[p].user = u
        BY <2>1, <3>1 DEF Follows, Counting, SameErrand
      <3>3. req' = Outdate(reqs, u) /\ reqs \in ReqTables
        BY <1>0 DEF reqs
      <3> QED
        BY <3>2, <3>3, OutdateIs
    <2> QED
      BY <2>1 DEF RightCount, Escapes
  <1>2. ASSUME NEW v \in Users \ {u} PROVE Pending(v)' \/ RightCount(v)'
    <2>1. /\ Pending(v) => Pending(v)'
          /\ \A p \in Requests : Counting(p, v)' => Counting(p, v) /\ req'[p] = req[p]
      BY <1>0, OtherCounts
    <2>2. Pending(v) \/ RightCount(v)
      BY DEF CountInv
    <2>3. unreadCount'[v] = unreadCount[v] /\ Unread(v)' = Unread(v)
      BY DEF Escapes
    <2> QED
      BY <2>1, <2>2, <2>3 DEF RightCount
  <1> QED
    BY <1>1, <1>2 DEF CountInv

\* A step on one request that leaves the cache alone; when it changes the notifications
\* of a user, the request goes on to invalidate his count.
LEMMA CountPlain ==
  ASSUME TypeOK, CountInv, NEW r \in Requests, NEW x \in RequestRow \cup {Idle},
         x # Idle => x.at # "store", req[r] # Idle => req[r].at # "invalidate",
         req' = [req EXCEPT ![r] = x], unreadCount' = unreadCount,
         \A v \in Users : \/ Unread(v)' = Unread(v)
                          \/ x # Idle /\ x.at = "invalidate" /\ x.user = v
  PROVE  CountInv'
  <1> SUFFICES ASSUME NEW v \in Users PROVE Pending(v)' \/ RightCount(v)'
    BY DEF CountInv
  <1>1. /\ Pending(v) => Pending(v)'
        /\ \A p \in Requests : Counting(p, v)' => Counting(p, v) /\ req'[p] = req[p]
        /\ x # Idle /\ x.at = "invalidate" /\ x.user = v => Pending(v)'
    BY OtherCounts DEF TypeOK, ReqTables
  <1>2. Pending(v) \/ RightCount(v)
    BY DEF CountInv
  <1> QED
    BY <1>1, <1>2 DEF RightCount

\* A step that touches no request, no notification and no count, except that an entry of
\* the cache expires.
LEMMA CountQuiet ==
  ASSUME CountInv, UNCHANGED <<req, notifications>>,
         \A v \in Users : unreadCount'[v] \in {unreadCount[v], NoEntry}
  PROVE  CountInv'
  <1> SUFFICES ASSUME NEW v \in Users PROVE Pending(v)' \/ RightCount(v)'
    BY DEF CountInv
  <1>1. Unread(v)' = Unread(v) /\ Pending(v)' = Pending(v)
    BY DEF Unread, Of, Pending
  <1>2. Pending(v) \/ RightCount(v)
    BY DEF CountInv
  <1> QED
    BY <1>1, <1>2 DEF RightCount, Counting

\* The count is taken, and stored.
LEMMA CountTaken ==
  ASSUME Typed, CountInv, NEW r \in Requests, ListCounts(r)
  PROVE  CountInv'
  <1> DEFINE q == [req[r] EXCEPT !.at = "store", !.count = Unread(req[r].user)]
  <1>1. /\ req \in ReqTables /\ req[r] # Idle /\ req[r] \in RequestRow /\ req[r].at = "count"
        /\ UNCHANGED <<unreadCount, notifications>>
    BY DEF ListCounts, At, Typed, TypeOK, ReqTables
  <1>2. /\ q \in RequestRow /\ q # Idle /\ q.at = "store" /\ q.user = req[r].user
        /\ q.count = Unread(req[r].user)
    <2>1. q \in RequestRow
      BY <1>1, UnreadType DEF RequestRow
    <2> QED
      BY <1>1, <2>1, NullAssumption DEF RequestRow
  <1>3. req'[r] = q /\ \A p \in Requests \ {r} : req'[p] = req[p]
    BY <1>1 DEF ListCounts, ReqTables
  <1> HIDE DEF q
  <1> SUFFICES ASSUME NEW v \in Users PROVE Pending(v)' \/ RightCount(v)'
    BY DEF CountInv
  <1>4. Unread(v)' = Unread(v)
    BY <1>1 DEF Unread, Of
  <1>5. Pending(v) => Pending(v)'
    BY <1>1, <1>3 DEF Pending
  <1>6. Pending(v) \/ RightCount(v)
    BY DEF CountInv
  <1>7. ASSUME RightCount(v) PROVE RightCount(v)'
    <2>1. ASSUME NEW p \in Requests, Counting(p, v)'
          PROVE  req'[p].outdated \/ req'[p].count = Unread(v)
      <3>1. CASE p = r
        BY <1>2, <1>3, <2>1, <3>1 DEF Counting
      <3>2. CASE p # r
        BY <1>3, <1>7, <2>1, <3>2 DEF Counting, RightCount
      <3> QED
        BY <3>1, <3>2
    <2> QED
      BY <1>1, <1>4, <1>7, <2>1 DEF RightCount
  <1> QED
    BY <1>5, <1>6, <1>7

LEMMA CountStored ==
  ASSUME Typed, CountInv, NEW r \in Requests, ListStores(r)
  PROVE  CountInv'
  <1>1. /\ req \in ReqTables /\ req[r] # Idle /\ req[r] \in RequestRow /\ req[r].at = "store"
        /\ UNCHANGED notifications /\ req[r].user \in Users
    BY DEF ListStores, At, Typed, TypeOK, ReqTables, RequestRow
  <1>2. req'[r] = Idle /\ \A p \in Requests \ {r} : req'[p] = req[p]
    BY <1>1 DEF ListStores, Ends, ReqTables
  <1>3. ASSUME NEW v \in Users
        PROVE  \/ unreadCount'[v] = unreadCount[v]
               \/ /\ v = req[r].user
                  /\ unreadCount'[v] = [count |-> req[r].count, outdated |-> req[r].outdated]
    <2>1. unreadCount \in CacheTables
      BY DEF Typed, TypeOK, CacheTables
    <2> QED
      BY <1>1, <2>1 DEF ListStores, CacheTables
  <1> SUFFICES ASSUME NEW v \in Users PROVE Pending(v)' \/ RightCount(v)'
    BY DEF CountInv
  <1>4. Unread(v)' = Unread(v)
    BY <1>1 DEF Unread, Of
  <1>5. Pending(v) => Pending(v)'
    BY <1>1, <1>2 DEF Pending
  <1>6. Pending(v) \/ RightCount(v)
    BY DEF CountInv
  <1>7. ASSUME RightCount(v) PROVE RightCount(v)'
    <2>1. \A p \in Requests : Counting(p, v)' => Counting(p, v) /\ req'[p] = req[p]
      BY <1>2 DEF Counting
    <2>2. unreadCount'[v] # NoEntry =>
            unreadCount'[v].outdated \/ unreadCount'[v].count = Unread(v)
      <3>1. CASE unreadCount'[v] = unreadCount[v]
        BY <1>7, <3>1 DEF RightCount
      <3>2. CASE /\ v = req[r].user
                 /\ unreadCount'[v] = [count |-> req[r].count, outdated |-> req[r].outdated]
        BY <1>1, <1>7, <3>2 DEF RightCount, Counting
      <3> QED
        BY <1>3, <3>1, <3>2
    <2> QED
      BY <1>4, <1>7, <2>1, <2>2 DEF RightCount
  <1> QED
    BY <1>5, <1>6, <1>7

-----------------------------------------------------------------------------
(* The invariant of the notifications *)

NInv == Typed /\ IdInv /\ CountInv

\* Rows change only for one user.
LEMMA OthersUnread ==
  ASSUME NEW u \in Users, NEW v \in Users \ {u},
         {n \in notifications' : n.user = v} = {n \in notifications : n.user = v}
  PROVE  Unread(v)' = Unread(v)
  <1>1. Of(v)' = Of(v)
    BY DEF Of
  <1> QED
    BY <1>1 DEF Unread

\* A request that takes no moment, and so will insert nothing new, or is over.
LEMMA StepsPlainly ==
  ASSUME NInv, Typed', NEW r \in Requests, NEW x \in RequestRow \cup {Idle},
         x # Idle => x.at # "store",
         x # Idle /\ x.op \in {"raise", "send"} =>
           x.at = "invalidate" \/ (WillNotify(r) /\ x.moment = req[r].moment),
         x # Idle /\ x.op = "markAll" => x.at # "write",
         req[r] # Idle => req[r].at # "invalidate",
         req' = [req EXCEPT ![r] = x], UNCHANGED <<time, notifications, unreadCount>>
  PROVE  NInv'
  <1>1. /\ req \in ReqTables /\ TypeOK /\ TypeOK' /\ time \in Nat
        /\ \A v \in Users : Unread(v)' = Unread(v)
    BY IdsAreNumbers DEF NInv, Typed, TypeOK, ReqTables, Unread, Of
  <1>2. CountInv'
    BY <1>1, CountPlain DEF NInv
  <1>3. Becomes(r, x)
    BY DEF Becomes
  <1>4. SameWriter(r)
    <2>1. /\ x = Idle <=> req'[r] = Idle
          /\ x # Idle => SameErrand(req'[r], x) /\ req'[r].at = x.at
      BY <1>1, <1>3, OtherWriters
    <2> QED
      BY <2>1 DEF SameWriter, WillNotify, WillMark, SameErrand
  <1>5. \A p \in Requests : SameWriter(p)
    BY <1>1, <1>3, <1>4, OtherWriters
  <1>6. time' >= time
    BY <1>1
  <1> QED
    BY <1>1, <1>2, <1>5, <1>6, IdQuiet DEF NInv

\* The notification of a request that commits is its recipient's.
LEMMA CommitKeeps ==
  ASSUME NInv, Typed', NEW r \in Requests, WillNotify(r), NEW u \in Users, NEW kind \in Kinds,
         time' = time, CommitsNotification(r, u, kind)
  PROVE  NInv'
  <1> DEFINE n == NewNotification(req[r].moment, u, kind)
  <1>1. /\ req \in ReqTables /\ TypeOK /\ TypeOK' /\ req[r] # Idle /\ req[r] \in RequestRow
        /\ req[r].at # "invalidate"
    BY DEF NInv, Typed, TypeOK, ReqTables, WillNotify
  <1>2. n \in Notification /\ n.id = req[r].moment /\ n.user = u
    BY <1>1 DEF NewNotification, Notification, RequestRow
  <1>3. /\ notifications' = notifications \cup {n} /\ Escapes(u)
        /\ req' = Outdate([req EXCEPT ![r] = Idle], u)
    BY <1>1, OutdatedEntry DEF CommitsNotification
  <1> HIDE DEF n
  <1>4. \A v \in Users \ {u} : Unread(v)' = Unread(v)
    BY <1>2, <1>3, OthersUnread
  <1>5. CountInv'
    BY <1>1, <1>3, <1>4, CountEscapes DEF NInv
  <1>6. req'[r] = Idle /\ \A p \in Requests \ {r} : SameWriter(p)
    BY <1>1, <1>3, OtherWriters DEF Becomes
  <1>7. IdInv'
    BY <1>1, <1>2, <1>3, <1>6, IdCommits DEF NInv
  <1> QED
    BY <1>5, <1>7 DEF NInv

\* A step that invalidates the count of u, or loses the invalidation, and inserts nothing.
LEMMA InvalidatesKeeps ==
  ASSUME NInv, Typed', NEW r \in Requests, NEW u \in Users, NEW x \in RequestRow \cup {Idle},
         x # Idle => WillNotify(r) /\ x.op = req[r].op /\ x.at = "commit"
                     /\ x.moment = req[r].moment,
         req[r] # Idle /\ req[r].at = "invalidate" => req[r].user = u,
         Escapes(u), req' = Outdate([req EXCEPT ![r] = x], u),
         UNCHANGED <<time, notifications>>
  PROVE  NInv'
  <1>1. /\ req \in ReqTables /\ TypeOK /\ TypeOK' /\ time \in Nat
        /\ \A v \in Users : Unread(v)' = Unread(v)
    BY IdsAreNumbers DEF NInv, Typed, TypeOK, ReqTables, Unread, Of
  <1>2. CountInv'
    BY <1>1, CountEscapes DEF NInv
  <1>3. Becomes(r, x)
    BY DEF Becomes
  <1>4. SameWriter(r)
    <2>1. /\ x = Idle <=> req'[r] = Idle
          /\ x # Idle => SameErrand(req'[r], x) /\ req'[r].at = x.at
      BY <1>1, <1>3, OtherWriters
    <2> QED
      BY <2>1 DEF SameWriter, WillNotify, WillMark, SameErrand
  <1>5. \A p \in Requests : SameWriter(p)
    BY <1>1, <1>3, <1>4, OtherWriters
  <1>6. time' >= time
    BY <1>1
  <1> QED
    BY <1>1, <1>2, <1>5, <1>6, IdQuiet DEF NInv

LEMMA NotificationCounts ==
  ASSUME NInv, Typed', NEW r \in Requests, NotificationStep(r)
  PROVE  NInv'
  <1>0. /\ req \in ReqTables /\ TypeOK /\ TypeOK' /\ notifications \subseteq Notification
        /\ time \in Nat /\ time' \in Nat
        /\ req[r] # Idle => req[r] \in RequestRow /\ req[r].user \in Users
    BY IdsAreNumbers, BoundsAssumption DEF NInv, Typed, TypeOK, ReqTables, RequestRow, Moments
  <1>1. CASE ListMisses(r)
    <2>1. PICK u \in Users : Begins(r, Request("list", "count", u))
      BY <1>1 DEF ListMisses
    <2>2. /\ Request("list", "count", u) \in RequestRow
          /\ Request("list", "count", u).op = "list" /\ Request("list", "count", u).at = "count"
      BY RequestType DEF Ops, Ats
    <2>3. UNCHANGED <<time, notifications, unreadCount>>
      BY <1>1 DEF ListMisses
    <2> QED
      BY <2>1, <2>2, <2>3, StepsPlainly DEF Begins
  <1>2. CASE ListCounts(r) \/ ListStores(r)
    <2>1. CountInv'
      BY <1>2, CountTaken, CountStored DEF NInv
    <2>2. UNCHANGED <<time, notifications>> /\ req[r] # Idle /\ req[r].op = "list"
      BY <1>2 DEF ListCounts, ListStores, At
    <2>3. PICK x \in RequestRow \cup {Idle} :
            req' = [req EXCEPT ![r] = x] /\ (x # Idle => x.op = "list")
      <3>1. CASE ListStores(r)
        BY <3>1 DEF ListStores, Ends
      <3>2. CASE ListCounts(r)
        <4> DEFINE q == [req[r] EXCEPT !.at = "store", !.count = Unread(req[r].user)]
        <4>1. q \in RequestRow /\ q.op = "list"
          BY <1>0, <2>2, UnreadType DEF RequestRow, NInv
        <4>2. req' = [req EXCEPT ![r] = q]
          BY <1>0, <3>2 DEF ListCounts, ReqTables
        <4> QED
          BY <4>1, <4>2
      <3> QED
        BY <1>2, <3>1, <3>2
    <2>4. /\ \A p \in Requests \ {r} : SameWriter(p)
          /\ ~WillNotify(r)' /\ ~WillMark(r)'
      BY <1>0, <2>3, OtherWriters DEF Becomes, WillNotify, WillMark, SameErrand
    <2>5. \A p \in Requests : SameWriter(p)
      BY <2>4 DEF SameWriter
    <2> QED
      BY <1>0, <2>1, <2>2, <2>5, IdQuiet DEF NInv
  <1>3. CASE Raise(r)
    <2>1. PICK to \in Raised :
            InvalidateOrLose(to[1], [req EXCEPT ![r] =
              [Request("raise", "commit", to[1]) EXCEPT !.moment = time', !.kind = to[2]]])
      BY <1>3 DEF Raise
    <2>2. to[1] \in Users /\ to[2] \in Kinds
      BY RaisedAssumption DEF RaisedKinds
    <2> DEFINE q == [Request("raise", "commit", to[1]) EXCEPT !.moment = time', !.kind = to[2]]
    <2>3. time' \in Moments
      BY <1>0, <1>3, TimeType DEF Raise
    <2>4. Request("raise", "commit", to[1]) \in RequestRow
          /\ Request("raise", "commit", to[1]).op = "raise"
          /\ Request("raise", "commit", to[1]).at = "commit"
      BY <2>2, RequestType DEF Ops, Ats
    <2>5. q \in RequestRow /\ q.op = "raise" /\ q.at = "commit" /\ q.moment = time' /\ q # Idle
      BY <2>2, <2>3, <2>4, NullAssumption DEF RequestRow
    <2>6. Escapes(to[1]) /\ req' = Outdate([req EXCEPT ![r] = q], to[1])
      BY <1>0, <2>1, <2>2, InvalidationEscapes
    <2> HIDE DEF q
    <2>7. req[r] = Idle /\ TakesTime /\ UNCHANGED notifications
      BY <1>3 DEF Raise
    <2>8. \A v \in Users : Unread(v)' = Unread(v)
      BY <2>7 DEF Unread, Of
    <2>9. CountInv'
      BY <1>0, <2>2, <2>5, <2>6, <2>7, <2>8, CountEscapes DEF NInv
    <2>10. /\ \A p \in Requests \ {r} : SameWriter(p)
           /\ req'[r] # Idle /\ req'[r].op = "raise" /\ req'[r].moment = time'
      BY <1>0, <2>2, <2>5, <2>6, OtherWriters DEF Becomes, SameErrand
    <2>11. IdInv'
      BY <1>0, <2>7, <2>10, IdBegins DEF NInv
    <2> QED
      BY <2>9, <2>11 DEF NInv
  <1>4. CASE RaiseCommits(r)
    <2>1. WillNotify(r) /\ req[r].kind \in Kinds /\ req[r].user \in Users
      BY <1>0, <1>4 DEF RaiseCommits, At, WillNotify, RequestRow
    <2> QED
      BY <1>4, <2>1, CommitKeeps DEF RaiseCommits
  <1>5. CASE RaiseAtOnce(r)
    <2>1. PICK to \in Raised :
            /\ notifications' = notifications \cup {NewNotification(time', to[1], to[2])}
            /\ Begins(r, Request("raise", "invalidate", to[1]))
      BY <1>5 DEF RaiseAtOnce
    <2>2. to[1] \in Users /\ to[2] \in Kinds
      BY RaisedAssumption DEF RaisedKinds
    <2> DEFINE n == NewNotification(time', to[1], to[2])
               x == Request("raise", "invalidate", to[1])
    <2>3. time' \in Moments /\ TakesTime /\ unreadCount' = unreadCount
      BY <1>0, <1>5, TimeType DEF RaiseAtOnce
    <2>4. n \in Notification /\ n.id = time' /\ n.user = to[1]
      BY <2>2, <2>3 DEF NewNotification, Notification
    <2>5. /\ x \in RequestRow /\ x.op = "raise" /\ x.at = "invalidate" /\ x.user = to[1]
          /\ x # Idle
      BY <2>2, RequestType, NullAssumption DEF Ops, Ats
    <2>6. req[r] = Idle /\ req' = [req EXCEPT ![r] = x] /\ notifications' = notifications \cup {n}
      BY <2>1 DEF Begins
    <2> HIDE DEF n, x
    <2>7. \A v \in Users \ {to[1]} : Unread(v)' = Unread(v)
      BY <2>2, <2>4, <2>6, OthersUnread
    <2>8. CountInv'
      BY <1>0, <2>3, <2>5, <2>6, <2>7, CountPlain DEF NInv
    <2>9. /\ \A p \in Requests \ {r} : SameWriter(p)
          /\ ~WillNotify(r)' /\ ~WillMark(r)'
      BY <1>0, <2>5, <2>6, OtherWriters DEF Becomes, WillNotify, WillMark, SameErrand
    <2>10. \A p \in Requests : SameWriter(p)
      BY <2>9 DEF SameWriter
    <2>11. IdInv'
      BY <1>0, <2>3, <2>4, <2>6, <2>10, IdAtOnce DEF NInv
    <2> QED
      BY <2>8, <2>11 DEF NInv
  <1>6. CASE Mark(r)
    <2>0. PICK n \in notifications :
            /\ \E m \in {MarkedRead(n), MarkedUnread(n), MarkedImportant(n), MarkedUnimportant(n)} :
                 notifications' = (notifications \ {n}) \cup {m}
            /\ MarkInvalidates(r, n)
      BY <1>6 DEF Mark
    <2>1. PICK m \in {MarkedRead(n), MarkedUnread(n), MarkedImportant(n), MarkedUnimportant(n)} :
            notifications' = (notifications \ {n}) \cup {m} /\ MarkInvalidates(r, n)
      BY <2>0
    <2>2. m.id = n.id /\ m.user = n.user /\ n.user \in Users
      BY <1>0, <2>1, ChangedRow DEF NInv, Notification
    <2> DEFINE x == Request("mark", "invalidate", n.user)
    <2>3. /\ x \in RequestRow /\ x.op = "mark" /\ x.at = "invalidate" /\ x.user = n.user
          /\ x # Idle
      BY <2>2, RequestType, NullAssumption DEF Ops, Ats
    <2>4. req[r] = Idle /\ req' = [req EXCEPT ![r] = x] /\ UNCHANGED <<time, unreadCount>>
      BY <1>6, <2>1 DEF Mark, MarkInvalidates, Begins
    <2> HIDE DEF x
    <2>5. \A v \in Users \ {n.user} : Unread(v)' = Unread(v)
      BY <2>1, <2>2, OthersUnread
    <2>6. CountInv'
      <3>1. \A v \in Users : \/ Unread(v)' = Unread(v)
                             \/ x # Idle /\ x.at = "invalidate" /\ x.user = v
        BY <2>3, <2>5
      <3>2. x # Idle => x.at # "store"
        BY <2>3
      <3> QED
        BY <1>0, <2>3, <2>4, <3>1, <3>2, CountPlain DEF NInv
    <2>7. /\ \A p \in Requests \ {r} : SameWriter(p)
          /\ ~WillNotify(r)' /\ ~WillMark(r)'
      BY <1>0, <2>3, <2>4, OtherWriters DEF Becomes, WillNotify, WillMark, SameErrand
    <2>8. \A p \in Requests : SameWriter(p)
      BY <2>7 DEF SameWriter
    <2>9. \A l \in notifications' : \E k \in notifications : k.id = l.id /\ k.user = l.user
      BY <2>1, <2>2
    <2>10. IdInv'
      BY <1>0, <2>4, <2>8, <2>9, IdQuiet DEF NInv
    <2> QED
      BY <2>6, <2>10 DEF NInv
  <1>7. CASE MarkAllFinds(r)
    <2>0. PICK u \in Users : \E S \in SUBSET Of(u) :
            Begins(r, [Request("markAll", "write", u) EXCEPT !.found = {n.id : n \in S}])
      <3>1. PICK u \in Users, persona \in Personas :
              Begins(r, [Request("markAll", "write", u) EXCEPT
                !.found = {n.id : n \in {k \in Of(u) : /\ ~k.read
                             /\ IsNotificationRelevantForPersona(k.kind, persona)}}])
        BY <1>7 DEF MarkAllFinds
      <3>2. {k \in Of(u) : ~k.read /\ IsNotificationRelevantForPersona(k.kind, persona)}
              \in SUBSET Of(u)
        OBVIOUS
      <3> QED
        BY <3>1, <3>2
    <2>1. PICK S \in SUBSET Of(u) :
            Begins(r, [Request("markAll", "write", u) EXCEPT !.found = {n.id : n \in S}])
      BY <2>0
    <2> DEFINE found == {n.id : n \in S}
               x == [Request("markAll", "write", u) EXCEPT !.found = found]
    <2>2. found \in SUBSET Moments
      BY <1>0 DEF Of, Notification
    <2> HIDE DEF found
    <2>3. Request("markAll", "write", u) \in RequestRow
          /\ Request("markAll", "write", u).op = "markAll"
          /\ Request("markAll", "write", u).at = "write"
          /\ Request("markAll", "write", u).user = u
      BY RequestType DEF Ops, Ats
    <2>4. /\ x \in RequestRow /\ x.op = "markAll" /\ x.at = "write" /\ x.user = u /\ x.found = found
          /\ x # Idle
      BY <2>2, <2>3, NullAssumption DEF RequestRow
    <2>5. /\ req[r] = Idle /\ req' = [req EXCEPT ![r] = x]
          /\ UNCHANGED <<time, notifications, unreadCount>>
      BY <1>7, <2>1 DEF MarkAllFinds, Begins, found
    <2> HIDE DEF x
    <2>6. \A v \in Users : Unread(v)' = Unread(v)
      BY <2>5 DEF Unread, Of
    <2>7. CountInv'
      BY <1>0, <2>4, <2>5, <2>6, CountPlain DEF NInv
    <2>8. /\ \A p \in Requests \ {r} : SameWriter(p)
          /\ ~WillNotify(r)' /\ req'[r].user = u /\ req'[r].found = found
      BY <1>0, <2>4, <2>5, OtherWriters DEF Becomes, WillNotify, SameErrand
    <2>9. IdInv'
      BY <1>0, <2>5, <2>8, IdFinds DEF NInv, found
    <2> QED
      BY <2>7, <2>9 DEF NInv
  <1>8. CASE MarkAllWrites(r)
    <2> DEFINE x == [req[r] EXCEPT !.at = "invalidate"]
               u == req[r].user
    <2>1. WillMark(r) /\ req[r] # Idle /\ req[r] \in RequestRow /\ u \in Users
      BY <1>0, <1>8 DEF MarkAllWrites, At, WillMark
    <2>2. /\ x \in RequestRow /\ x.at = "invalidate" /\ x.op = "markAll" /\ x.user = u /\ x # Idle
          /\ req' = [req EXCEPT ![r] = x]
      BY <1>0, <1>8, <2>1, GoesToIs, NullAssumption
      DEF MarkAllWrites, GoesTo, Ats, SameErrand, WillMark
    <2>3. /\ notifications' =
               {IF n.id \in req[r].found THEN MarkedRead(n) ELSE n : n \in notifications}
          /\ UNCHANGED <<time, unreadCount>>
      BY <1>8 DEF MarkAllWrites
    <2>4. \A n \in notifications : n.id \in req[r].found => n.user = u
      BY <2>1 DEF NInv, IdInv
    <2> HIDE DEF x, u
    <2>5. \A v \in Users \ {u} : Unread(v)' = Unread(v)
      <3> SUFFICES ASSUME NEW v \in Users \ {u} PROVE Unread(v)' = Unread(v)
        OBVIOUS
      <3>1. \A n \in notifications : MarkedRead(n).user = n.user
        BY <1>0 DEF MarkedRead, Notification
      <3>2. ASSUME NEW n \in notifications, n.user = v PROVE n \in notifications'
        BY <2>3, <2>4, <3>2
      <3>3. ASSUME NEW m \in notifications', m.user = v PROVE m \in notifications
        BY <2>3, <2>4, <3>1, <3>3
      <3> QED
        BY <2>1, <3>2, <3>3, OthersUnread
    <2>6. CountInv'
      BY <1>0, <1>8, <2>2, <2>3, <2>5, CountPlain DEF NInv, MarkAllWrites, At
    <2>7. /\ \A p \in Requests \ {r} : SameWriter(p)
          /\ ~WillNotify(r)' /\ ~WillMark(r)'
      BY <1>0, <2>2, OtherWriters DEF Becomes, WillNotify, WillMark, SameErrand
    <2>8. \A p \in Requests : SameWriter(p)
      BY <2>7 DEF SameWriter
    <2>9. \A l \in notifications' : \E k \in notifications : k.id = l.id /\ k.user = l.user
      BY <2>3, AllMarked DEF NInv
    <2>10. IdInv'
      BY <1>0, <2>3, <2>8, <2>9, IdQuiet DEF NInv
    <2> QED
      BY <2>6, <2>10 DEF NInv
  <1>9. CASE Invalidates(r)
    <2>1. /\ req[r] # Idle /\ req[r].at = "invalidate" /\ UNCHANGED <<time, notifications>>
          /\ InvalidateOrLose(req[r].user, [req EXCEPT ![r] = Idle])
      BY <1>9 DEF Invalidates
    <2>2. Escapes(req[r].user) /\ req' = Outdate([req EXCEPT ![r] = Idle], req[r].user)
      BY <1>0, <2>1, InvalidationEscapes
    <2> QED
      BY <1>0, <2>1, <2>2, InvalidatesKeeps
  <1> QED
    BY <1>1, <1>2, <1>3, <1>4, <1>5, <1>6, <1>7, <1>8, <1>9 DEF NotificationStep

LEMMA ThreadCounts ==
  ASSUME NInv, Typed', NEW r \in Requests, ThreadStep(r)
  PROVE  NInv'
  <1>0. /\ req \in ReqTables /\ TypeOK /\ TypeOK' /\ time \in Nat /\ time' \in Nat
        /\ req[r] # Idle => req[r] \in RequestRow /\ req[r].user \in Users
    BY IdsAreNumbers, BoundsAssumption DEF NInv, Typed, TypeOK, ReqTables, RequestRow, Moments
  <1>1. CASE SendBegins(r) \/ MarkReadBegins(r)
    <2>1. /\ req[r] = Idle /\ TakesTime /\ UNCHANGED <<notifications, unreadCount>>
          /\ \E x \in RequestRow \cup {Idle} :
               /\ req' = [req EXCEPT ![r] = x]
               /\ x # Idle /\ x.op # "markAll" /\ x.at \in {"upload", "write"} /\ x.moment = time'
      <3>0. time' \in Moments /\ \A x \in RequestRow : x # Idle
        BY <1>0, <1>1, TimeType, NullAssumption DEF SendBegins, MarkReadBegins
      <3>1. CASE SendBegins(r)
        <4>1. PICK u \in Users, files \in 0..MaxFiles :
                Begins(r, [Request("send", "upload", u) EXCEPT !.moment = time', !.toUpload = files])
          BY <3>1 DEF SendBegins
        <4> DEFINE x == [Request("send", "upload", u) EXCEPT !.moment = time', !.toUpload = files]
        <4>2. /\ Request("send", "upload", u) \in RequestRow
              /\ Request("send", "upload", u).op = "send" /\ Request("send", "upload", u).at = "upload"
          BY RequestType DEF Ops, Ats
        <4>3. x \in RequestRow /\ x.op = "send" /\ x.at = "upload" /\ x.moment = time'
          BY <3>0, <4>2 DEF RequestRow
        <4> HIDE DEF x
        <4>4. req[r] = Idle /\ req' = [req EXCEPT ![r] = x]
          BY <4>1 DEF Begins, x
        <4>5. TakesTime /\ UNCHANGED <<notifications, unreadCount>>
          BY <3>1 DEF SendBegins
        <4> QED
          BY <3>0, <4>3, <4>4, <4>5
      <3>2. CASE MarkReadBegins(r)
        <4> DEFINE all == {m.sentAt : m \in messages} \cup BeingSent
        <4>1. PICK u \in Users :
                Begins(r, [Request("markRead", "write", u) EXCEPT !.moment = time', !.found = all])
          BY <3>2 DEF MarkReadBegins
        <4>2. /\ Request("markRead", "write", u) \in RequestRow
              /\ Request("markRead", "write", u).op = "markRead"
              /\ Request("markRead", "write", u).at = "write"
          BY RequestType DEF Ops, Ats
        <4>3. all \in SUBSET Moments
          BY <1>0 DEF TypeOK, Message, BeingSent, RequestRow
        <4> HIDE DEF all
        <4> DEFINE x == [Request("markRead", "write", u) EXCEPT !.moment = time', !.found = all]
        <4>4. x \in RequestRow /\ x.op = "markRead" /\ x.at = "write" /\ x.moment = time'
          BY <3>0, <4>2, <4>3 DEF RequestRow
        <4> HIDE DEF x
        <4>5. req[r] = Idle /\ req' = [req EXCEPT ![r] = x]
          BY <4>1 DEF Begins, x
        <4>6. TakesTime /\ UNCHANGED <<notifications, unreadCount>>
          BY <3>2 DEF MarkReadBegins, chatVars
        <4> QED
          BY <3>0, <4>4, <4>5, <4>6
      <3> QED
        BY <1>1, <3>1, <3>2
    <2>2. PICK x \in RequestRow \cup {Idle} :
               /\ req' = [req EXCEPT ![r] = x]
               /\ x # Idle /\ x.op # "markAll" /\ x.at \in {"upload", "write"} /\ x.moment = time'
      BY <2>1
    <2>3. \A v \in Users : Unread(v)' = Unread(v)
      BY <2>1 DEF Unread, Of
    <2>4. CountInv'
      <3>1. x # Idle => x.at # "store"
        BY <2>2
      <3> QED
        BY <1>0, <2>1, <2>2, <2>3, <3>1, CountPlain DEF NInv
    <2>5. /\ \A p \in Requests \ {r} : SameWriter(p)
          /\ req'[r] # Idle /\ req'[r].op # "markAll" /\ req'[r].moment = time'
      BY <1>0, <2>2, OtherWriters DEF Becomes, SameErrand
    <2>6. IdInv'
      BY <1>0, <2>1, <2>5, IdBegins DEF NInv
    <2> QED
      BY <2>4, <2>6 DEF NInv
  <1>2. CASE SendUploads(r)
    <2> DEFINE x == [req[r] EXCEPT !.toUpload = @ - 1]
    <2>1. /\ req[r] # Idle /\ req[r].op = "send" /\ req[r].at = "upload" /\ req[r].toUpload > 0
          /\ req[r] \in RequestRow
          /\ UNCHANGED <<time, notifications, unreadCount>>
      BY <1>0, <1>2 DEF SendUploads, At, HasFiles
    <2>2. x \in RequestRow
      BY <2>1, BoundsAssumption DEF RequestRow
    <2>3. x.op = "send" /\ x.at = "upload" /\ x.moment = req[r].moment
      BY <2>1 DEF RequestRow
    <2>4. req' = [req EXCEPT ![r] = x]
      BY <1>0, <1>2 DEF SendUploads, ReqTables
    <2>5. WillNotify(r)
      BY <2>1 DEF WillNotify
    <2> HIDE DEF x
    <2> QED
      BY <2>1, <2>2, <2>3, <2>4, <2>5, StepsPlainly
  <1>3. CASE SendUploadFails(r) \/ SendRollsBack(r) \/ MarkReadWrites(r)
    <2>1. /\ req' = [req EXCEPT ![r] = Idle] /\ req[r].at # "invalidate"
          /\ UNCHANGED <<time, notifications, unreadCount>>
      BY <1>3 DEF SendUploadFails, SendRollsBack, MarkReadWrites, At, Ends
    <2> QED
      BY <2>1, StepsPlainly
  <1>4. CASE SendInserts(r)
    <2> DEFINE x == [req[r] EXCEPT !.at = "commit"]
               u == Other(req[r].user)
    <2>1. /\ req[r] # Idle /\ req[r].op = "send" /\ req[r].at = "upload" /\ req[r] \in RequestRow
          /\ u \in Users /\ UNCHANGED <<time, notifications>>
      BY <1>0, <1>4, UserOther DEF SendInserts, At, chatVars
    <2>2. /\ x \in RequestRow /\ SameErrand(x, req[r]) /\ x.at = "commit"
          /\ [req EXCEPT ![r].at = "commit"] = [req EXCEPT ![r] = x]
      BY <1>0, <2>1, GoesToIs DEF Ats
    <2>3. InvalidateOrLose(u, [req EXCEPT ![r].at = "commit"])
      BY <1>4 DEF SendInserts
    <2> HIDE DEF x, u
    <2>4. Escapes(u) /\ req' = Outdate([req EXCEPT ![r] = x], u)
      BY <1>0, <2>1, <2>2, <2>3, InvalidationEscapes
    <2>5. WillNotify(r) /\ x.op = req[r].op /\ x.moment = req[r].moment
      BY <2>1, <2>2 DEF WillNotify, SameErrand
    <2> QED
      BY <2>1, <2>2, <2>4, <2>5, InvalidatesKeeps
  <1>5. CASE SendCommits(r) \/ SendAnswerLost(r)
    <2>1. /\ req[r] # Idle /\ req[r].op = "send" /\ req[r].at = "commit" /\ SendWrites(r)
          /\ UNCHANGED time
      BY <1>5 DEF SendCommits, SendAnswerLost, At
    <2>2. Other(req[r].user) \in Users /\ WillNotify(r)
      BY <1>0, <2>1, UserOther DEF WillNotify
    <2> QED
      BY <2>1, <2>2, CommitKeeps, MessageKindType DEF SendWrites
  <1> QED
    BY <1>1, <1>2, <1>3, <1>4, <1>5 DEF ThreadStep

LEMMA DyingCounts ==
  ASSUME NInv, Typed', NEW r \in Requests, Dies(r)
  PROVE  NInv'
  <1>0. /\ req \in ReqTables /\ TypeOK /\ req[r] # Idle /\ req[r] \in RequestRow
        /\ req[r].user \in Users /\ UNCHANGED <<time, notifications>>
    BY DEF NInv, Typed, TypeOK, ReqTables, RequestRow, Dies
  <1>1. CASE req[r].at = "invalidate"
    <2>1. /\ unreadCount' = [unreadCount EXCEPT ![req[r].user] =
                               IF @ = NoEntry THEN @ ELSE [@ EXCEPT !.outdated = TRUE]]
          /\ req' = Outdate([req EXCEPT ![r] = Idle], req[r].user)
      BY <1>1 DEF Dies
    <2>2. Escapes(req[r].user)
      BY <1>0, <2>1, OutdatedEntry
    <2> QED
      BY <1>0, <2>1, <2>2, InvalidatesKeeps
  <1>2. CASE req[r].at # "invalidate"
    BY <1>0, <1>2, StepsPlainly DEF Dies, Ends
  <1> QED
    BY <1>1, <1>2

LEMMA CountsStep == ASSUME NInv, [Next]_vars PROVE NInv'
  <1> Typed'
    BY TypedStep DEF NInv
  <1>0. TypeOK /\ TypeOK' /\ time \in Nat
    BY IdsAreNumbers DEF NInv, Typed
  <1>1. CASE Background \/ UNCHANGED vars
    <2>1. UNCHANGED <<time, req, notifications>>
      BY <1>1 DEF Background, EntryExpires, TaskDeleted, MarkThreadImportantOrNot,
                  MarkMessageImportantOrNot, vars
    <2>2. \A v \in Users : unreadCount'[v] \in {unreadCount[v], NoEntry}
      <3>1. CASE EntryExpires
        BY <1>0, <3>1 DEF EntryExpires, TypeOK
      <3>2. CASE unreadCount' = unreadCount
        BY <3>2
      <3> QED
        BY <1>1, <3>1, <3>2 DEF Background, TaskDeleted, MarkThreadImportantOrNot,
                                MarkMessageImportantOrNot, vars
    <2>3. \A p \in Requests : SameWriter(p)
      BY <2>1 DEF SameWriter, WillNotify, WillMark
    <2>4. time' >= time
      BY <1>0, <2>1
    <2>5. IdInv'
      BY <1>0, <2>1, <2>3, <2>4, IdQuiet DEF NInv
    <2>6. CountInv'
      BY <2>1, <2>2, CountQuiet DEF NInv
    <2> QED
      BY <2>5, <2>6 DEF NInv
  <1> QED
    BY <1>1, NotificationCounts, ThreadCounts, DyingCounts DEF Next

\* The cached count of unread notifications differs from the rows only while a deletion is
\* still to come, or when something changed behind its back
\* (services/notifications: createNotification; cache/notification-unread-count).
THEOREM UnreadCountHasReasonCorrect == Spec => []UnreadCountHasReason
  <1>1. Init => NInv
    <2> SUFFICES ASSUME Init PROVE NInv
      OBVIOUS
    <2>1. /\ notifications = {} /\ (\A p \in Requests : req[p] = Idle)
          /\ \A u \in Users : unreadCount[u] = NoEntry
      BY DEF Init
    <2>2. IdInv
      BY <2>1 DEF IdInv, WillNotify, WillMark
    <2>3. CountInv
      BY <2>1 DEF CountInv, RightCount, Counting
    <2> QED
      BY <2>2, <2>3, TypedInit DEF NInv
  <1>2. NInv => UnreadCountHasReason
    BY DEF NInv, CountInv, RightCount, Pending, UnreadCountHasReason
  <1> QED
    BY <1>1, <1>2, CountsStep, PTL DEF Spec
=============================================================================
