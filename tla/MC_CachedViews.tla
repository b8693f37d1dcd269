--------------------------- MODULE MC_CachedViews ---------------------------
(***************************************************************************)
(* Instance of CachedViews for TLC: one request at a time.  Without a      *)
(* cache every operation is used; a watched list gets those that touch it. *)
(* One developer takes part, except where invites compete.                 *)
(***************************************************************************)
EXTENDS CachedViews, TLC

SomeDeveloper == {CHOOSE d \in Developers : TRUE}

Scene(view, ops, developers, projects) ==
  [view |-> view, group |-> [ops |-> ops, developers |-> developers, projects |-> projects]]

PublishedOps == {"CreateTaskDraft", "PublishTask"}

Listing == PublishedOps \cup
  {"UpdateTaskDraft", "CloseTask", "DeleteTask", "ApplyToTask", "AcceptApplication",
   "CreateTaskInvite", "AcceptInvite", "ReportTask", "ResolveTaskReport", "DeleteProject"}

Inviting == PublishedOps \cup
  {"DeleteTask", "CreateTaskInvite", "AcceptInvite", "DeclineInvite", "CancelInvite"}

Chatting == PublishedOps \cup
  {"ApplyToTask", "AcceptApplication", "GetThreadByTaskId", "RequestCompletion",
   "RejectCompletion", "ConfirmCompletion", "OpenDispute", "EscalateDispute",
   "ResolveDispute", "ReportTask", "ResolveTaskReport", "DeleteProject"}

AllScenes ==
  {Scene(NoRedis, DOMAIN Reads, SomeDeveloper, Projects),
   Scene(<<"public tasks", NoDeveloper>>, Listing, SomeDeveloper, Projects),
   Scene(<<"public projects", NoDeveloper>>, {"UpdateProject", "DeleteProject"}, {}, Projects)}
  \cup {Scene(<<"task invites", t>>, Inviting, Developers, {}) : t \in Tasks}
  \cup {Scene(<<"my invites", d>>, Inviting, Developers, {}) : d \in SomeDeveloper}
  \cup {Scene(<<"my threads", d>>, Chatting, SomeDeveloper, Projects) : d \in SomeDeveloper}

AllGroups == {s.group : s \in AllScenes}
=============================================================================
