--------------------------- MODULE AccountRecords ---------------------------
(***************************************************************************)
(* What one user writes about himself: the two profiles with their         *)
(* pictures, and the reviews of the platform, under overlapping requests   *)
(* and against the deactivation of the account.                            *)
(*                                                                         *)
(* Outside the two transactions (deactivation, the update of a profile     *)
(* with its technologies) every handler reads, checks, and later writes by *)
(* id, so what it saw may be out of date; every statement and every call   *)
(* of the storage is a step.  A developer's avatar and a company's logo    *)
(* are handled by the same steps.  Pictures are known by the number of     *)
(* their upload, 0 is no picture; the texts of a review by the number of   *)
(* the edit.  Sessions and mail tokens are in AuthTokens.tla; requests are *)
(* authenticated when they begin.  A behaviour has the requests of one     *)
(* group, which is chosen at the start.                                    *)
(***************************************************************************)
EXTENDS Naturals, FiniteSets

CONSTANTS
  Requests,     \* bound: requests in flight at the same time
  Idle,         \* a request slot with no request
  MaxPictures,  \* bound: pictures ever uploaded
  MaxReviews,   \* bound: reviews of the platform by this user
  MaxEdits,     \* bound: edits of reviews
  MaxFaults     \* bound: storage deletions that fail, requests that die

ASSUME BoundsAssumption ==
  /\ MaxPictures \in Nat /\ MaxReviews \in Nat
  /\ MaxEdits \in Nat /\ MaxFaults \in Nat

VARIABLES
  account,      \* "LIVE" or "DEACTIVATED"
  profile,      \* [Personas -> a row of developer_profiles or company_profiles]
  uploads,      \* pictures uploaded so far
  stored,       \* the pictures in the storage
  review,       \* platform_reviews
  edits,        \* texts written so far
  group,        \* which requests come, chosen at the start
  req,          \* [Requests -> {Idle} or a request]
  faults,       \* bound counter
  leftBehind,   \* history: profiles that a request deactivation overtook wrote
  halted,       \* history: pictures whose request died between deletion and write
  blurred       \* history: reviews whose last approval overlapped a write of the text

profileVars == <<account, profile, uploads, stored, leftBehind, halted>>
reviewVars  == <<review, edits, blurred>>
vars == <<profileVars, reviewVars, group, req, faults>>

Personas == {"developer", "company"}
Pictures == 1..MaxPictures
Reviews  == 1..MaxReviews
Texts    == 0..(MaxReviews + MaxEdits)

\* personal: the columns that deactivation overwrites.
ProfileRow == [exists : BOOLEAN, personal : BOOLEAN, picture : 0..MaxPictures]
NoProfile  == [exists |-> FALSE, personal |-> FALSE, picture |-> 0]

\* approvedText is history: the text that the approval read, or that a moderator wrote.
ReviewRow == [status : {"NONE", "PENDING", "APPROVED", "GONE"},
              text : Texts, recent : BOOLEAN, approvedText : Texts]
NoReview  == [status |-> "NONE", text |-> 0, recent |-> FALSE, approvedText |-> 0]

RequestRow ==
  [op : {"upload", "remove", "createProfile", "updateProfile", "deactivate",
         "createReview", "edit", "approve", "moderate", "deleteReview"},
   at : {"upload", "delete", "write"}, persona : Personas,
   old : 0..MaxPictures, new : 0..MaxPictures,  \* the picture read, the picture uploaded
   found : SUBSET Personas, pictures : SUBSET Pictures,  \* what deactivation read
   review : 0..MaxReviews, text : Texts, overtaken : BOOLEAN]

ASSUME NullAssumption == Idle \notin RequestRow

Init ==
  /\ group \in {"profile", "reviews"}
  /\ account = "LIVE"
  /\ profile = [p \in Personas |-> NoProfile]
  /\ uploads = 0 /\ stored = {}
  /\ review = [v \in Reviews |-> NoReview] /\ edits = 0
  /\ req = [r \in Requests |-> Idle]
  /\ faults = 0
  /\ leftBehind = {} /\ halted = {} /\ blurred = {}

-----------------------------------------------------------------------------
(* Requests *)

Request(op, at) ==
  [op |-> op, at |-> at, persona |-> "developer", old |-> 0, new |-> 0,
   found |-> {}, pictures |-> {}, review |-> 0, text |-> 0, overtaken |-> FALSE]

InFlight(r) == req[r] # Idle
At(r, op, at) == InFlight(r) /\ req[r].op = op /\ req[r].at = at
Begins(r, q) == req[r] = Idle /\ req' = [req EXCEPT ![r] = q]
GoesTo(r, at) == req' = [req EXCEPT ![r].at = at]
Ends(r) == req' = [req EXCEPT ![r] = Idle]

\* Request r ends, and these others learn, as history, that they were overtaken.
EndsAndOvertakes(r, others) ==
  req' = [q \in Requests |->
            IF q = r THEN Idle
            ELSE IF q \in others THEN [req[q] EXCEPT !.overtaken = TRUE] ELSE req[q]]

\* requireAuth refuses a deactivated account.
Authenticated == account = "LIVE"

Fault == faults < MaxFaults /\ faults' = faults + 1

-----------------------------------------------------------------------------
(* Profiles *)

ProfileRequest == group = "profile" /\ Authenticated

\* The row is updated by user id: what an overtaken request writes stays behind.
WritesProfile(r, row) ==
  /\ profile' = [profile EXCEPT ![req[r].persona] = row]
  /\ leftBehind' = IF account = "DEACTIVATED" /\ req[r].overtaken
                   THEN leftBehind \cup {req[r].persona} ELSE leftBehind
  /\ Ends(r)

CreateProfileReads(r) ==
  /\ ProfileRequest
  /\ \E p \in Personas :
       /\ ~profile[p].exists
       /\ Begins(r, [Request("createProfile", "write") EXCEPT !.persona = p])
  /\ UNCHANGED <<profileVars, reviewVars, group, faults>>

\* The primary key refuses a second profile.
CreateProfileWrites(r) ==
  /\ At(r, "createProfile", "write")
  /\ IF profile[req[r].persona].exists
     THEN Ends(r) /\ UNCHANGED <<profile, leftBehind>>
     ELSE WritesProfile(r, [exists |-> TRUE, personal |-> TRUE, picture |-> 0])
  /\ UNCHANGED <<account, uploads, stored, halted, reviewVars, group, faults>>

\* find...ProfileForOwnership
FindProfileForOwnership(p) == ProfileRequest /\ profile[p].exists

UpdateProfileReads(r) ==
  /\ \E p \in Personas :
       /\ FindProfileForOwnership(p)
       /\ Begins(r, [Request("updateProfile", "write") EXCEPT !.persona = p])
  /\ UNCHANGED <<profileVars, reviewVars, group, faults>>

UpdateProfileWrites(r) ==
  /\ At(r, "updateProfile", "write")
  /\ WritesProfile(r, [profile[req[r].persona] EXCEPT !.personal = TRUE])
  /\ UNCHANGED <<account, uploads, stored, halted, reviewVars, group, faults>>

-----------------------------------------------------------------------------
(* Pictures *)

\* uploadDeveloperAvatar, uploadCompanyLogo: read the profile, upload the new picture,
\* delete the old one, write the row.
UploadReads(r) ==
  /\ \E p \in Personas :
       /\ FindProfileForOwnership(p)
       /\ Begins(r, [Request("upload", "upload") EXCEPT
                       !.persona = p, !.old = profile[p].picture])
  /\ UNCHANGED <<profileVars, reviewVars, group, faults>>

Uploads(r) ==
  /\ At(r, "upload", "upload") /\ uploads < MaxPictures
  /\ uploads' = uploads + 1
  /\ stored' = stored \cup {uploads'}
  /\ req' = [req EXCEPT ![r].new = uploads', ![r].at = "delete"]
  /\ UNCHANGED <<account, profile, leftBehind, halted, reviewVars, group, faults>>

\* An invalid image, or an upload the storage refuses.
UploadRefused(r) ==
  /\ At(r, "upload", "upload")
  /\ Ends(r)
  /\ UNCHANGED <<profileVars, reviewVars, group, faults>>

\* deleteDeveloperAvatar, deleteCompanyLogo
RemoveReads(r) ==
  /\ \E p \in Personas :
       /\ FindProfileForOwnership(p) /\ profile[p].picture # 0
       /\ Begins(r, [Request("remove", "delete") EXCEPT
                       !.persona = p, !.old = profile[p].picture])
  /\ UNCHANGED <<profileVars, reviewVars, group, faults>>

\* deleteImage swallows its failure.
DeleteImages(pictures) ==
  \/ stored' = stored \ pictures /\ UNCHANGED faults
  \/ pictures # {} /\ UNCHANGED stored /\ Fault

\* The mutant of OldPicture: the one that was just uploaded.
NewPicture(r) == {req[r].new} \ {0}
OldPicture(r) == {req[r].old} \ {0}

DeletesOldPicture(r) ==
  /\ InFlight(r) /\ req[r].op \in {"upload", "remove"} /\ req[r].at = "delete"
  /\ DeleteImages(OldPicture(r))
  /\ GoesTo(r, "write")
  /\ UNCHANGED <<account, profile, uploads, leftBehind, halted, reviewVars, group>>

\* The new picture, or none when it is removed.
WritesPicture(r) ==
  /\ InFlight(r) /\ req[r].op \in {"upload", "remove"} /\ req[r].at = "write"
  /\ WritesProfile(r, [profile[req[r].persona] EXCEPT !.picture = req[r].new])
  /\ UNCHANGED <<account, uploads, stored, halted, reviewVars, group, faults>>

-----------------------------------------------------------------------------
(* Deactivation *)

\* The mutant of MediaPublicIds: profiles without a picture are not filtered out.
MediaPublicIdsOrNone(found) == {profile[p].picture : p \in found}
MediaPublicIds(found) == {profile[p].picture : p \in found} \ {0}

\* deactivateMyAccount reads the profiles and their pictures, overwrites the profiles it
\* has read in a transaction, and deletes the pictures it has read.
DeactivateReads(r) ==
  /\ ProfileRequest
  /\ LET found == {p \in Personas : profile[p].exists}
     IN Begins(r, [Request("deactivate", "write") EXCEPT
                     !.found = found, !.pictures = MediaPublicIds(found)])
  /\ UNCHANGED <<profileVars, reviewVars, group, faults>>

\* The mutant of Anonymous: the picture stays in the row.
AnonymousWithPicture(row) == [row EXCEPT !.personal = FALSE]
Anonymous(row) == [row EXCEPT !.personal = FALSE, !.picture = 0]

\* A profile created since the read is not among those overwritten.
DeactivateCommits(r) ==
  /\ At(r, "deactivate", "write")
  /\ account' = "DEACTIVATED"
  /\ profile' = [p \in Personas |->
                   IF p \in req[r].found THEN Anonymous(profile[p]) ELSE profile[p]]
  /\ leftBehind' = leftBehind \cup {p \in Personas \ req[r].found : profile[p].exists}
  /\ req' = [q \in Requests |->
               IF q = r THEN [req[r] EXCEPT !.at = "delete"]
               ELSE IF InFlight(q) THEN [req[q] EXCEPT !.overtaken = TRUE] ELSE Idle]
  /\ UNCHANGED <<uploads, stored, halted, reviewVars, group, faults>>

DeactivateDeletes(r) ==
  /\ At(r, "deactivate", "delete")
  /\ DeleteImages(req[r].pictures)
  /\ Ends(r)
  /\ UNCHANGED <<account, profile, uploads, leftBehind, halted, reviewVars, group>>

\* The process stops, or a statement fails.
Dies(r) ==
  /\ InFlight(r) /\ Fault
  /\ halted' = IF req[r].op \in {"upload", "remove"} /\ req[r].at = "write"
               THEN halted \cup OldPicture(r) ELSE halted
  /\ Ends(r)
  /\ UNCHANGED <<account, profile, uploads, stored, leftBehind, reviewVars, group>>

-----------------------------------------------------------------------------
(* Reviews of the platform *)

ReviewRequest == group = "reviews"
RowIsThere(v) == review[v].status \in {"PENDING", "APPROVED"}

\* The requests about review v in flight, other than r.
Others(r, v, ops) ==
  {q \in Requests \ {r} : InFlight(q) /\ req[q].op \in ops /\ req[q].review = v}

\* No review of the last PLATFORM_REVIEW_COOLDOWN_DAYS.
CreateReviewReads(r) ==
  /\ ReviewRequest
  /\ \A v \in Reviews : ~(RowIsThere(v) /\ review[v].recent)
  /\ Begins(r, Request("createReview", "write"))
  /\ UNCHANGED <<profileVars, reviewVars, group, faults>>

NextReview == {v \in Reviews : /\ review[v].status = "NONE"
                               /\ \A w \in 1..(v - 1) : review[w].status # "NONE"}

NewText == edits < MaxReviews + MaxEdits /\ edits' = edits + 1

CreateReviewWrites(r) ==
  /\ At(r, "createReview", "write")
  /\ NewText
  /\ \E v \in NextReview :
       review' = [review EXCEPT ![v] =
                    [status |-> "PENDING", text |-> edits', recent |-> TRUE, approvedText |-> 0]]
  /\ Ends(r)
  /\ UNCHANGED <<profileVars, blurred, group, faults>>

\* The mutant of OwnerMayEdit: an approved review as well.
OwnerMayEditAny(v) == RowIsThere(v)

\* updatePlatformReview by the owner: an unapproved review only.
OwnerMayEdit(v) == review[v].status = "PENDING"

EditReads(r) ==
  /\ ReviewRequest
  /\ \E v \in Reviews :
       /\ OwnerMayEdit(v)
       /\ Begins(r, [Request("edit", "write") EXCEPT !.review = v])
  /\ UNCHANGED <<profileVars, reviewVars, group, faults>>

\* Updating by id fails when the row is gone.
EditWrites(r) ==
  /\ At(r, "edit", "write")
  /\ LET v == req[r].review
     IN IF RowIsThere(v)
        THEN /\ NewText
             /\ review' = [review EXCEPT ![v].text = edits']
             /\ blurred' = IF req[r].overtaken THEN blurred \cup {v} ELSE blurred
             /\ EndsAndOvertakes(r, Others(r, v, {"approve"}))
        ELSE Ends(r) /\ UNCHANGED <<review, edits, blurred>>
  /\ UNCHANGED <<profileVars, group, faults>>

\* approvePlatformReview, and a moderator's updatePlatformReview that approves and leaves
\* the text alone, which does not look whether the review is approved already.
ApproveReads(r) ==
  /\ ReviewRequest
  /\ \E v \in Reviews :
       /\ RowIsThere(v)
       /\ Begins(r, [Request("approve", "write") EXCEPT
                       !.review = v, !.text = review[v].text])
  /\ UNCHANGED <<profileVars, reviewVars, group, faults>>

ApproveWrites(r) ==
  /\ At(r, "approve", "write")
  /\ LET v == req[r].review
     IN IF RowIsThere(v)
        THEN /\ review' = [review EXCEPT ![v].status = "APPROVED",
                                      ![v].approvedText = req[r].text]
             /\ blurred' = IF req[r].overtaken THEN blurred \cup {v} ELSE blurred \ {v}
             /\ EndsAndOvertakes(r, Others(r, v, {"edit"}))
        ELSE Ends(r) /\ UNCHANGED <<review, blurred>>
  /\ UNCHANGED <<profileVars, edits, group, faults>>

\* updatePlatformReview by a moderator, who may write the text, with or without the
\* approval, or only take the approval back.
ModerateReads(r) ==
  /\ ReviewRequest
  /\ \E v \in Reviews : RowIsThere(v) /\ Begins(r, [Request("moderate", "write") EXCEPT !.review = v])
  /\ UNCHANGED <<profileVars, reviewVars, group, faults>>

ModerateWrites(r) ==
  /\ At(r, "moderate", "write")
  /\ LET v == req[r].review
     IN IF RowIsThere(v)
        THEN /\ \/ /\ NewText
                   /\ \E status \in {"PENDING", "APPROVED"} :
                        review' = [review EXCEPT ![v].status = status,
                                                 ![v].text = edits', ![v].approvedText = edits']
                \/ /\ review' = [review EXCEPT ![v].status = "PENDING"]
                   /\ UNCHANGED edits
             /\ EndsAndOvertakes(r, Others(r, v, {"edit", "approve"}))
        ELSE Ends(r) /\ UNCHANGED <<review, edits>>
  /\ UNCHANGED <<profileVars, blurred, group, faults>>

\* deletePlatformReview
DeleteReviewReads(r) ==
  /\ ReviewRequest
  /\ \E v \in Reviews :
       RowIsThere(v) /\ Begins(r, [Request("deleteReview", "write") EXCEPT !.review = v])
  /\ UNCHANGED <<profileVars, reviewVars, group, faults>>

DeleteReviewWrites(r) ==
  /\ At(r, "deleteReview", "write")
  /\ LET v == req[r].review
     IN review' = IF RowIsThere(v) THEN [review EXCEPT ![v] = [NoReview EXCEPT !.status = "GONE"]]
                  ELSE review
  /\ Ends(r)
  /\ UNCHANGED <<profileVars, edits, blurred, group, faults>>

\* The cooldown of a review passes.
CooldownPasses ==
  /\ \E v \in Reviews : RowIsThere(v) /\ review[v].recent
                        /\ review' = [review EXCEPT ![v].recent = FALSE]
  /\ UNCHANGED <<profileVars, edits, blurred, group, req, faults>>

\* getPlatformReviews: everybody sees the approved ones, the author his own as well.
GetPlatformReviews(viewer) ==
  {v \in Reviews : RowIsThere(v) /\ (viewer = "visitor" => review[v].status = "APPROVED")}

\* getPlatformReview by id.
GetPlatformReview(v, viewer) ==
  RowIsThere(v) /\ (review[v].status = "APPROVED" \/ viewer \in {"author", "moderator"})

-----------------------------------------------------------------------------
ProfileStep(r) ==
  \/ CreateProfileReads(r) \/ CreateProfileWrites(r)
  \/ UpdateProfileReads(r) \/ UpdateProfileWrites(r)
  \/ UploadReads(r) \/ Uploads(r) \/ UploadRefused(r)
  \/ RemoveReads(r) \/ DeletesOldPicture(r) \/ WritesPicture(r)
  \/ DeactivateReads(r) \/ DeactivateCommits(r) \/ DeactivateDeletes(r)

ReviewStep(r) ==
  \/ CreateReviewReads(r) \/ CreateReviewWrites(r)
  \/ EditReads(r) \/ EditWrites(r) \/ ApproveReads(r) \/ ApproveWrites(r)
  \/ ModerateReads(r) \/ ModerateWrites(r)
  \/ DeleteReviewReads(r) \/ DeleteReviewWrites(r)

Next == CooldownPasses \/ \E r \in Requests : ProfileStep(r) \/ ReviewStep(r) \/ Dies(r)

Spec == Init /\ [][Next]_vars

-----------------------------------------------------------------------------
(* Properties *)

TypeOK ==
  /\ account \in {"LIVE", "DEACTIVATED"}
  /\ profile \in [Personas -> ProfileRow]
  /\ uploads \in 0..MaxPictures /\ stored \subseteq Pictures
  /\ review \in [Reviews -> ReviewRow] /\ edits \in Texts
  /\ group \in {"profile", "reviews"}
  /\ req \in [Requests -> RequestRow \cup {Idle}]
  /\ faults \in 0..MaxFaults
  /\ leftBehind \subseteq Personas /\ halted \subseteq Pictures /\ blurred \subseteq Reviews

\* The picture of a profile is in the storage, except between the deletion of the old
\* picture and the write of the row (for good when the request dies there).  Overlapping
\* uploads and removals, which all read the same old picture, add no other case.
PictureIsStored ==
  \A p \in Personas : profile[p].picture # 0 =>
    \/ profile[p].picture \in stored \cup halted
    \/ \E r \in Requests : /\ InFlight(r) /\ req[r].op \in {"upload", "remove"}
                           /\ req[r].at = "write" /\ profile[p].picture \in OldPicture(r)

\* After deactivation nothing personal is left in the profiles, except what a request
\* wrote that was in flight when the account was deactivated, and a profile created
\* while the deactivation was under way.
DeactivatedIsAnonymous ==
  account = "DEACTIVATED" =>
    \A p \in Personas \ leftBehind : ~profile[p].personal /\ profile[p].picture = 0

\* What a visitor is shown of a review, in the list or by its id, stays the text that its
\* approval read or a moderator wrote: the author changes an unapproved review only
\* ("Update can be done by owner (for unapproved reviews)"), unless a write overlapped
\* the last approval.  What a moderator saw before asking for the approval is not
\* compared with anything: an edit before the approval reads the row is published.
PublicTextIsSettled ==
  \A v \in Reviews \ blurred :
    v \in GetPlatformReviews("visitor") \/ GetPlatformReview(v, "visitor") =>
      review[v].text = review[v].approvedText
=============================================================================
