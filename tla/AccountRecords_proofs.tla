------------------------ MODULE AccountRecords_proofs ------------------------
(***************************************************************************)
(* Proofs about AccountRecords, for any number of overlapping requests,    *)
(* pictures, reviews, edits and faults: types, pictures and their storage, *)
(* what deactivation leaves behind, and the text that is approved.  Then   *)
(* about UserStanding: it leaves the records alone, and what is told of    *)
(* the role and of the tours.                                              *)
(***************************************************************************)
EXTENDS UserStanding, TLAPS

-----------------------------------------------------------------------------
(* Requests *)

PictureOps == {"upload", "remove"}
ProfileOps == PictureOps \cup {"createProfile", "updateProfile"}
ReviewOps  == {"edit", "approve", "moderate", "deleteReview"}
Ops == ProfileOps \cup ReviewOps \cup {"deactivate", "createReview"}
Ats == {"upload", "delete", "write"}

ReqType == req \in [Requests -> RequestRow \cup {Idle}]

LEMMA InFlightRow == ASSUME ReqType, NEW r \in Requests, InFlight(r) PROVE req[r] \in RequestRow
  BY DEF ReqType, InFlight

LEMMA RowInFlight ==
  ASSUME NEW r \in Requests PROVE req'[r] \in RequestRow => InFlight(r)'
  BY NullAssumption DEF InFlight

\* The requests that the first steps make.
LEMMA RequestType ==
  ASSUME NEW op \in Ops, NEW at \in Ats, NEW p \in Personas, NEW n \in 0..MaxPictures,
         NEW F \in SUBSET Personas, NEW S \in SUBSET Pictures, NEW v \in 0..MaxReviews,
         NEW x \in Texts
  PROVE  LET q == [op |-> op, at |-> at, persona |-> p, old |-> n, new |-> 0, found |-> F,
                   pictures |-> S, review |-> v, text |-> x, overtaken |-> FALSE]
         IN q \in RequestRow
  <1>1. 0 \in 0..MaxPictures
    BY BoundsAssumption
  <1> QED
    BY <1>1 DEF RequestRow, Ops, Ats, ProfileOps, PictureOps, ReviewOps

LEMMA NewRequest ==
  ASSUME NEW op \in Ops, NEW at \in Ats
  PROVE  /\ Request(op, at) \in RequestRow
         /\ \A p \in Personas : [Request(op, at) EXCEPT !.persona = p] \in RequestRow
         /\ \A p \in Personas, n \in 0..MaxPictures :
              [Request(op, at) EXCEPT !.persona = p, !.old = n] \in RequestRow
         /\ \A F \in SUBSET Personas, S \in SUBSET Pictures :
              [Request(op, at) EXCEPT !.found = F, !.pictures = S] \in RequestRow
         /\ \A v \in 0..MaxReviews : [Request(op, at) EXCEPT !.review = v] \in RequestRow
         /\ \A v \in 0..MaxReviews, x \in Texts :
              [Request(op, at) EXCEPT !.review = v, !.text = x] \in RequestRow
  <1>1. 0 \in 0..MaxPictures /\ 0 \in 0..MaxReviews /\ 0 \in Texts
    BY BoundsAssumption DEF Texts
  <1>2. Request(op, at) \in RequestRow
    BY <1>1 DEF Request, RequestRow, Personas, Ops, Ats, ProfileOps, PictureOps, ReviewOps
  <1> QED
    BY <1>2 DEF RequestRow

\* What each way of changing the table of requests does to it.
LEMMA BeginsEffect ==
  ASSUME ReqType, NEW r \in Requests, NEW q, Begins(r, q)
  PROVE  ~InFlight(r) /\ req'[r] = q /\ \A o \in Requests \ {r} : req'[o] = req[o]
  BY DEF ReqType, Begins, InFlight

LEMMA EndsEffect ==
  ASSUME ReqType, NEW r \in Requests, Ends(r)
  PROVE  req'[r] = Idle /\ \A o \in Requests \ {r} : req'[o] = req[o]
  BY DEF ReqType, Ends

LEMMA GoesToEffect ==
  ASSUME ReqType, NEW r \in Requests, InFlight(r), NEW at \in Ats, GoesTo(r, at)
  PROVE  /\ req'[r] = [req[r] EXCEPT !.at = at] /\ req'[r] \in RequestRow
         /\ \A o \in Requests \ {r} : req'[o] = req[o]
  <1>1. req'[r] = [req[r] EXCEPT !.at = at] /\ \A o \in Requests \ {r} : req'[o] = req[o]
    BY DEF ReqType, GoesTo
  <1>2. req[r] \in RequestRow
    BY InFlightRow
  <1> QED
    BY <1>1, <1>2 DEF RequestRow, Ats

\* A request is told that it was overtaken, or not; nothing else in it changes.
Kept(q) ==
  \/ req'[q] = req[q]
  \/ InFlight(q) /\ req'[q] = [req[q] EXCEPT !.overtaken = TRUE]

LEMMA KeptFields ==
  ASSUME ReqType, NEW q \in Requests, Kept(q)
  PROVE  /\ req'[q] \in RequestRow \cup {Idle}
         /\ InFlight(q)' <=> InFlight(q)
         /\ InFlight(q) =>
              /\ req'[q].op = req[q].op /\ req'[q].at = req[q].at
              /\ req'[q].persona = req[q].persona /\ req'[q].old = req[q].old
              /\ req'[q].new = req[q].new /\ req'[q].found = req[q].found
              /\ req'[q].pictures = req[q].pictures /\ req'[q].review = req[q].review
              /\ req'[q].text = req[q].text
              /\ req[q].overtaken => req'[q].overtaken
  <1>1. CASE req'[q] = req[q]
    BY <1>1 DEF ReqType, InFlight
  <1>2. CASE InFlight(q) /\ req'[q] = [req[q] EXCEPT !.overtaken = TRUE]
    <2>1. req[q] \in RequestRow
      BY <1>2, InFlightRow
    <2>2. req'[q] \in RequestRow
      BY <1>2, <2>1 DEF RequestRow
    <2> QED
      BY <1>2, <2>1, <2>2, RowInFlight DEF RequestRow
  <1> QED
    BY <1>1, <1>2 DEF Kept

LEMMA EndsAndOvertakesEffect ==
  ASSUME ReqType, NEW r \in Requests, NEW S, \A q \in S : InFlight(q), EndsAndOvertakes(r, S)
  PROVE  /\ req'[r] = Idle
         /\ \A o \in Requests \ {r} :
              /\ Kept(o)
              /\ o \in S => req'[o] = [req[o] EXCEPT !.overtaken = TRUE]
  BY DEF EndsAndOvertakes, Kept

\* All that a step may do to the requests other than r, and to r itself.
OthersKept(r) == \A o \in Requests \ {r} : Kept(o)
DomainKept == req' = [q \in Requests |-> req'[q]]

LEMMA ReqTypeKept ==
  ASSUME ReqType, NEW r \in Requests, OthersKept(r), DomainKept,
         req'[r] \in RequestRow \cup {Idle}
  PROVE  ReqType'
  BY KeptFields DEF ReqType, OthersKept, DomainKept

-----------------------------------------------------------------------------
(* Types *)

TablesType ==
  /\ account \in {"LIVE", "DEACTIVATED"}
  /\ profile \in [Personas -> ProfileRow]
  /\ uploads \in 0..MaxPictures /\ stored \subseteq Pictures
  /\ review \in [Reviews -> ReviewRow] /\ edits \in Texts
  /\ group \in {"profile", "reviews"}
  /\ faults \in 0..MaxFaults
  /\ leftBehind \subseteq Personas /\ halted \subseteq Pictures /\ blurred \subseteq Reviews

LEMMA TypeParts == TypeOK <=> ReqType /\ TablesType
  BY DEF TypeOK, ReqType, TablesType

LEMMA TypePartsNext == TypeOK' <=> ReqType' /\ TablesType'
  BY TypeParts, PTL

LEMMA BeginsType ==
  ASSUME ReqType, NEW r \in Requests, NEW q \in RequestRow, Begins(r, q) PROVE ReqType'
  BY DEF ReqType, Begins

LEMMA EndsType == ASSUME ReqType, NEW r \in Requests, Ends(r) PROVE ReqType'
  BY DEF ReqType, Ends

LEMMA GoesToType ==
  ASSUME ReqType, NEW r \in Requests, InFlight(r), NEW at \in Ats, GoesTo(r, at) PROVE ReqType'
  <1>1. req' = [req EXCEPT ![r] = [req[r] EXCEPT !.at = at]]
    BY DEF ReqType, GoesTo
  <1>2. [req[r] EXCEPT !.at = at] \in RequestRow
    BY InFlightRow DEF RequestRow, Ats
  <1> QED
    BY <1>1, <1>2 DEF ReqType

LEMMA EndsAndOvertakesType ==
  ASSUME ReqType, NEW r \in Requests, NEW S, \A q \in S : InFlight(q), EndsAndOvertakes(r, S)
  PROVE  ReqType'
  <1>1. \A q \in Requests : q \in S => [req[q] EXCEPT !.overtaken = TRUE] \in RequestRow
    BY InFlightRow DEF RequestRow
  <1> QED
    BY <1>1 DEF EndsAndOvertakes, ReqType

LEMMA SameTables ==
  ASSUME TablesType, UNCHANGED <<profileVars, reviewVars, group, faults>> PROVE TablesType'
  BY DEF TablesType, profileVars, reviewVars

LEMMA FaultType == ASSUME TablesType, Fault PROVE faults' \in 0..MaxFaults
  BY BoundsAssumption DEF TablesType, Fault

LEMMA Profile ==
  ASSUME TablesType, NEW p \in Personas
  PROVE  profile[p] \in ProfileRow /\ profile[p].picture \in 0..MaxPictures
  BY DEF TablesType, ProfileRow

LEMMA ProfileType ==
  ASSUME NEW row \in ProfileRow, NEW b \in BOOLEAN, NEW n \in 0..MaxPictures
  PROVE  /\ [row EXCEPT !.personal = b] \in ProfileRow
         /\ [row EXCEPT !.personal = b].exists = row.exists
         /\ [row EXCEPT !.personal = b].picture = row.picture
         /\ [row EXCEPT !.picture = n] \in ProfileRow
         /\ [row EXCEPT !.picture = n].exists = row.exists
         /\ [row EXCEPT !.picture = n].personal = row.personal
         /\ [row EXCEPT !.picture = n].picture = n
         /\ [row EXCEPT !.personal = b, !.picture = n] \in ProfileRow
         /\ [row EXCEPT !.personal = b, !.picture = n].exists = row.exists
         /\ [row EXCEPT !.personal = b, !.picture = n].personal = b
         /\ [row EXCEPT !.personal = b, !.picture = n].picture = n
         /\ [exists |-> TRUE, personal |-> TRUE, picture |-> n] \in ProfileRow
  BY DEF ProfileRow

\* A request writes the profile of its persona and ends.
LEMMA WritesProfileEffect ==
  ASSUME ReqType, TablesType, NEW r \in Requests, InFlight(r), NEW row \in ProfileRow,
         WritesProfile(r, row)
  PROVE  /\ req[r].persona \in Personas
         /\ profile' \in [Personas -> ProfileRow] /\ leftBehind' \subseteq Personas
         /\ profile'[req[r].persona] = row
         /\ \A p \in Personas \ {req[r].persona} : profile'[p] = profile[p]
         /\ leftBehind' = IF account = "DEACTIVATED" /\ req[r].overtaken
                          THEN leftBehind \cup {req[r].persona} ELSE leftBehind
         /\ Ends(r)
  <1>1. req[r].persona \in Personas
    BY InFlightRow DEF RequestRow
  <1> QED
    BY <1>1 DEF WritesProfile, TablesType

\* deleteImage, whether it succeeds or fails.
LEMMA DeleteImagesType ==
  ASSUME TablesType, NEW S, DeleteImages(S) PROVE stored' \subseteq Pictures /\ faults' \in 0..MaxFaults
  BY FaultType DEF DeleteImages, TablesType

LEMMA PictureReads ==
  ASSUME ReqType, TablesType, NEW r \in Requests
  PROVE  (CreateProfileReads(r) \/ UpdateProfileReads(r) \/ UploadReads(r) \/ RemoveReads(r)
            \/ DeactivateReads(r)) => ReqType' /\ TablesType'
  <1>a. /\ "createProfile" \in Ops /\ "updateProfile" \in Ops /\ "upload" \in Ops
        /\ "remove" \in Ops /\ "deactivate" \in Ops
        /\ "write" \in Ats /\ "upload" \in Ats /\ "delete" \in Ats
    BY DEF Ops, Ats, ProfileOps, PictureOps
  <1>1. CASE CreateProfileReads(r)
    <2>1. PICK p \in Personas : Begins(r, [Request("createProfile", "write") EXCEPT !.persona = p])
      BY <1>1 DEF CreateProfileReads
    <2> QED
      BY <1>a, <1>1, <2>1, NewRequest, BeginsType, SameTables DEF CreateProfileReads
  <1>2. CASE UpdateProfileReads(r)
    <2>1. PICK p \in Personas : Begins(r, [Request("updateProfile", "write") EXCEPT !.persona = p])
      BY <1>2 DEF UpdateProfileReads
    <2> QED
      BY <1>a, <1>2, <2>1, NewRequest, BeginsType, SameTables DEF UpdateProfileReads
  <1>3. CASE UploadReads(r)
    <2>1. PICK p \in Personas : Begins(r, [Request("upload", "upload") EXCEPT
                                             !.persona = p, !.old = profile[p].picture])
      BY <1>3 DEF UploadReads
    <2> QED
      BY <1>a, <1>3, <2>1, Profile, NewRequest, BeginsType, SameTables DEF UploadReads
  <1>4. CASE RemoveReads(r)
    <2>1. PICK p \in Personas : Begins(r, [Request("remove", "delete") EXCEPT
                                             !.persona = p, !.old = profile[p].picture])
      BY <1>4 DEF RemoveReads
    <2> QED
      BY <1>a, <1>4, <2>1, Profile, NewRequest, BeginsType, SameTables DEF RemoveReads
  <1>5. CASE DeactivateReads(r)
    <2> DEFINE found == {p \in Personas : profile[p].exists}
    <2>1. Begins(r, [Request("deactivate", "write") EXCEPT
                       !.found = found, !.pictures = MediaPublicIds(found)])
      BY <1>5 DEF DeactivateReads
    <2>2. found \in SUBSET Personas
      OBVIOUS
    <2>3. MediaPublicIds(found) \in SUBSET Pictures
      BY Profile, BoundsAssumption DEF MediaPublicIds, Pictures
    <2> HIDE DEF found
    <2> QED
      BY <1>a, <1>5, <2>1, <2>2, <2>3, NewRequest, BeginsType, SameTables DEF DeactivateReads
  <1> QED
    BY <1>1, <1>2, <1>3, <1>4, <1>5

LEMMA ProfileStepType ==
  ASSUME ReqType, TablesType, NEW r \in Requests, ProfileStep(r)
  PROVE  ReqType' /\ TablesType'
  <1>0. 0 \in 0..MaxPictures
    BY BoundsAssumption
  <1>1. CASE CreateProfileReads(r) \/ UpdateProfileReads(r) \/ UploadReads(r) \/ RemoveReads(r)
             \/ DeactivateReads(r)
    BY <1>1, PictureReads
  <1>2. CASE CreateProfileWrites(r)
    <2>1. UNCHANGED <<account, uploads, stored, halted, reviewVars, group, faults>>
      BY <1>2 DEF CreateProfileWrites
    <2>2. CASE Ends(r) /\ UNCHANGED <<profile, leftBehind>>
      BY <2>1, <2>2, EndsType DEF TablesType, reviewVars
    <2>3. CASE WritesProfile(r, [exists |-> TRUE, personal |-> TRUE, picture |-> 0])
      <3>1. [exists |-> TRUE, personal |-> TRUE, picture |-> 0] \in ProfileRow
        BY <1>0 DEF ProfileRow
      <3>2. profile' \in [Personas -> ProfileRow] /\ leftBehind' \subseteq Personas /\ Ends(r)
        BY <1>2, <2>3, <3>1, WritesProfileEffect DEF CreateProfileWrites, At
      <3> QED
        BY <2>1, <3>2, EndsType DEF TablesType, reviewVars
    <2> QED
      BY <1>2, <2>2, <2>3 DEF CreateProfileWrites
  <1>3. CASE UpdateProfileWrites(r)
    <2> DEFINE row == [profile[req[r].persona] EXCEPT !.personal = TRUE]
    <2>1. InFlight(r) /\ WritesProfile(r, row)
      BY <1>3 DEF UpdateProfileWrites, At
    <2>2. row \in ProfileRow
      <3>1. req[r].persona \in Personas
        BY <2>1, InFlightRow DEF RequestRow
      <3> QED
        BY <1>0, <3>1, Profile, ProfileType
    <2> HIDE DEF row
    <2>3. profile' \in [Personas -> ProfileRow] /\ leftBehind' \subseteq Personas /\ Ends(r)
      BY <2>1, <2>2, WritesProfileEffect
    <2> QED
      BY <1>3, <2>3, EndsType DEF UpdateProfileWrites, TablesType, reviewVars
  <1>4. CASE Uploads(r)
    <2>1. uploads + 1 \in Pictures /\ uploads + 1 \in 0..MaxPictures
      BY <1>4, BoundsAssumption DEF Uploads, TablesType, Pictures
    <2>2. req[r] \in RequestRow
      BY <1>4, InFlightRow DEF Uploads, At
    <2>3. [req[r] EXCEPT !.new = uploads + 1, !.at = "delete"] \in RequestRow
      BY <2>1, <2>2 DEF RequestRow
    <2>4. req' = [req EXCEPT ![r] = [req[r] EXCEPT !.new = uploads + 1, !.at = "delete"]]
      BY <1>4 DEF Uploads, ReqType
    <2>5. ReqType'
      BY <2>3, <2>4 DEF ReqType
    <2> QED
      BY <1>4, <2>1, <2>5 DEF Uploads, TablesType, reviewVars
  <1>5. CASE UploadRefused(r)
    BY <1>5, EndsType, SameTables DEF UploadRefused
  <1>6. CASE DeletesOldPicture(r)
    BY <1>6, GoesToType, DeleteImagesType DEF DeletesOldPicture, TablesType, reviewVars, Ats
  <1>7. CASE WritesPicture(r)
    <2> DEFINE row == [profile[req[r].persona] EXCEPT !.picture = req[r].new]
    <2>1. InFlight(r) /\ WritesProfile(r, row)
      BY <1>7 DEF WritesPicture
    <2>2. row \in ProfileRow
      <3>1. req[r].persona \in Personas /\ req[r].new \in 0..MaxPictures
        BY <2>1, InFlightRow DEF RequestRow
      <3> QED
        BY <3>1, Profile, ProfileType
    <2> HIDE DEF row
    <2>3. profile' \in [Personas -> ProfileRow] /\ leftBehind' \subseteq Personas /\ Ends(r)
      BY <2>1, <2>2, WritesProfileEffect
    <2> QED
      BY <1>7, <2>3, EndsType DEF WritesPicture, TablesType, reviewVars
  <1>8. CASE DeactivateCommits(r)
    <2>1. \A p \in Personas : Anonymous(profile[p]) \in ProfileRow
      BY <1>0, Profile, ProfileType DEF Anonymous
    <2>2. profile' \in [Personas -> ProfileRow]
      BY <1>8, <2>1, Profile DEF DeactivateCommits
    <2>3. leftBehind' \subseteq Personas
      BY <1>8 DEF DeactivateCommits, TablesType
    <2>4. \A q \in Requests : InFlight(q) =>
            /\ [req[q] EXCEPT !.overtaken = TRUE] \in RequestRow
            /\ [req[q] EXCEPT !.at = "delete"] \in RequestRow
      BY InFlightRow DEF RequestRow
    <2>5. ReqType'
      BY <1>8, <2>4 DEF DeactivateCommits, At, ReqType
    <2> QED
      BY <1>8, <2>2, <2>3, <2>5 DEF DeactivateCommits, TablesType, reviewVars
  <1>9. CASE DeactivateDeletes(r)
    BY <1>9, EndsType, DeleteImagesType DEF DeactivateDeletes, TablesType, reviewVars
  <1> QED
    BY <1>1, <1>2, <1>3, <1>4, <1>5, <1>6, <1>7, <1>8, <1>9 DEF ProfileStep

-----------------------------------------------------------------------------
(* Types of the reviews *)

LEMMA ReviewType ==
  ASSUME NEW row \in ReviewRow, NEW s \in {"NONE", "PENDING", "APPROVED", "GONE"},
         NEW x \in Texts, NEW y \in Texts, NEW b \in BOOLEAN
  PROVE  /\ [row EXCEPT !.text = x] \in ReviewRow
         /\ [row EXCEPT !.status = s] \in ReviewRow
         /\ [row EXCEPT !.recent = b] \in ReviewRow
         /\ [row EXCEPT !.status = s, !.approvedText = x] \in ReviewRow
         /\ [row EXCEPT !.status = s, !.text = x, !.approvedText = y] \in ReviewRow
         /\ [status |-> s, text |-> x, recent |-> b, approvedText |-> y] \in ReviewRow
  BY DEF ReviewRow

LEMMA NewTextType == ASSUME TablesType, NewText PROVE edits' \in Texts
  BY BoundsAssumption DEF TablesType, NewText, Texts

\* Requests about a review hold the number of one.
Named == \A r \in Requests : InFlight(r) /\ req[r].op \in ReviewOps => req[r].review \in Reviews

\* One review is written.
LEMMA ReviewWrite ==
  ASSUME TablesType, NEW v \in Reviews, NEW row \in ReviewRow,
         review' = [review EXCEPT ![v] = row]
  PROVE  /\ review' \in [Reviews -> ReviewRow] /\ review'[v] = row
         /\ \A w \in Reviews \ {v} : review'[w] = review[w]
  BY DEF TablesType


\* What a writing request of a review does: the rows, the requests that overlap it.
LEMMA OthersInFlight ==
  ASSUME NEW r, NEW v, NEW ops PROVE \A q \in Others(r, v, ops) : InFlight(q)
  BY DEF Others

LEMMA ReviewStepType ==
  ASSUME ReqType, TablesType, Named, NEW r \in Requests, ReviewStep(r)
  PROVE  ReqType' /\ TablesType'
  <1>a. /\ "createReview" \in Ops /\ ReviewOps \subseteq Ops /\ "write" \in Ats
        /\ ReviewOps = {"edit", "approve", "moderate", "deleteReview"}
    BY DEF Ops, Ats, ReviewOps
  <1>b. Reviews \subseteq 0..MaxReviews
    BY BoundsAssumption DEF Reviews
  <1>c. ASSUME NEW op \in Ops, At(r, op, "write")
        PROVE InFlight(r) /\ req[r] \in RequestRow /\ req[r].op = op
    BY <1>c, InFlightRow DEF At
  <1>v. ASSUME NEW v \in Reviews PROVE review[v] \in ReviewRow /\ review[v].text \in Texts
    BY <1>v DEF TablesType, ReviewRow
  <1>1. CASE CreateReviewReads(r)
    BY <1>1, <1>a, NewRequest, BeginsType, SameTables DEF CreateReviewReads
  <1>2. CASE CreateReviewWrites(r)
    <2>1. edits' \in Texts
      BY <1>2, NewTextType DEF CreateReviewWrites
    <2>2. PICK v \in NextReview :
            review' = [review EXCEPT ![v] =
                         [status |-> "PENDING", text |-> edits', recent |-> TRUE, approvedText |-> 0]]
      BY <1>2 DEF CreateReviewWrites
    <2>3. v \in Reviews /\ 0 \in Texts
      BY BoundsAssumption DEF NextReview, Texts
    <2>4. [status |-> "PENDING", text |-> edits', recent |-> TRUE, approvedText |-> 0] \in ReviewRow
      BY <2>1, <2>3 DEF ReviewRow
    <2>5. review' \in [Reviews -> ReviewRow]
      BY <2>2, <2>3, <2>4, ReviewWrite
    <2> QED
      BY <1>2, <2>1, <2>5, EndsType DEF CreateReviewWrites, TablesType, profileVars
  <1>3. CASE EditReads(r)
    <2>1. PICK v \in Reviews : Begins(r, [Request("edit", "write") EXCEPT !.review = v])
      BY <1>3 DEF EditReads
    <2> QED
      BY <1>a, <1>b, <1>3, <2>1, NewRequest, BeginsType, SameTables DEF EditReads
  <1>4. CASE EditWrites(r)
    <2> DEFINE v == req[r].review
    <2>1. v \in Reviews
      BY <1>4 DEF EditWrites, At, Named, ReviewOps
    <2>2. CASE RowIsThere(v)
      <3>1. /\ NewText /\ review' = [review EXCEPT ![v].text = edits']
            /\ blurred' = IF req[r].overtaken THEN blurred \cup {v} ELSE blurred
            /\ EndsAndOvertakes(r, Others(r, v, {"approve"}))
            /\ UNCHANGED <<profileVars, group, faults>>
        BY <1>4, <2>2 DEF EditWrites
      <3>2. edits' \in Texts
        BY <3>1, NewTextType
      <3>3. [review[v] EXCEPT !.text = edits'] \in ReviewRow
        BY <1>v, <2>1, <3>2 DEF ReviewRow
      <3>4. review' = [review EXCEPT ![v] = [review[v] EXCEPT !.text = edits']]
        BY <3>1
      <3>5. review' \in [Reviews -> ReviewRow]
        BY <2>1, <3>3, <3>4, ReviewWrite
      <3>6. ReqType'
        BY <3>1, OthersInFlight, EndsAndOvertakesType
      <3> HIDE DEF v
      <3> QED
        BY <2>1, <3>1, <3>2, <3>5, <3>6 DEF TablesType, profileVars
    <2>3. CASE ~RowIsThere(v)
      BY <1>4, <2>3, EndsType, SameTables DEF EditWrites, reviewVars
    <2> QED
      BY <2>2, <2>3
  <1>5. CASE ApproveReads(r)
    <2>1. PICK v \in Reviews : Begins(r, [Request("approve", "write") EXCEPT
                                            !.review = v, !.text = review[v].text])
      BY <1>5 DEF ApproveReads
    <2> QED
      BY <1>a, <1>b, <1>v, <1>5, <2>1, NewRequest, BeginsType, SameTables DEF ApproveReads
  <1>6. CASE ApproveWrites(r)
    <2> DEFINE v == req[r].review
    <2>1. v \in Reviews /\ req[r].text \in Texts
      BY <1>6, InFlightRow DEF ApproveWrites, At, Named, ReviewOps, RequestRow
    <2>2. CASE RowIsThere(v)
      <3>1. /\ review' = [review EXCEPT ![v].status = "APPROVED", ![v].approvedText = req[r].text]
            /\ blurred' = IF req[r].overtaken THEN blurred \cup {v} ELSE blurred \ {v}
            /\ EndsAndOvertakes(r, Others(r, v, {"edit"}))
            /\ UNCHANGED <<profileVars, edits, group, faults>>
        BY <1>6, <2>2 DEF ApproveWrites
      <3>3. [review[v] EXCEPT !.status = "APPROVED", !.approvedText = req[r].text] \in ReviewRow
        BY <1>v, <2>1 DEF ReviewRow
      <3>4. review' = [review EXCEPT ![v] = [review[v] EXCEPT !.status = "APPROVED",
                                                              !.approvedText = req[r].text]]
        BY <2>1, <3>1 DEF TablesType
      <3>5. review' \in [Reviews -> ReviewRow]
        BY <2>1, <3>3, <3>4, ReviewWrite
      <3>6. ReqType'
        BY <3>1, OthersInFlight, EndsAndOvertakesType
      <3> HIDE DEF v
      <3> QED
        BY <2>1, <3>1, <3>5, <3>6 DEF TablesType, profileVars
    <2>3. CASE ~RowIsThere(v)
      BY <1>6, <2>3, EndsType, SameTables DEF ApproveWrites, reviewVars
    <2> QED
      BY <2>2, <2>3
  <1>7. CASE ModerateReads(r)
    <2>1. PICK v \in Reviews : Begins(r, [Request("moderate", "write") EXCEPT !.review = v])
      BY <1>7 DEF ModerateReads
    <2> QED
      BY <1>a, <1>b, <1>7, <2>1, NewRequest, BeginsType, SameTables DEF ModerateReads
  <1>8. CASE ModerateWrites(r)
    <2> DEFINE v == req[r].review
    <2>1. v \in Reviews
      BY <1>8 DEF ModerateWrites, At, Named, ReviewOps
    <2>2. CASE RowIsThere(v)
      <3>1. /\ \/ /\ NewText
                  /\ \E status \in {"PENDING", "APPROVED"} :
                       review' = [review EXCEPT ![v].status = status,
                                                ![v].text = edits', ![v].approvedText = edits']
               \/ review' = [review EXCEPT ![v].status = "PENDING"] /\ UNCHANGED edits
            /\ EndsAndOvertakes(r, Others(r, v, {"edit", "approve"}))
            /\ UNCHANGED <<profileVars, blurred, group, faults>>
        BY <1>8, <2>2 DEF ModerateWrites
      <3>2. edits' \in Texts
        BY <3>1, NewTextType DEF TablesType
      <3>3. /\ [review[v] EXCEPT !.status = "PENDING"] \in ReviewRow
            /\ \A s \in {"PENDING", "APPROVED"} :
                 [review[v] EXCEPT !.status = s, !.text = edits', !.approvedText = edits']
                   \in ReviewRow
        BY <1>v, <2>1, <3>2 DEF ReviewRow
      <3>4. \/ review' = [review EXCEPT ![v] = [review[v] EXCEPT !.status = "PENDING"]]
            \/ \E s \in {"PENDING", "APPROVED"} :
                 review' = [review EXCEPT ![v] =
                   [review[v] EXCEPT !.status = s, !.text = edits', !.approvedText = edits']]
        BY <2>1, <3>1 DEF TablesType
      <3>5. review' \in [Reviews -> ReviewRow]
        BY <2>1, <3>3, <3>4, ReviewWrite
      <3>6. ReqType'
        BY <3>1, OthersInFlight, EndsAndOvertakesType
      <3> HIDE DEF v
      <3> QED
        BY <2>1, <3>1, <3>2, <3>5, <3>6 DEF TablesType, profileVars
    <2>3. CASE ~RowIsThere(v)
      BY <1>8, <2>3, EndsType, SameTables DEF ModerateWrites, reviewVars
    <2> QED
      BY <2>2, <2>3
  <1>9. CASE DeleteReviewReads(r)
    <2>1. PICK v \in Reviews : Begins(r, [Request("deleteReview", "write") EXCEPT !.review = v])
      BY <1>9 DEF DeleteReviewReads
    <2> QED
      BY <1>a, <1>b, <1>9, <2>1, NewRequest, BeginsType, SameTables DEF DeleteReviewReads
  <1>10. CASE DeleteReviewWrites(r)
    <2> DEFINE v == req[r].review
    <2>1. v \in Reviews
      BY <1>10 DEF DeleteReviewWrites, At, Named, ReviewOps
    <2>2. [NoReview EXCEPT !.status = "GONE"] \in ReviewRow
      <3>1. 0 \in Texts
        BY BoundsAssumption DEF Texts
      <3> QED
        BY <3>1 DEF NoReview, ReviewRow
    <2>3. review' \in [Reviews -> ReviewRow]
      <3>1. \/ review' = review
            \/ review' = [review EXCEPT ![v] = [NoReview EXCEPT !.status = "GONE"]]
        BY <1>10 DEF DeleteReviewWrites
      <3> HIDE DEF v
      <3> QED
        BY <2>1, <2>2, <3>1, ReviewWrite DEF TablesType
    <2> QED
      BY <1>10, <2>3, EndsType DEF DeleteReviewWrites, TablesType, profileVars
  <1> QED
    BY <1>1, <1>2, <1>3, <1>4, <1>5, <1>6, <1>7, <1>8, <1>9, <1>10 DEF ReviewStep

-----------------------------------------------------------------------------
(* Pictures: each belongs to one profile, and one being uploaded to nobody. *)

Pic(p) == profile[p].picture

\* A profile that does not exist is empty, and who writes one has seen that it exists.
ProfilesFit ==
  /\ \A p \in Personas : ~profile[p].exists => ~profile[p].personal /\ Pic(p) = 0
  /\ \A r \in Requests :
       InFlight(r) /\ req[r].op \in PictureOps \cup {"updateProfile"} =>
         profile[req[r].persona].exists

\* Nobody begins a request about a profile after deactivation.
AllOvertaken ==
  account = "DEACTIVATED" =>
    \A r \in Requests : InFlight(r) /\ req[r].op \in ProfileOps => req[r].overtaken

\* A picture that was read is the picture of the profile it was read from, or of none;
\* what a deactivation that has committed read is of none.
Owned ==
  /\ \A p, q \in Personas : Pic(p) = Pic(q) /\ Pic(p) # 0 => p = q
  /\ \A r \in Requests, p \in Personas :
       InFlight(r) =>
         /\ Pic(p) = req[r].old /\ Pic(p) # 0 => p = req[r].persona
         /\ Pic(p) \in req[r].pictures => req[r].at = "write" /\ p \in req[r].found

\* An uploaded picture is stored, and nobody else knows it before its row is written.
Fresh ==
  \A r \in Requests : InFlight(r) /\ req[r].new # 0 =>
    /\ req[r].new \in stored
    /\ \A p \in Personas : Pic(p) # req[r].new
    /\ \A q \in Requests : InFlight(q) =>
         /\ req[q].old # req[r].new /\ req[r].new \notin req[q].pictures
         /\ req[q].new = req[r].new => q = r

\* Every picture was uploaded.
Numbered ==
  /\ \A p \in Personas : Pic(p) <= uploads
  /\ \A r \in Requests : InFlight(r) =>
       /\ req[r].old <= uploads /\ req[r].new <= uploads
       /\ \A n \in req[r].pictures : n <= uploads

PInv == ProfilesFit /\ AllOvertaken /\ Owned /\ Fresh /\ Numbered /\ PictureIsStored
        /\ DeactivatedIsAnonymous

Types == ReqType /\ TablesType

\* The picture of p is missing because request r is between the two statements.
Missing(r, p) ==
  /\ InFlight(r) /\ req[r].op \in {"upload", "remove"} /\ req[r].at = "write"
  /\ Pic(p) = req[r].old

LEMMA StoredMeans ==
  PictureIsStored <=>
    \A p \in Personas : Pic(p) # 0 =>
      Pic(p) \in stored \cup halted \/ \E r \in Requests : Missing(r, p)
  BY DEF PictureIsStored, Missing, Pic, OldPicture

LEMMA StoredMeansNext ==
  PictureIsStored' <=>
    \A p \in Personas : Pic(p)' # 0 =>
      Pic(p)' \in stored' \cup halted' \/ \E r \in Requests : Missing(r, p)'
  BY DEF PictureIsStored, Missing, Pic, OldPicture, InFlight

\* The requests other than r, as Kept leaves them.
SameOthers(r) ==
  \A q \in Requests \ {r} :
    /\ InFlight(q)' <=> InFlight(q)
    /\ InFlight(q) =>
         /\ req'[q].op = req[q].op /\ req'[q].at = req[q].at
         /\ req'[q].persona = req[q].persona /\ req'[q].old = req[q].old
         /\ req'[q].new = req[q].new /\ req'[q].found = req[q].found
         /\ req'[q].pictures = req[q].pictures
         /\ req[q].overtaken => req'[q].overtaken

LEMMA OthersAreSame ==
  ASSUME ReqType, NEW r \in Requests, OthersKept(r) PROVE SameOthers(r)
  BY KeptFields DEF OthersKept, SameOthers

LEMMA NoneElse ==
  ASSUME NEW r \in Requests, \A o \in Requests \ {r} : req'[o] = req[o] PROVE OthersKept(r)
  BY DEF OthersKept, Kept

\* A request ends without a write: if a picture was deleted for it, halted has it, and
\* what it deletes belongs to nobody.
LEMMA EndKeeps ==
  ASSUME PInv, NEW r \in Requests, SameOthers(r), ~InFlight(r)',
         UNCHANGED <<account, profile, uploads, leftBehind>>,
         halted \subseteq halted',
         \A p \in Personas : Pic(p) \in stored /\ Pic(p) # 0 => Pic(p) \in stored',
         \A q \in Requests \ {r} : InFlight(q) /\ req[q].new # 0 => req[q].new \in stored',
         \A p \in Personas : Missing(r, p) /\ Pic(p) # 0 => Pic(p) \in halted'
  PROVE  PInv'
  <1>p. \A p \in Personas : Pic(p)' = Pic(p)
    BY DEF Pic
  <1>1. ProfilesFit'
    BY <1>p DEF PInv, ProfilesFit, SameOthers
  <1>2. AllOvertaken'
    BY DEF PInv, AllOvertaken, SameOthers
  <1>3. Owned'
    BY <1>p DEF PInv, Owned, SameOthers
  <1>4. Fresh'
    BY <1>p DEF PInv, Fresh, SameOthers
  <1>5. Numbered'
    BY <1>p DEF PInv, Numbered, SameOthers
  <1>6. PictureIsStored'
    <2> SUFFICES ASSUME NEW p \in Personas, Pic(p)' # 0
                 PROVE  Pic(p)' \in stored' \cup halted' \/ \E q \in Requests : Missing(q, p)'
      BY StoredMeansNext
    <2>1. CASE Pic(p) \in stored \cup halted
      BY <1>p, <2>1
    <2>2. CASE Missing(r, p)
      BY <1>p, <2>2
    <2>3. ASSUME NEW q \in Requests \ {r}, Missing(q, p) PROVE Missing(q, p)'
      BY <1>p, <2>3 DEF SameOthers, Missing
    <2> QED
      BY <1>p, <2>1, <2>2, <2>3, StoredMeans DEF PInv
  <1>7. DeactivatedIsAnonymous'
    BY DEF PInv, DeactivatedIsAnonymous
  <1> QED
    BY <1>1, <1>2, <1>3, <1>4, <1>5, <1>6, <1>7 DEF PInv

\* A request begins with what it has just read, or goes on after a statement that
\* changed no profile and no picture.
MayBegin(q) ==
  /\ q.op \in ProfileOps => account = "LIVE"
  /\ q.op \in PictureOps \cup {"updateProfile"} => profile[q.persona].exists
  /\ q.new = 0
  /\ q.old = 0 \/ q.old = Pic(q.persona)
  /\ \A n \in q.pictures : n # 0 /\ \E p \in q.found : Pic(p) = n
  /\ q.pictures # {} => q.at = "write"
  /\ q.persona \in Personas /\ q.found \subseteq Personas

LEMMA BeginKeeps ==
  ASSUME Types, PInv, NEW r \in Requests, SameOthers(r), ~InFlight(r), InFlight(r)',
         UNCHANGED profileVars, MayBegin(req'[r])
  PROVE  PInv'
  <1>u. UNCHANGED <<account, profile, uploads, stored, leftBehind, halted>>
    BY DEF profileVars
  <1>p. \A p \in Personas : Pic(p)' = Pic(p)
    BY <1>u DEF Pic
  <1>0. \A p \in Personas : Pic(p) \in Nat /\ Pic(p) <= uploads
    BY Profile, BoundsAssumption DEF Types, Pic, PInv, Numbered
  <1>1. ProfilesFit'
    BY <1>p, <1>u DEF PInv, ProfilesFit, SameOthers, MayBegin
  <1>2. AllOvertaken'
    BY <1>u DEF PInv, AllOvertaken, SameOthers, MayBegin
  <1>3. Owned'
    BY <1>p, <1>u DEF PInv, Owned, SameOthers, MayBegin
  <1>4. Fresh'
    BY <1>p, <1>u DEF PInv, Fresh, SameOthers, MayBegin
  <1>5. Numbered'
    BY <1>p, <1>u, <1>0, BoundsAssumption DEF PInv, Numbered, SameOthers, MayBegin, Types, TablesType
  <1>6. PictureIsStored'
    <2> SUFFICES ASSUME NEW p \in Personas, Pic(p)' # 0
                 PROVE  Pic(p)' \in stored' \cup halted' \/ \E q \in Requests : Missing(q, p)'
      BY StoredMeansNext
    <2>1. CASE Pic(p) \in stored \cup halted
      BY <1>p, <1>u, <2>1
    <2>2. ASSUME NEW q \in Requests, Missing(q, p) PROVE Missing(q, p)'
      BY <1>p, <2>2 DEF SameOthers, Missing
    <2> QED
      BY <1>p, <2>1, <2>2, StoredMeans DEF PInv
  <1>7. DeactivatedIsAnonymous'
    BY <1>u DEF PInv, DeactivatedIsAnonymous
  <1> QED
    BY <1>1, <1>2, <1>3, <1>4, <1>5, <1>6, <1>7 DEF PInv

\* A request writes its profile with the picture it uploaded, none, or the one there.
LEMMA WriteKeeps ==
  ASSUME Types, PInv, NEW r \in Requests, SameOthers(r), ~InFlight(r)',
         UNCHANGED <<account, uploads, stored, halted>>,
         InFlight(r), req[r].op \in ProfileOps, req[r].persona \in Personas,
         profile'[req[r].persona].exists,
         \A p \in Personas \ {req[r].persona} : profile'[p] = profile[p],
         \/ profile'[req[r].persona].picture = 0
         \/ profile'[req[r].persona].picture = req[r].new
         \/ profile'[req[r].persona].picture = profile[req[r].persona].picture /\ req[r].op \notin PictureOps,
         leftBehind' = IF account = "DEACTIVATED" /\ req[r].overtaken
                       THEN leftBehind \cup {req[r].persona} ELSE leftBehind
  PROVE  PInv'
  <1> DEFINE p0 == req[r].persona
  <1>0. \A p \in Personas \ {p0} : Pic(p)' = Pic(p)
    BY DEF Pic
  <1>k. /\ p0 \in Personas
        /\ Pic(p0) = profile[p0].picture
        /\ \/ profile'[p0].picture = 0
           \/ profile'[p0].picture = req[r].new
           \/ profile'[p0].picture = Pic(p0) /\ req[r].op \notin PictureOps
    BY DEF Pic
  <1>p. \A p \in Personas : Pic(p)' = Pic(p) \/ (p = p0 /\ (Pic(p)' = 0 \/ Pic(p)' = req[r].new))
    <2> SUFFICES ASSUME NEW p \in Personas
                 PROVE  Pic(p)' = Pic(p) \/ (p = p0 /\ (Pic(p)' = 0 \/ Pic(p)' = req[r].new))
      OBVIOUS
    <2>1. CASE p = p0
      <3>1. profile'[p] = profile'[p0] /\ profile[p] = profile[p0]
        BY <2>1
      <3> QED
        BY <1>k, <2>1, <3>1 DEF Pic
    <2> QED
      BY <1>0, <2>1
  <1>n. req[r].new # 0 =>
          /\ req[r].new \in stored
          /\ \A p \in Personas : Pic(p) # req[r].new
          /\ \A q \in Requests : InFlight(q) =>
               /\ req[q].old # req[r].new /\ req[r].new \notin req[q].pictures
               /\ req[q].new = req[r].new => q = r
    BY DEF PInv, Fresh
  <1>q. \A q \in Requests : InFlight(q) =>
          /\ req[q].persona \in Personas /\ req[q].old \in Nat /\ req[q].new \in Nat
          /\ req[q].pictures \subseteq Nat \ {0}
    BY InFlightRow, BoundsAssumption DEF Types, RequestRow, Pictures
  <1>o. \A q \in Requests : InFlight(q)' => q # r /\ InFlight(q)
    BY DEF SameOthers
  <1>w. p0 \in Personas /\ profile'[p0].exists
        /\ \A p \in Personas \ {p0} : profile'[p] = profile[p]
    OBVIOUS
  <1>m. \A p \in Personas : Missing(r, p) => Pic(p)' = 0 \/ Pic(p)' = req[r].new
    <2> SUFFICES ASSUME NEW p \in Personas, Missing(r, p), Pic(p)' # 0
                 PROVE  Pic(p)' = req[r].new
      OBVIOUS
    <2>1. CASE p = p0
      <3>1. profile'[p] = profile'[p0] /\ req[r].op \in PictureOps
        BY <2>1 DEF Missing, PictureOps
      <3> QED
        BY <1>k, <2>1, <3>1 DEF Pic
    <2>2. CASE p # p0
      BY <1>0, <2>2 DEF Missing, PInv, Owned
    <2> QED
      BY <2>1, <2>2
  <1> HIDE DEF p0
  <1>1. ProfilesFit'
    <2>1. ASSUME NEW p \in Personas, ~profile'[p].exists
          PROVE  ~profile'[p].personal /\ profile'[p].picture = 0
      BY <1>w, <2>1 DEF PInv, ProfilesFit, Pic
    <2>2. ASSUME NEW q \in Requests, InFlight(q)', req'[q].op \in PictureOps \cup {"updateProfile"}
          PROVE  profile'[req'[q].persona].exists
      <3>1. req'[q].persona = req[q].persona /\ req[q].persona \in Personas
            /\ profile[req[q].persona].exists
        BY <1>o, <1>q, <2>2 DEF SameOthers, PInv, ProfilesFit
      <3> QED
        BY <1>w, <3>1
    <2> QED
      BY <2>1, <2>2 DEF ProfilesFit, Pic
  <1>2. AllOvertaken'
    BY DEF PInv, AllOvertaken, SameOthers
  <1>3. Owned'
    <2>1. ASSUME NEW p \in Personas, NEW q \in Personas, Pic(p)' = Pic(q)', Pic(p)' # 0
          PROVE p = q
      BY <1>p, <1>n, <2>1 DEF PInv, Owned
    <2>2. ASSUME NEW q \in Requests, NEW p \in Personas, InFlight(q)'
          PROVE /\ Pic(p)' = req'[q].old /\ Pic(p)' # 0 => p = req'[q].persona
                /\ Pic(p)' \in req'[q].pictures => req'[q].at = "write" /\ p \in req'[q].found
      <3>1. /\ q # r /\ InFlight(q)
            /\ req'[q].old = req[q].old /\ req'[q].persona = req[q].persona
            /\ req'[q].pictures = req[q].pictures /\ req'[q].at = req[q].at
            /\ req'[q].found = req[q].found
        BY <1>o, <2>2 DEF SameOthers
      <3>2. Pic(p)' = Pic(p) \/ Pic(p)' = 0 \/ Pic(p)' = req[r].new
        BY <1>p
      <3>3. /\ Pic(p) = req[q].old /\ Pic(p) # 0 => p = req[q].persona
            /\ Pic(p) \in req[q].pictures => req[q].at = "write" /\ p \in req[q].found
            /\ 0 \notin req[q].pictures
        BY <1>q, <3>1 DEF PInv, Owned
      <3> QED
        BY <1>n, <3>1, <3>2, <3>3
    <2> QED
      BY <2>1, <2>2 DEF Owned
  <1>4. Fresh'
    <2> SUFFICES ASSUME NEW s \in Requests, InFlight(s)', req'[s].new # 0
                 PROVE  /\ req'[s].new \in stored'
                        /\ \A p \in Personas : Pic(p)' # req'[s].new
                        /\ \A q \in Requests : InFlight(q)' =>
                             /\ req'[q].old # req'[s].new /\ req'[s].new \notin req'[q].pictures
                             /\ req'[q].new = req'[s].new => q = s
      BY DEF Fresh
    <2>1. s # r /\ InFlight(s) /\ req'[s].new = req[s].new
      BY <1>o DEF SameOthers
    <2>2. /\ req[s].new \in stored
          /\ \A p \in Personas : Pic(p) # req[s].new
          /\ \A q \in Requests : InFlight(q) =>
               /\ req[q].old # req[s].new /\ req[s].new \notin req[q].pictures
               /\ req[q].new = req[s].new => q = s
      BY <2>1 DEF PInv, Fresh
    <2>3. \A p \in Personas : Pic(p)' # req'[s].new
      BY <1>p, <2>1, <2>2
    <2>4. \A q \in Requests : InFlight(q)' =>
            /\ req'[q].old # req'[s].new /\ req'[s].new \notin req'[q].pictures
            /\ req'[q].new = req'[s].new => q = s
      BY <1>o, <2>1, <2>2 DEF SameOthers
    <2> QED
      BY <2>1, <2>2, <2>3, <2>4
  <1>5. Numbered'
    <2>0. 0 <= uploads /\ req[r].new <= uploads
      BY BoundsAssumption DEF PInv, Numbered, Types, TablesType
    <2>1. \A p \in Personas : Pic(p)' <= uploads'
      BY <1>p, <2>0 DEF PInv, Numbered
    <2> QED
      BY <1>o, <2>1 DEF PInv, Numbered, SameOthers
  <1>6. PictureIsStored'
    <2> SUFFICES ASSUME NEW p \in Personas, Pic(p)' # 0
                 PROVE  Pic(p)' \in stored' \cup halted' \/ \E q \in Requests : Missing(q, p)'
      BY StoredMeansNext
    <2>1. CASE Pic(p)' = Pic(p) /\ ~Missing(r, p)
      <3>1. Pic(p) \in stored \cup halted \/ \E q \in Requests \ {r} : Missing(q, p)
        BY <2>1, StoredMeans DEF PInv
      <3>2. ASSUME NEW q \in Requests \ {r}, Missing(q, p) PROVE Missing(q, p)'
        BY <2>1, <3>2 DEF SameOthers, Missing
      <3> QED
        BY <2>1, <3>1, <3>2
    <2>2. CASE Pic(p)' = req[r].new
      BY <1>n, <2>2
    <2> QED
      BY <1>p, <1>m, <2>1, <2>2
  <1>7. DeactivatedIsAnonymous'
    <2>1. account = "DEACTIVATED" => p0 \in leftBehind' /\ leftBehind \subseteq leftBehind'
      BY DEF PInv, AllOvertaken, p0
    <2> SUFFICES ASSUME account' = "DEACTIVATED", NEW p \in Personas \ leftBehind'
                 PROVE  ~profile'[p].personal /\ profile'[p].picture = 0
      BY DEF DeactivatedIsAnonymous
    <2>2. p # p0 /\ p \notin leftBehind /\ account = "DEACTIVATED"
      BY <2>1
    <2> QED
      BY <1>w, <2>2 DEF PInv, DeactivatedIsAnonymous
  <1> QED
    BY <1>1, <1>2, <1>3, <1>4, <1>5, <1>6, <1>7 DEF PInv

LEMMA UploadKeeps ==
  ASSUME Types, PInv, NEW r \in Requests, Uploads(r) PROVE PInv'
  <1>0. /\ InFlight(r) /\ req[r].op = "upload" /\ req[r].at = "upload"
        /\ uploads' = uploads + 1 /\ stored' = stored \cup {uploads + 1}
        /\ UNCHANGED <<account, profile, leftBehind, halted>>
    BY DEF Uploads, At
  <1>1. req[r] \in RequestRow
    BY <1>0, InFlightRow DEF Types
  <1>2. /\ req'[r] = [req[r] EXCEPT !.new = uploads + 1, !.at = "delete"]
        /\ \A o \in Requests \ {r} : req'[o] = req[o]
    BY <1>0 DEF Uploads, Types, ReqType
  <1>3. SameOthers(r)
    BY <1>2, NoneElse, OthersAreSame DEF Types
  <1>4. /\ req'[r].op = "upload" /\ req'[r].at = "delete" /\ req'[r].new = uploads + 1
        /\ req'[r].old = req[r].old /\ req'[r].persona = req[r].persona
        /\ req'[r].pictures = req[r].pictures /\ req'[r].found = req[r].found
        /\ req'[r].overtaken = req[r].overtaken
    BY <1>0, <1>1, <1>2 DEF RequestRow
  <1>p. \A p \in Personas : Pic(p)' = Pic(p) /\ Pic(p) \in Nat
    BY <1>0, Profile, BoundsAssumption DEF Pic, Types
  <1>n. uploads \in Nat
    BY BoundsAssumption DEF Types, TablesType
  <1>q. \A q \in Requests : InFlight(q) =>
          req[q].old \in Nat /\ req[q].new \in Nat /\ req[q].pictures \subseteq Nat
    BY InFlightRow, BoundsAssumption DEF Types, RequestRow, Pictures
  <1>5. ProfilesFit'
    BY <1>0, <1>3, <1>4, <1>p DEF PInv, ProfilesFit, SameOthers
  <1>6. AllOvertaken'
    BY <1>0, <1>3, <1>4 DEF PInv, AllOvertaken, SameOthers
  <1>7. Owned'
    BY <1>0, <1>3, <1>4, <1>p DEF PInv, Owned, SameOthers
  <1>8. Fresh'
    <2> SUFFICES ASSUME NEW s \in Requests, InFlight(s)', req'[s].new # 0
                 PROVE  /\ req'[s].new \in stored'
                        /\ \A p \in Personas : Pic(p)' # req'[s].new
                        /\ \A q \in Requests : InFlight(q)' =>
                             /\ req'[q].old # req'[s].new /\ req'[s].new \notin req'[q].pictures
                             /\ req'[q].new = req'[s].new => q = s
      BY DEF Fresh
    <2>0. \A q \in Requests : InFlight(q)' => InFlight(q)
      BY <1>0, <1>3 DEF SameOthers
    <2>1. CASE s = r
      <3>1. \A p \in Personas : Pic(p)' # req'[s].new
        BY <1>4, <1>p, <1>n, <2>1 DEF PInv, Numbered
      <3>2. ASSUME NEW q \in Requests, InFlight(q)'
            PROVE /\ req'[q].old # req'[s].new /\ req'[s].new \notin req'[q].pictures
                  /\ req'[q].new = req'[s].new => q = s
        BY <1>3, <1>4, <1>n, <1>q, <2>0, <2>1, <3>2 DEF PInv, Numbered, SameOthers
      <3> QED
        BY <1>0, <1>4, <2>1, <3>1, <3>2
    <2>2. CASE s # r
      <3>1. InFlight(s) /\ req'[s].new = req[s].new /\ req[s].new # 0 /\ req[s].new # uploads + 1
        BY <1>3, <1>n, <1>q, <2>0, <2>2 DEF SameOthers, PInv, Numbered
      <3> QED
        BY <1>0, <1>3, <1>4, <1>p, <2>0, <2>2, <3>1 DEF PInv, Fresh, SameOthers
    <2> QED
      BY <2>1, <2>2
  <1>9. Numbered'
    <2>1. \A n \in Nat : n <= uploads => n <= uploads + 1
      BY <1>n
    <2>2. \A p \in Personas : Pic(p)' <= uploads'
      BY <1>0, <1>p, <2>1 DEF PInv, Numbered
    <2>3. ASSUME NEW q \in Requests, InFlight(q)'
          PROVE /\ req'[q].old <= uploads' /\ req'[q].new <= uploads'
                /\ \A n \in req'[q].pictures : n <= uploads'
      <3>1. InFlight(q)
        BY <1>0, <1>3, <2>3 DEF SameOthers
      <3>2. /\ req[q].old <= uploads' /\ req[q].new <= uploads'
            /\ \A n \in req[q].pictures : n <= uploads'
        BY <1>0, <1>q, <2>1, <3>1 DEF PInv, Numbered
      <3> QED
        BY <1>0, <1>3, <1>4, <1>n, <3>1, <3>2 DEF SameOthers
    <2> QED
      BY <2>2, <2>3 DEF Numbered
  <1>10. PictureIsStored'
    <2> SUFFICES ASSUME NEW p \in Personas, Pic(p)' # 0
                 PROVE  Pic(p)' \in stored' \cup halted' \/ \E q \in Requests : Missing(q, p)'
      BY StoredMeansNext
    <2>1. Pic(p) \in stored \cup halted \/ \E q \in Requests : Missing(q, p)
      BY <1>p, StoredMeans DEF PInv
    <2>2. ASSUME NEW q \in Requests, Missing(q, p) PROVE Missing(q, p)'
      BY <1>0, <1>3, <1>p, <2>2 DEF SameOthers, Missing
    <2> QED
      BY <1>0, <1>p, <2>1, <2>2
  <1>11. DeactivatedIsAnonymous'
    BY <1>0 DEF PInv, DeactivatedIsAnonymous
  <1> QED
    BY <1>5, <1>6, <1>7, <1>8, <1>9, <1>10, <1>11 DEF PInv

-----------------------------------------------------------------------------
(* The steps of the profile requests and the pictures *)

\* A request has read what it needs and begins.
LEMMA ReadKeeps ==
  ASSUME Types, PInv, NEW r \in Requests, NEW q \in RequestRow, Begins(r, q), MayBegin(q),
         UNCHANGED profileVars
  PROVE  PInv'
  <1>1. ~InFlight(r) /\ req'[r] = q /\ \A o \in Requests \ {r} : req'[o] = req[o]
    BY BeginsEffect DEF Types
  <1>2. InFlight(r)' /\ SameOthers(r)
    BY <1>1, RowInFlight, NoneElse, OthersAreSame DEF Types
  <1> QED
    BY <1>1, <1>2, BeginKeeps

\* A request ends and has written nothing about profiles or pictures.
LEMMA QuietEndKeeps ==
  ASSUME Types, PInv, NEW r \in Requests, OthersKept(r), ~InFlight(r)',
         InFlight(r), ~(req[r].op \in PictureOps /\ req[r].at = "write"), UNCHANGED profileVars
  PROVE  PInv'
  <1>1. UNCHANGED <<account, profile, uploads, stored, leftBehind, halted>>
    BY DEF profileVars
  <1>2. \A p \in Personas : ~Missing(r, p)
    BY DEF Missing, PictureOps
  <1>3. \A q \in Requests \ {r} : InFlight(q) /\ req[q].new # 0 => req[q].new \in stored
    BY DEF PInv, Fresh
  <1> QED
    BY <1>1, <1>2, <1>3, OthersAreSame, EndKeeps DEF Types

\* The old picture is deleted, or not: from here to the write it may be missing.
LEMMA DeletesKeeps ==
  ASSUME Types, PInv, NEW r \in Requests, DeletesOldPicture(r) PROVE PInv'
  <1>0. /\ InFlight(r) /\ req[r].op \in PictureOps /\ req[r].at = "delete"
        /\ stored' = stored \/ stored' = stored \ OldPicture(r)
        /\ UNCHANGED <<account, profile, uploads, leftBehind, halted>>
    BY DEF DeletesOldPicture, DeleteImages, PictureOps
  <1>1. /\ req'[r] = [req[r] EXCEPT !.at = "write"] /\ req'[r] \in RequestRow
        /\ \A o \in Requests \ {r} : req'[o] = req[o]
    BY <1>0, GoesToEffect DEF DeletesOldPicture, Types, Ats
  <1>2. SameOthers(r) /\ InFlight(r)'
    BY <1>1, NoneElse, OthersAreSame, RowInFlight DEF Types
  <1>3. req[r] \in RequestRow
    BY <1>0, InFlightRow DEF Types
  <1>4. /\ req'[r].op = req[r].op /\ req'[r].at = "write" /\ req'[r].persona = req[r].persona
        /\ req'[r].old = req[r].old /\ req'[r].new = req[r].new /\ req'[r].found = req[r].found
        /\ req'[r].pictures = req[r].pictures /\ req'[r].overtaken = req[r].overtaken
    BY <1>1, <1>3 DEF RequestRow
  <1>p. \A p \in Personas : Pic(p)' = Pic(p)
    BY <1>0 DEF Pic
  <1>q. \A q \in Requests : InFlight(q)' =>
          /\ InFlight(q)
          /\ req'[q].op = req[q].op /\ req'[q].persona = req[q].persona
          /\ req'[q].old = req[q].old /\ req'[q].new = req[q].new
          /\ req'[q].pictures = req[q].pictures /\ req'[q].found = req[q].found
          /\ q # r => req'[q].at = req[q].at
          /\ req[q].overtaken => req'[q].overtaken
    BY <1>0, <1>2, <1>4 DEF SameOthers
  <1>5. ProfilesFit'
    BY <1>0, <1>p, <1>q DEF PInv, ProfilesFit
  <1>6. AllOvertaken'
    BY <1>0, <1>q DEF PInv, AllOvertaken
  <1>7. Owned'
    <2>1. \A p, q \in Personas : Pic(p)' = Pic(q)' /\ Pic(p)' # 0 => p = q
      BY <1>p DEF PInv, Owned
    <2>2. ASSUME NEW q \in Requests, NEW p \in Personas, InFlight(q)'
          PROVE /\ Pic(p)' = req'[q].old /\ Pic(p)' # 0 => p = req'[q].persona
                /\ Pic(p)' \in req'[q].pictures => req'[q].at = "write" /\ p \in req'[q].found
      BY <1>0, <1>p, <1>q, <1>4, <2>2 DEF PInv, Owned
    <2> QED
      BY <2>1, <2>2 DEF Owned
  <1>8. Fresh'
    <2> SUFFICES ASSUME NEW s \in Requests, InFlight(s)', req'[s].new # 0
                 PROVE  /\ req'[s].new \in stored'
                        /\ \A p \in Personas : Pic(p)' # req'[s].new
                        /\ \A q \in Requests : InFlight(q)' =>
                             /\ req'[q].old # req'[s].new /\ req'[s].new \notin req'[q].pictures
                             /\ req'[q].new = req'[s].new => q = s
      BY DEF Fresh
    <2>1. InFlight(s) /\ req'[s].new = req[s].new /\ req[s].new \in stored
          /\ req[s].new # req[r].old
      BY <1>0, <1>q DEF PInv, Fresh
    <2>2. req'[s].new \in stored'
      BY <1>0, <2>1 DEF OldPicture
    <2> QED
      BY <1>p, <1>q, <2>1, <2>2 DEF PInv, Fresh
  <1>9. Numbered'
    BY <1>0, <1>p, <1>q DEF PInv, Numbered
  <1>10. PictureIsStored'
    <2> SUFFICES ASSUME NEW p \in Personas, Pic(p)' # 0
                 PROVE  Pic(p)' \in stored' \cup halted' \/ \E q \in Requests : Missing(q, p)'
      BY StoredMeansNext
    <2>1. CASE Pic(p) = req[r].old
      <3>1. Missing(r, p)'
        BY <1>0, <1>2, <1>4, <1>p, <2>1 DEF Missing, PictureOps
      <3> QED
        BY <3>1
    <2>2. CASE Pic(p) # req[r].old /\ Pic(p) \in stored \cup halted
      BY <1>0, <1>p, <2>2 DEF OldPicture
    <2>3. ASSUME NEW q \in Requests, Missing(q, p) PROVE Missing(q, p)'
      BY <1>0, <1>2, <1>p, <2>3 DEF SameOthers, Missing
    <2> QED
      BY <1>p, <2>1, <2>2, <2>3, StoredMeans DEF PInv
  <1>11. DeactivatedIsAnonymous'
    BY <1>0 DEF PInv, DeactivatedIsAnonymous
  <1> QED
    BY <1>5, <1>6, <1>7, <1>8, <1>9, <1>10, <1>11 DEF PInv

\* The transaction of the deactivation.
LEMMA CommitKeeps ==
  ASSUME Types, PInv, NEW r \in Requests, DeactivateCommits(r) PROVE PInv'
  <1>0. /\ InFlight(r) /\ req[r].op = "deactivate" /\ req[r].at = "write"
        /\ account' = "DEACTIVATED"
        /\ leftBehind' = leftBehind \cup {p \in Personas \ req[r].found : profile[p].exists}
        /\ UNCHANGED <<uploads, stored, halted>>
    BY DEF DeactivateCommits, At
  <1>1. \A p \in Personas : profile[p] \in ProfileRow
    BY Profile DEF Types
  <1>2. \A p \in Personas \ req[r].found : profile'[p] = profile[p]
    BY DEF DeactivateCommits
  <1>3. \A p \in Personas \cap req[r].found :
          /\ profile'[p].exists = profile[p].exists
          /\ ~profile'[p].personal /\ profile'[p].picture = 0
    <2>2. ASSUME NEW p \in Personas \cap req[r].found
          PROVE  profile'[p] = [profile[p] EXCEPT !.personal = FALSE, !.picture = 0]
      BY DEF DeactivateCommits, Anonymous
    <2>3. \A row \in ProfileRow :
            /\ [row EXCEPT !.personal = FALSE, !.picture = 0].exists = row.exists
            /\ [row EXCEPT !.personal = FALSE, !.picture = 0].personal = FALSE
            /\ [row EXCEPT !.personal = FALSE, !.picture = 0].picture = 0
      BY DEF ProfileRow
    <2> QED
      BY <1>1, <2>2, <2>3
  <1>4. req[r] \in RequestRow
    BY <1>0, InFlightRow DEF Types
  <1>5. req'[r] = [req[r] EXCEPT !.at = "delete"]
    BY DEF DeactivateCommits
  <1>6. req'[r] \in RequestRow
    BY <1>4, <1>5 DEF RequestRow
  <1>7. /\ req'[r].op = "deactivate" /\ req'[r].at = "delete"
        /\ req'[r].old = req[r].old /\ req'[r].new = req[r].new /\ req'[r].found = req[r].found
        /\ req'[r].pictures = req[r].pictures /\ req'[r].persona = req[r].persona
    BY <1>0, <1>4, <1>5 DEF RequestRow
  <1>8. OthersKept(r)
    BY DEF DeactivateCommits, OthersKept, Kept, InFlight
  <1>9. SameOthers(r) /\ InFlight(r)'
    BY <1>6, <1>8, OthersAreSame, RowInFlight DEF Types
  <1>10. \A q \in Requests \ {r} : InFlight(q) => req'[q].overtaken
    <2>1. ASSUME NEW q \in Requests \ {r}, InFlight(q)
          PROVE  req[q] \in RequestRow /\ req'[q] = [req[q] EXCEPT !.overtaken = TRUE]
      BY <2>1, InFlightRow DEF DeactivateCommits, Types
    <2> QED
      BY <2>1 DEF RequestRow
  <1>p. \A p \in Personas : Pic(p)' = Pic(p) \/ (Pic(p)' = 0 /\ p \in req[r].found)
    BY <1>2, <1>3 DEF Pic
  <1>f. \A p \in Personas \cap req[r].found : Pic(p)' = 0
    BY <1>3 DEF Pic
  <1>n. 0 <= uploads
    BY BoundsAssumption DEF Types, TablesType
  <1>z. \A q \in Requests : InFlight(q) => 0 \notin req[q].pictures
    BY InFlightRow, BoundsAssumption DEF Types, RequestRow, Pictures
  <1>q. \A q \in Requests : InFlight(q)' =>
          /\ InFlight(q)
          /\ req'[q].op = req[q].op /\ req'[q].persona = req[q].persona
          /\ req'[q].old = req[q].old /\ req'[q].new = req[q].new
          /\ req'[q].pictures = req[q].pictures /\ req'[q].found = req[q].found
          /\ q # r => req'[q].at = req[q].at
    BY <1>0, <1>7, <1>9 DEF SameOthers
  <1>11. ProfilesFit'
    <2>1. \A p \in Personas : profile'[p].exists = profile[p].exists
      BY <1>2, <1>3
    <2>2. \A p \in Personas : ~profile'[p].exists => ~profile'[p].personal /\ Pic(p)' = 0
      BY <1>2, <1>3, <1>p, <2>1 DEF PInv, ProfilesFit
    <2>3. \A q \in Requests : InFlight(q) => req[q].persona \in Personas
      BY InFlightRow DEF Types, RequestRow
    <2>4. ASSUME NEW q \in Requests, InFlight(q)', req'[q].op \in PictureOps \cup {"updateProfile"}
          PROVE  profile'[req'[q].persona].exists
      BY <1>q, <2>1, <2>3, <2>4 DEF PInv, ProfilesFit
    <2> QED
      BY <2>2, <2>4 DEF ProfilesFit
  <1>12. AllOvertaken'
    <2>1. req'[r].op \notin ProfileOps
      BY <1>7 DEF ProfileOps, PictureOps
    <2> QED
      BY <1>q, <1>10, <2>1 DEF AllOvertaken
  <1>13. Owned'
    <2>1. \A p, q \in Personas : Pic(p)' = Pic(q)' /\ Pic(p)' # 0 => p = q
      BY <1>p DEF PInv, Owned
    <2>2. ASSUME NEW q \in Requests, NEW p \in Personas, InFlight(q)'
          PROVE /\ Pic(p)' = req'[q].old /\ Pic(p)' # 0 => p = req'[q].persona
                /\ Pic(p)' \in req'[q].pictures => req'[q].at = "write" /\ p \in req'[q].found
      <3>1. /\ Pic(p) = req[q].old /\ Pic(p) # 0 => p = req[q].persona
            /\ Pic(p) \in req[q].pictures => req[q].at = "write" /\ p \in req[q].found
            /\ 0 \notin req[q].pictures
        BY <1>q, <1>z, <2>2 DEF PInv, Owned
      <3>2. /\ req'[q].old = req[q].old /\ req'[q].persona = req[q].persona
            /\ req'[q].pictures = req[q].pictures /\ req'[q].found = req[q].found
        BY <1>q, <2>2
      <3>3. Pic(p)' = req'[q].old /\ Pic(p)' # 0 => p = req'[q].persona
        BY <1>p, <3>1, <3>2
      <3>4. CASE q = r
        BY <1>p, <1>f, <3>1, <3>2, <3>3, <3>4
      <3>5. CASE q # r
        BY <1>p, <1>q, <2>2, <3>1, <3>2, <3>3, <3>5
      <3> QED
        BY <3>4, <3>5
    <2> QED
      BY <2>1, <2>2 DEF Owned
  <1>14. Fresh'
    <2> SUFFICES ASSUME NEW s \in Requests, InFlight(s)', req'[s].new # 0
                 PROVE  /\ req'[s].new \in stored'
                        /\ \A p \in Personas : Pic(p)' # req'[s].new
                        /\ \A q \in Requests : InFlight(q)' =>
                             /\ req'[q].old # req'[s].new /\ req'[s].new \notin req'[q].pictures
                             /\ req'[q].new = req'[s].new => q = s
      BY DEF Fresh
    <2>1. InFlight(s) /\ req'[s].new = req[s].new /\ req[s].new # 0
      BY <1>q
    <2>2. \A p \in Personas : Pic(p)' # req'[s].new
      BY <1>p, <2>1 DEF PInv, Fresh
    <2> QED
      BY <1>0, <1>q, <2>1, <2>2 DEF PInv, Fresh
  <1>15. Numbered'
    <2>1. \A p \in Personas : Pic(p)' <= uploads'
      BY <1>0, <1>p, <1>n DEF PInv, Numbered
    <2> QED
      BY <1>0, <1>q, <2>1 DEF PInv, Numbered
  <1>16. PictureIsStored'
    <2> SUFFICES ASSUME NEW p \in Personas, Pic(p)' # 0
                 PROVE  Pic(p)' \in stored' \cup halted' \/ \E q \in Requests : Missing(q, p)'
      BY StoredMeansNext
    <2>1. Pic(p)' = Pic(p)
      BY <1>p
    <2>2. ASSUME NEW q \in Requests, Missing(q, p) PROVE Missing(q, p)'
      <3>1. q # r
        BY <1>0, <2>2 DEF Missing
      <3> QED
        BY <1>9, <2>1, <2>2, <3>1 DEF SameOthers, Missing
    <2> QED
      BY <1>0, <2>1, <2>2, StoredMeans DEF PInv
  <1>17. DeactivatedIsAnonymous'
    <2> SUFFICES ASSUME NEW p \in Personas \ leftBehind'
                 PROVE  ~profile'[p].personal /\ profile'[p].picture = 0
      BY DEF DeactivatedIsAnonymous
    <2>1. CASE p \in req[r].found
      BY <1>3, <2>1
    <2>2. CASE p \notin req[r].found
      <3>1. ~profile[p].exists
        BY <1>0, <2>2
      <3> QED
        BY <1>2, <2>2, <3>1 DEF PInv, ProfilesFit, Pic
    <2> QED
      BY <2>1, <2>2
  <1> QED
    BY <1>11, <1>12, <1>13, <1>14, <1>15, <1>16, <1>17 DEF PInv

-----------------------------------------------------------------------------
(* Every step about profiles keeps what is true of them *)

LEMMA ProfileReadsKeep ==
  ASSUME Types, PInv, NEW r \in Requests,
         CreateProfileReads(r) \/ UpdateProfileReads(r) \/ UploadReads(r) \/ RemoveReads(r)
           \/ DeactivateReads(r)
  PROVE  PInv'
  <1>a. /\ "createProfile" \in Ops /\ "updateProfile" \in Ops /\ "upload" \in Ops
        /\ "remove" \in Ops /\ "deactivate" \in Ops
        /\ "write" \in Ats /\ "upload" \in Ats /\ "delete" \in Ats
    BY DEF Ops, Ats, ProfileOps, PictureOps
  <1>1. CASE CreateProfileReads(r)
    <2>1. PICK p \in Personas : Begins(r, [Request("createProfile", "write") EXCEPT !.persona = p])
      BY <1>1 DEF CreateProfileReads
    <2> DEFINE q == [Request("createProfile", "write") EXCEPT !.persona = p]
    <2>2. q \in RequestRow
      BY <1>a, NewRequest
    <2>3. /\ q.op = "createProfile" /\ q.new = 0 /\ q.old = 0 /\ q.pictures = {}
          /\ q.found = {} /\ q.persona = p
      BY DEF Request
    <2>4. MayBegin(q)
      BY <1>1, <2>3 DEF MayBegin, CreateProfileReads, ProfileRequest, Authenticated, PictureOps
    <2> HIDE DEF q
    <2> QED
      BY <1>1, <2>1, <2>2, <2>4, ReadKeeps DEF CreateProfileReads, q
  <1>2. CASE UpdateProfileReads(r)
    <2>1. PICK p \in Personas :
            /\ FindProfileForOwnership(p)
            /\ Begins(r, [Request("updateProfile", "write") EXCEPT !.persona = p])
      BY <1>2 DEF UpdateProfileReads
    <2> DEFINE q == [Request("updateProfile", "write") EXCEPT !.persona = p]
    <2>2. q \in RequestRow
      BY <1>a, NewRequest
    <2>3. /\ q.op = "updateProfile" /\ q.new = 0 /\ q.old = 0 /\ q.pictures = {}
          /\ q.found = {} /\ q.persona = p
      BY DEF Request
    <2>4. MayBegin(q)
      BY <2>1, <2>3 DEF MayBegin, FindProfileForOwnership, ProfileRequest, Authenticated
    <2> HIDE DEF q
    <2> QED
      BY <1>2, <2>1, <2>2, <2>4, ReadKeeps DEF UpdateProfileReads, q
  <1>3. CASE UploadReads(r)
    <2>1. PICK p \in Personas :
            /\ FindProfileForOwnership(p)
            /\ Begins(r, [Request("upload", "upload") EXCEPT
                            !.persona = p, !.old = profile[p].picture])
      BY <1>3 DEF UploadReads
    <2> DEFINE q == [Request("upload", "upload") EXCEPT !.persona = p, !.old = profile[p].picture]
    <2>2. q \in RequestRow
      BY <1>a, Profile, NewRequest DEF Types
    <2>3. /\ q.op = "upload" /\ q.new = 0 /\ q.old = Pic(p) /\ q.pictures = {}
          /\ q.found = {} /\ q.persona = p
      BY DEF Request, Pic
    <2>4. MayBegin(q)
      BY <2>1, <2>3 DEF MayBegin, FindProfileForOwnership, ProfileRequest, Authenticated
    <2> HIDE DEF q
    <2> QED
      BY <1>3, <2>1, <2>2, <2>4, ReadKeeps DEF UploadReads, q
  <1>4. CASE RemoveReads(r)
    <2>1. PICK p \in Personas :
            /\ FindProfileForOwnership(p)
            /\ Begins(r, [Request("remove", "delete") EXCEPT
                            !.persona = p, !.old = profile[p].picture])
      BY <1>4 DEF RemoveReads
    <2> DEFINE q == [Request("remove", "delete") EXCEPT !.persona = p, !.old = profile[p].picture]
    <2>2. q \in RequestRow
      BY <1>a, Profile, NewRequest DEF Types
    <2>3. /\ q.op = "remove" /\ q.new = 0 /\ q.old = Pic(p) /\ q.pictures = {}
          /\ q.found = {} /\ q.persona = p
      BY DEF Request, Pic
    <2>4. MayBegin(q)
      BY <2>1, <2>3 DEF MayBegin, FindProfileForOwnership, ProfileRequest, Authenticated
    <2> HIDE DEF q
    <2> QED
      BY <1>4, <2>1, <2>2, <2>4, ReadKeeps DEF RemoveReads, q
  <1>5. CASE DeactivateReads(r)
    <2> DEFINE found == {p \in Personas : profile[p].exists}
    <2> DEFINE q == [Request("deactivate", "write") EXCEPT
                       !.found = found, !.pictures = MediaPublicIds(found)]
    <2>1. Begins(r, q)
      BY <1>5 DEF DeactivateReads
    <2>2. found \in SUBSET Personas /\ MediaPublicIds(found) \in SUBSET Pictures
      BY Profile, BoundsAssumption DEF MediaPublicIds, Pictures, Types
    <2>3. \A n \in MediaPublicIds(found) : n # 0 /\ \E p \in found : Pic(p) = n
      BY DEF MediaPublicIds, Pic
    <2> HIDE DEF found
    <2>4. q \in RequestRow
      BY <1>a, <2>2, NewRequest
    <2>5. /\ q.op = "deactivate" /\ q.at = "write" /\ q.new = 0 /\ q.old = 0
          /\ q.pictures = MediaPublicIds(found) /\ q.found = found /\ q.persona = "developer"
      BY DEF Request
    <2>6. MayBegin(q)
      BY <2>2, <2>3, <2>5 DEF MayBegin, ProfileOps, PictureOps, Personas
    <2> HIDE DEF q
    <2> QED
      BY <1>5, <2>1, <2>4, <2>6, ReadKeeps DEF DeactivateReads
  <1> QED
    BY <1>1, <1>2, <1>3, <1>4, <1>5

LEMMA EndsKeepOthers ==
  ASSUME ReqType, NEW r \in Requests, Ends(r) PROVE OthersKept(r) /\ ~InFlight(r)'
  BY EndsEffect, NoneElse DEF InFlight

LEMMA ProfileStepKeeps ==
  ASSUME Types, PInv, NEW r \in Requests, ProfileStep(r) PROVE PInv'
  <1>o. \A q \in Requests \ {r} : InFlight(q) /\ req[q].new # 0 => req[q].new \in stored
    BY DEF PInv, Fresh
  <1>1. CASE CreateProfileReads(r) \/ UpdateProfileReads(r) \/ UploadReads(r) \/ RemoveReads(r)
             \/ DeactivateReads(r)
    BY <1>1, ProfileReadsKeep
  <1>2. CASE CreateProfileWrites(r)
    <2>1. /\ InFlight(r) /\ req[r].op = "createProfile"
          /\ UNCHANGED <<account, uploads, stored, halted>>
      BY <1>2 DEF CreateProfileWrites, At
    <2>2. CASE Ends(r) /\ UNCHANGED <<profile, leftBehind>>
      BY <2>1, <2>2, EndsKeepOthers, QuietEndKeeps DEF Types, profileVars, PictureOps
    <2>3. CASE WritesProfile(r, [exists |-> TRUE, personal |-> TRUE, picture |-> 0])
      <3> DEFINE row == [exists |-> TRUE, personal |-> TRUE, picture |-> 0]
      <3>1. row \in ProfileRow /\ row.exists /\ row.picture = 0
        BY BoundsAssumption DEF ProfileRow
      <3> HIDE DEF row
      <3>2. WritesProfile(r, row)
        BY <2>3 DEF row
      <3>3. /\ req[r].persona \in Personas /\ profile'[req[r].persona] = row
            /\ \A p \in Personas \ {req[r].persona} : profile'[p] = profile[p]
            /\ leftBehind' = IF account = "DEACTIVATED" /\ req[r].overtaken
                             THEN leftBehind \cup {req[r].persona} ELSE leftBehind
            /\ Ends(r)
        BY <2>1, <3>1, <3>2, WritesProfileEffect DEF Types
      <3>4. SameOthers(r) /\ ~InFlight(r)'
        BY <3>3, EndsKeepOthers, OthersAreSame DEF Types
      <3>5. req[r].op \in ProfileOps
        BY <2>1 DEF ProfileOps
      <3> QED
        BY <2>1, <3>1, <3>3, <3>4, <3>5, WriteKeeps
    <2> QED
      BY <1>2, <2>2, <2>3 DEF CreateProfileWrites
  <1>3. CASE UpdateProfileWrites(r)
    <2> DEFINE row == [profile[req[r].persona] EXCEPT !.personal = TRUE]
    <2>1. /\ InFlight(r) /\ req[r].op = "updateProfile" /\ WritesProfile(r, row)
          /\ UNCHANGED <<account, uploads, stored, halted>>
      BY <1>3 DEF UpdateProfileWrites, At
    <2>2. req[r].persona \in Personas /\ profile[req[r].persona] \in ProfileRow
      BY <2>1, InFlightRow, Profile DEF RequestRow, Types
    <2>3. /\ row \in ProfileRow /\ row.exists = profile[req[r].persona].exists
          /\ row.picture = profile[req[r].persona].picture
      BY <2>2 DEF ProfileRow
    <2>4. profile[req[r].persona].exists
      BY <2>1 DEF PInv, ProfilesFit
    <2> HIDE DEF row
    <2>5. /\ profile'[req[r].persona] = row
          /\ \A p \in Personas \ {req[r].persona} : profile'[p] = profile[p]
          /\ leftBehind' = IF account = "DEACTIVATED" /\ req[r].overtaken
                           THEN leftBehind \cup {req[r].persona} ELSE leftBehind
          /\ Ends(r)
      BY <2>1, <2>3, WritesProfileEffect DEF Types
    <2>6. SameOthers(r) /\ ~InFlight(r)'
      BY <2>5, EndsKeepOthers, OthersAreSame DEF Types
    <2>7. req[r].op \in ProfileOps /\ req[r].op \notin PictureOps
      BY <2>1 DEF ProfileOps, PictureOps
    <2> QED
      BY <2>1, <2>2, <2>3, <2>4, <2>5, <2>6, <2>7, WriteKeeps
  <1>4. CASE Uploads(r)
    BY <1>4, UploadKeeps
  <1>5. CASE UploadRefused(r)
    BY <1>5, EndsKeepOthers, QuietEndKeeps DEF UploadRefused, At, Types, PictureOps
  <1>6. CASE DeletesOldPicture(r)
    BY <1>6, DeletesKeeps
  <1>7. CASE WritesPicture(r)
    <2> DEFINE row == [profile[req[r].persona] EXCEPT !.picture = req[r].new]
    <2>1. /\ InFlight(r) /\ req[r].op \in PictureOps /\ WritesProfile(r, row)
          /\ UNCHANGED <<account, uploads, stored, halted>>
      BY <1>7 DEF WritesPicture, PictureOps
    <2>2. /\ req[r].persona \in Personas /\ profile[req[r].persona] \in ProfileRow
          /\ req[r].new \in 0..MaxPictures
      BY <2>1, InFlightRow, Profile DEF RequestRow, Types
    <2>3. /\ row \in ProfileRow /\ row.exists = profile[req[r].persona].exists
          /\ row.picture = req[r].new
      BY <2>2 DEF ProfileRow
    <2>4. profile[req[r].persona].exists
      BY <2>1 DEF PInv, ProfilesFit
    <2> HIDE DEF row
    <2>5. /\ profile'[req[r].persona] = row
          /\ \A p \in Personas \ {req[r].persona} : profile'[p] = profile[p]
          /\ leftBehind' = IF account = "DEACTIVATED" /\ req[r].overtaken
                           THEN leftBehind \cup {req[r].persona} ELSE leftBehind
          /\ Ends(r)
      BY <2>1, <2>3, WritesProfileEffect DEF Types
    <2>6. SameOthers(r) /\ ~InFlight(r)'
      BY <2>5, EndsKeepOthers, OthersAreSame DEF Types
    <2>7. req[r].op \in ProfileOps
      BY <2>1 DEF ProfileOps
    <2> QED
      BY <2>1, <2>2, <2>3, <2>4, <2>5, <2>6, <2>7, WriteKeeps
  <1>8. CASE DeactivateCommits(r)
    BY <1>8, CommitKeeps
  <1>9. CASE DeactivateDeletes(r)
    <2>1. /\ InFlight(r) /\ req[r].op = "deactivate" /\ req[r].at = "delete" /\ Ends(r)
          /\ stored' = stored \/ stored' = stored \ req[r].pictures
          /\ UNCHANGED <<account, profile, uploads, leftBehind, halted>>
      BY <1>9 DEF DeactivateDeletes, DeleteImages, At
    <2>2. \A p \in Personas : Pic(p) \in stored /\ Pic(p) # 0 => Pic(p) \in stored'
      BY <2>1 DEF PInv, Owned
    <2>3. \A q \in Requests \ {r} : InFlight(q) /\ req[q].new # 0 => req[q].new \in stored'
      BY <1>o, <2>1 DEF PInv, Fresh
    <2>4. \A p \in Personas : ~Missing(r, p)
      BY <2>1 DEF Missing
    <2>5. SameOthers(r) /\ ~InFlight(r)'
      BY <2>1, EndsKeepOthers, OthersAreSame DEF Types
    <2> QED
      BY <2>1, <2>2, <2>3, <2>4, <2>5, EndKeeps
  <1> QED
    BY <1>1, <1>2, <1>3, <1>4, <1>5, <1>6, <1>7, <1>8, <1>9 DEF ProfileStep

LEMMA DiesKeeps ==
  ASSUME Types, PInv, NEW r \in Requests, Dies(r) PROVE PInv'
  <1>1. /\ Ends(r) /\ UNCHANGED <<account, profile, uploads, stored, leftBehind>>
        /\ halted \subseteq halted'
    BY DEF Dies
  <1>2. \A p \in Personas : Missing(r, p) /\ Pic(p) # 0 => Pic(p) \in halted'
    BY DEF Missing, Dies, OldPicture
  <1>3. \A q \in Requests \ {r} : InFlight(q) /\ req[q].new # 0 => req[q].new \in stored
    BY DEF PInv, Fresh
  <1>4. SameOthers(r) /\ ~InFlight(r)'
    BY <1>1, EndsKeepOthers, OthersAreSame DEF Types
  <1> QED
    BY <1>1, <1>2, <1>3, <1>4, EndKeeps

-----------------------------------------------------------------------------
(* Reviews: who edits one has seen that it was not approved, and who approves one has
   read its text, unless a later write overtook the request. *)

ReviewFits(r) ==
  InFlight(r) /\ req[r].op \in ReviewOps =>
    /\ req[r].review \in Reviews
    /\ review[req[r].review].status # "NONE"
    /\ req[r].op = "edit" /\ ~req[r].overtaken => review[req[r].review].status # "APPROVED"
    /\ req[r].op = "approve" /\ ~req[r].overtaken /\ RowIsThere(req[r].review) =>
         req[r].text = review[req[r].review].text

ApprovedFits(v) == v \notin blurred /\ review[v].status = "APPROVED" =>
                     review[v].text = review[v].approvedText

RInv == (\A r \in Requests : ReviewFits(r)) /\ (\A v \in Reviews : ApprovedFits(v))

LEMMA RInvMeans == RInv => Named /\ PublicTextIsSettled
  <1> SUFFICES ASSUME RInv PROVE Named /\ PublicTextIsSettled
    OBVIOUS
  <1>1. Named
    BY DEF RInv, Named, ReviewFits
  <1>2. ASSUME NEW v \in Reviews \ blurred,
               v \in GetPlatformReviews("visitor") \/ GetPlatformReview(v, "visitor")
        PROVE  review[v].text = review[v].approvedText
    <2>1. review[v].status = "APPROVED"
      BY <1>2 DEF GetPlatformReviews, GetPlatformReview
    <2> QED
      BY <2>1 DEF RInv, ApprovedFits
  <1> QED
    BY <1>1, <1>2 DEF PublicTextIsSettled

\* The requests other than r, as far as reviews are concerned.
SameReviewers(r) ==
  \A q \in Requests \ {r} :
    /\ InFlight(q)' <=> InFlight(q)
    /\ InFlight(q) =>
         /\ req'[q].op = req[q].op /\ req'[q].review = req[q].review
         /\ req'[q].text = req[q].text
         /\ req[q].overtaken => req'[q].overtaken

LEMMA ReviewersAreSame ==
  ASSUME ReqType, NEW r \in Requests, OthersKept(r) PROVE SameReviewers(r)
  BY KeptFields DEF OthersKept, SameReviewers

\* Nothing about reviews changes, but for the cooldown.
LEMMA ReviewsStay ==
  ASSUME RInv, NEW r \in Requests, SameReviewers(r), ReviewFits(r)', UNCHANGED reviewVars
  PROVE  RInv'
  <1>1. ASSUME NEW q \in Requests \ {r} PROVE ReviewFits(q)'
    BY DEF RInv, ReviewFits, SameReviewers, reviewVars, RowIsThere
  <1>2. ASSUME NEW v \in Reviews PROVE ApprovedFits(v)'
    BY DEF RInv, ApprovedFits, reviewVars
  <1> QED
    BY <1>1, <1>2 DEF RInv

\* Request r writes review v and ends.
LEMMA ReviewIsWritten ==
  ASSUME RInv, NEW r \in Requests, SameReviewers(r), ~InFlight(r)', NEW v \in Reviews,
         \A w \in Reviews \ {v} : review'[w] = review[w],
         \A w \in Reviews \ {v} : w \in blurred => w \in blurred',
         review[v].status # "NONE" =>
           /\ review'[v].status # "NONE"
           /\ \A q \in Requests \ {r} :
                InFlight(q) /\ req[q].review = v /\ req[q].op = "edit" =>
                  \/ req'[q].overtaken
                  \/ review'[v].status = "APPROVED" => review[v].status = "APPROVED"
           /\ \A q \in Requests \ {r} :
                InFlight(q) /\ req[q].review = v /\ req[q].op = "approve" =>
                  \/ req'[q].overtaken
                  \/ RowIsThere(v)' => RowIsThere(v) /\ review'[v].text = review[v].text,
         ApprovedFits(v)'
  PROVE  RInv'
  <1>1. ASSUME NEW q \in Requests PROVE ReviewFits(q)'
    <2> SUFFICES ASSUME InFlight(q)', req'[q].op \in ReviewOps
                 PROVE  /\ req'[q].review \in Reviews
                        /\ review'[req'[q].review].status # "NONE"
                        /\ req'[q].op = "edit" /\ ~req'[q].overtaken =>
                             review'[req'[q].review].status # "APPROVED"
                        /\ req'[q].op = "approve" /\ ~req'[q].overtaken
                             /\ RowIsThere(req[q].review)' =>
                             req'[q].text = review'[req'[q].review].text
      BY DEF ReviewFits
    <2>1. /\ q # r /\ InFlight(q) /\ req'[q].op = req[q].op
          /\ req'[q].review = req[q].review /\ req'[q].text = req[q].text
          /\ req[q].overtaken => req'[q].overtaken
      BY DEF SameReviewers
    <2>2. /\ req[q].review \in Reviews /\ review[req[q].review].status # "NONE"
          /\ req[q].op = "edit" /\ ~req[q].overtaken => review[req[q].review].status # "APPROVED"
          /\ req[q].op = "approve" /\ ~req[q].overtaken /\ RowIsThere(req[q].review) =>
               req[q].text = review[req[q].review].text
      BY <2>1 DEF RInv, ReviewFits
    <2>3. CASE req[q].review = v
      BY <2>1, <2>2, <2>3 DEF RowIsThere
    <2>4. CASE req[q].review # v
      BY <2>1, <2>2, <2>4 DEF RowIsThere
    <2> QED
      BY <2>3, <2>4
  <1>2. ASSUME NEW w \in Reviews \ {v} PROVE ApprovedFits(w)'
    BY DEF RInv, ApprovedFits
  <1> QED
    BY <1>1, <1>2 DEF RInv

-----------------------------------------------------------------------------
(* Every step about reviews keeps what is true of them, and of the profiles *)

\* A request about reviews begins, with what it has read.
LEMMA ReviewReadKeeps ==
  ASSUME Types, PInv, RInv, NEW r \in Requests, NEW q \in RequestRow, Begins(r, q),
         q.op \in ReviewOps \cup {"createReview"},
         q.op \in ReviewOps =>
           /\ q.review \in Reviews /\ RowIsThere(q.review)
           /\ q.op = "edit" => review[q.review].status # "APPROVED"
           /\ q.op = "approve" => q.text = review[q.review].text,
         q.new = 0 /\ q.old = 0 /\ q.pictures = {} /\ q.found = {} /\ q.persona = "developer",
         UNCHANGED <<profileVars, reviewVars>>
  PROVE  PInv' /\ RInv'
  <1>1. MayBegin(q)
    BY DEF MayBegin, ProfileOps, PictureOps, ReviewOps, Personas
  <1>2. PInv'
    BY <1>1, ReadKeeps
  <1>3. ~InFlight(r) /\ req'[r] = q /\ \A o \in Requests \ {r} : req'[o] = req[o]
    BY BeginsEffect DEF Types
  <1>4. SameReviewers(r)
    BY <1>3, NoneElse, ReviewersAreSame DEF Types
  <1>5. ReviewFits(r)'
    BY <1>3 DEF ReviewFits, RowIsThere, reviewVars
  <1> QED
    BY <1>2, <1>4, <1>5, ReviewsStay

\* A request about reviews ends.
LEMMA ReviewEndKeepsProfiles ==
  ASSUME Types, PInv, NEW r \in Requests, OthersKept(r), ~InFlight(r)', InFlight(r),
         req[r].op \in ReviewOps \cup {"createReview"}, UNCHANGED profileVars
  PROVE  PInv'
  BY QuietEndKeeps DEF ReviewOps, PictureOps

LEMMA QuietReviewEnd ==
  ASSUME Types, RInv, NEW r \in Requests, Ends(r), UNCHANGED reviewVars
  PROVE  RInv'
  <1>1. SameReviewers(r) /\ ~InFlight(r)'
    BY EndsKeepOthers, ReviewersAreSame DEF Types
  <1> QED
    BY <1>1, ReviewsStay DEF ReviewFits

LEMMA OvertakesOthers ==
  ASSUME ReqType, NEW r \in Requests, NEW v, NEW ops, EndsAndOvertakes(r, Others(r, v, ops))
  PROVE  /\ OthersKept(r) /\ ~InFlight(r)' /\ SameReviewers(r)
         /\ \A q \in Requests \ {r} :
              InFlight(q) /\ req[q].op \in ops /\ req[q].review = v => req'[q].overtaken
  <1>1. /\ req'[r] = Idle
        /\ \A o \in Requests \ {r} :
             /\ Kept(o)
             /\ o \in Others(r, v, ops) => req'[o] = [req[o] EXCEPT !.overtaken = TRUE]
    BY OthersInFlight, EndsAndOvertakesEffect
  <1>2. OthersKept(r) /\ ~InFlight(r)'
    BY <1>1 DEF OthersKept, InFlight
  <1>3. ASSUME NEW q \in Requests \ {r}, InFlight(q), req[q].op \in ops, req[q].review = v
        PROVE  req'[q].overtaken
    <2>1. req[q] \in RequestRow /\ req'[q] = [req[q] EXCEPT !.overtaken = TRUE]
      BY <1>1, <1>3, InFlightRow DEF Others
    <2> QED
      BY <2>1 DEF RequestRow
  <1> QED
    BY <1>2, <1>3, ReviewersAreSame

LEMMA EditWritesKeeps ==
  ASSUME Types, PInv, RInv, NEW r \in Requests, EditWrites(r) PROVE PInv' /\ RInv'
  <1>0. req[r].review \in Reviews
    BY DEF EditWrites, At, RInv, ReviewFits, ReviewOps
  <1>r. PICK v \in Reviews : v = req[r].review
    BY <1>0
  <1>1. /\ InFlight(r) /\ req[r].op = "edit" /\ req[r].op \in ReviewOps
        /\ ~req[r].overtaken => review[v].status # "APPROVED"
        /\ UNCHANGED profileVars
    BY <1>r DEF EditWrites, At, RInv, ReviewFits, ReviewOps
  <1>2. CASE RowIsThere(v)
    <2>1. /\ review' = [review EXCEPT ![v].text = edits']
          /\ blurred' = IF req[r].overtaken THEN blurred \cup {v} ELSE blurred
          /\ EndsAndOvertakes(r, Others(r, v, {"approve"}))
      BY <1>r, <1>2 DEF EditWrites
    <2>2. /\ \A w \in Reviews \ {v} : review'[w] = review[w]
          /\ review'[v].status = review[v].status
      <3>1. review[v] \in ReviewRow
        BY DEF Types, TablesType
      <3>2. review'[v] = [review[v] EXCEPT !.text = edits']
        BY <2>1 DEF Types, TablesType
      <3> QED
        BY <2>1, <3>1, <3>2 DEF Types, TablesType, ReviewRow
    <2>3. /\ OthersKept(r) /\ ~InFlight(r)' /\ SameReviewers(r)
          /\ \A q \in Requests \ {r} :
               InFlight(q) /\ req[q].op = "approve" /\ req[q].review = v => req'[q].overtaken
      BY <1>r, <2>1, OvertakesOthers DEF Types
    <2>4. /\ ApprovedFits(v)'
          /\ \A w \in Reviews \ {v} : w \in blurred => w \in blurred'
      BY <1>1, <1>r, <2>1, <2>2 DEF ApprovedFits
    <2>5. PInv'
      BY <1>1, <2>3, ReviewEndKeepsProfiles
    <2> QED
      BY <2>2, <2>3, <2>4, <2>5, ReviewIsWritten
  <1>3. CASE ~RowIsThere(v)
    <2>1. Ends(r) /\ UNCHANGED reviewVars
      BY <1>r, <1>3 DEF EditWrites, reviewVars
    <2> QED
      BY <1>1, <2>1, EndsKeepOthers, ReviewEndKeepsProfiles, QuietReviewEnd DEF Types
  <1> QED
    BY <1>2, <1>3

LEMMA ApproveWritesKeeps ==
  ASSUME Types, PInv, RInv, NEW r \in Requests, ApproveWrites(r) PROVE PInv' /\ RInv'
  <1>0. req[r].review \in Reviews
    BY DEF ApproveWrites, At, RInv, ReviewFits, ReviewOps
  <1>r. PICK v \in Reviews : v = req[r].review
    BY <1>0
  <1>1. /\ InFlight(r) /\ req[r].op = "approve" /\ req[r].op \in ReviewOps
        /\ UNCHANGED <<profileVars, edits>>
    BY DEF ApproveWrites, At, ReviewOps
  <1>v. ~req[r].overtaken /\ RowIsThere(v) => req[r].text = review[v].text
    BY <1>1, <1>r DEF RInv, ReviewFits
  <1>2. CASE RowIsThere(v)
    <2>1. /\ review' = [review EXCEPT ![v].status = "APPROVED", ![v].approvedText = req[r].text]
          /\ blurred' = IF req[r].overtaken THEN blurred \cup {v} ELSE blurred \ {v}
          /\ EndsAndOvertakes(r, Others(r, v, {"edit"}))
      BY <1>r, <1>2 DEF ApproveWrites
    <2>2. /\ \A w \in Reviews \ {v} : review'[w] = review[w]
          /\ review'[v].status = "APPROVED" /\ review'[v].text = review[v].text
          /\ review'[v].approvedText = req[r].text
      <3>1. review[v] \in ReviewRow
        BY DEF Types, TablesType
      <3>2. review'[v] = [review[v] EXCEPT !.status = "APPROVED", !.approvedText = req[r].text]
        BY <2>1 DEF Types, TablesType
      <3>3. \A w \in Reviews \ {v} : review'[w] = review[w]
        BY <2>1 DEF Types, TablesType
      <3> QED
        BY <3>1, <3>2, <3>3 DEF ReviewRow
    <2>3. /\ OthersKept(r) /\ ~InFlight(r)' /\ SameReviewers(r)
          /\ \A q \in Requests \ {r} :
               InFlight(q) /\ req[q].op = "edit" /\ req[q].review = v => req'[q].overtaken
      BY <2>1, OvertakesOthers DEF Types
    <2>4. /\ ApprovedFits(v)'
          /\ \A w \in Reviews \ {v} : w \in blurred => w \in blurred'
      BY <1>2, <1>v, <1>r, <2>1, <2>2 DEF ApprovedFits
    <2>5. PInv'
      BY <1>1, <2>3, ReviewEndKeepsProfiles
    <2> QED
      BY <1>2, <2>2, <2>3, <2>4, <2>5, ReviewIsWritten
  <1>3. CASE ~RowIsThere(v)
    <2>1. Ends(r) /\ UNCHANGED reviewVars
      BY <1>r, <1>1, <1>3 DEF ApproveWrites, reviewVars
    <2> QED
      BY <1>1, <2>1, EndsKeepOthers, ReviewEndKeepsProfiles, QuietReviewEnd DEF Types
  <1> QED
    BY <1>2, <1>3

LEMMA ModerateWritesKeeps ==
  ASSUME Types, PInv, RInv, NEW r \in Requests, ModerateWrites(r) PROVE PInv' /\ RInv'
  <1>0. req[r].review \in Reviews
    BY DEF ModerateWrites, At, RInv, ReviewFits, ReviewOps
  <1>r. PICK v \in Reviews : v = req[r].review
    BY <1>0
  <1>1. /\ InFlight(r) /\ req[r].op = "moderate" /\ req[r].op \in ReviewOps
        /\ UNCHANGED <<profileVars, blurred>>
    BY DEF ModerateWrites, At, ReviewOps
  <1>2. CASE RowIsThere(v)
    <2>1. /\ \/ \E status \in {"PENDING", "APPROVED"} :
                  review' = [review EXCEPT ![v].status = status,
                                           ![v].text = edits', ![v].approvedText = edits']
             \/ review' = [review EXCEPT ![v].status = "PENDING"]
          /\ EndsAndOvertakes(r, Others(r, v, {"edit", "approve"}))
      BY <1>r, <1>2 DEF ModerateWrites
    <2>0. review[v] \in ReviewRow
      BY DEF Types, TablesType
    <2>2. /\ \A w \in Reviews \ {v} : review'[w] = review[w]
          /\ \/ \E status \in {"PENDING", "APPROVED"} :
                  review'[v] = [review[v] EXCEPT !.status = status,
                                                 !.text = edits', !.approvedText = edits']
             \/ review'[v] = [review[v] EXCEPT !.status = "PENDING"]
      BY <2>1 DEF Types, TablesType
    <2>3. /\ OthersKept(r) /\ ~InFlight(r)' /\ SameReviewers(r)
          /\ \A q \in Requests \ {r} :
               InFlight(q) /\ req[q].op \in {"edit", "approve"} /\ req[q].review = v
                 => req'[q].overtaken
      BY <2>1, OvertakesOthers DEF Types
    <2>4. PInv'
      BY <1>1, <2>3, ReviewEndKeepsProfiles
    <2>5. /\ review'[v].status \in {"PENDING", "APPROVED"}
          /\ review'[v].status = "APPROVED" => review'[v].text = review'[v].approvedText
      BY <2>0, <2>2 DEF ReviewRow
    <2>6. ApprovedFits(v)'
      BY <2>5 DEF ApprovedFits
    <2> QED
      BY <1>1, <1>r, <2>2, <2>3, <2>4, <2>5, <2>6, ReviewIsWritten
  <1>3. CASE ~RowIsThere(v)
    <2>1. Ends(r) /\ UNCHANGED reviewVars
      BY <1>r, <1>1, <1>3 DEF ModerateWrites, reviewVars
    <2> QED
      BY <1>1, <2>1, EndsKeepOthers, ReviewEndKeepsProfiles, QuietReviewEnd DEF Types
  <1> QED
    BY <1>2, <1>3

LEMMA DeleteReviewWritesKeeps ==
  ASSUME Types, PInv, RInv, NEW r \in Requests, DeleteReviewWrites(r) PROVE PInv' /\ RInv'
  <1>0. req[r].review \in Reviews
    BY DEF DeleteReviewWrites, At, RInv, ReviewFits, ReviewOps
  <1>r. PICK v \in Reviews : v = req[r].review
    BY <1>0
  <1>1. /\ InFlight(r) /\ req[r].op = "deleteReview" /\ req[r].op \in ReviewOps
        /\ Ends(r) /\ UNCHANGED <<profileVars, edits, blurred>>
        /\ review' = IF RowIsThere(v) THEN [review EXCEPT ![v] = [NoReview EXCEPT !.status = "GONE"]]
                     ELSE review
    BY <1>r DEF DeleteReviewWrites, At, ReviewOps
  <1>2. PInv'
    BY <1>1, EndsKeepOthers, ReviewEndKeepsProfiles DEF Types
  <1>3. CASE RowIsThere(v)
    <2>1. /\ \A w \in Reviews \ {v} : review'[w] = review[w]
          /\ review'[v] = [NoReview EXCEPT !.status = "GONE"]
      BY <1>1, <1>3 DEF Types, TablesType
    <2>2. SameReviewers(r) /\ ~InFlight(r)'
      BY <1>1, EndsKeepOthers, ReviewersAreSame DEF Types
    <2>3. review'[v].status = "GONE"
      BY <2>1 DEF NoReview
    <2>4. ApprovedFits(v)' /\ ~RowIsThere(v)'
      BY <2>3 DEF ApprovedFits, RowIsThere
    <2> QED
      BY <1>1, <1>2, <1>r, <2>1, <2>2, <2>3, <2>4, ReviewIsWritten
  <1>4. CASE ~RowIsThere(v)
    BY <1>1, <1>2, <1>4, QuietReviewEnd DEF reviewVars
  <1> QED
    BY <1>3, <1>4

LEMMA CreateReviewWritesKeeps ==
  ASSUME Types, PInv, RInv, NEW r \in Requests, CreateReviewWrites(r) PROVE PInv' /\ RInv'
  <1>1. /\ InFlight(r) /\ req[r].op = "createReview" /\ Ends(r)
        /\ UNCHANGED <<profileVars, blurred>>
    BY DEF CreateReviewWrites, At
  <1>2. PInv'
    BY <1>1, EndsKeepOthers, ReviewEndKeepsProfiles DEF Types
  <1>3. PICK v \in NextReview :
          review' = [review EXCEPT ![v] =
                       [status |-> "PENDING", text |-> edits', recent |-> TRUE, approvedText |-> 0]]
    BY DEF CreateReviewWrites
  <1>4. v \in Reviews /\ review[v].status = "NONE"
    BY DEF NextReview
  <1>5. /\ \A w \in Reviews \ {v} : review'[w] = review[w]
        /\ review'[v].status = "PENDING"
    BY <1>3, <1>4 DEF Types, TablesType
  <1>6. SameReviewers(r) /\ ~InFlight(r)'
    BY <1>1, EndsKeepOthers, ReviewersAreSame DEF Types
  <1>7. ApprovedFits(v)'
    BY <1>5 DEF ApprovedFits
  <1> QED
    BY <1>1, <1>2, <1>4, <1>5, <1>6, <1>7, ReviewIsWritten

LEMMA ReviewStepKeeps ==
  ASSUME Types, PInv, RInv, NEW r \in Requests, ReviewStep(r) PROVE PInv' /\ RInv'
  <1>a. /\ "createReview" \in Ops /\ ReviewOps \subseteq Ops /\ "write" \in Ats
        /\ ReviewOps = {"edit", "approve", "moderate", "deleteReview"}
    BY DEF Ops, Ats, ReviewOps
  <1>b. Reviews \subseteq 0..MaxReviews
    BY BoundsAssumption DEF Reviews
  <1>1. CASE CreateReviewReads(r)
    <2> DEFINE q == Request("createReview", "write")
    <2>1. q \in RequestRow /\ Begins(r, q)
      BY <1>a, <1>1, NewRequest DEF CreateReviewReads
    <2>2. /\ q.op = "createReview" /\ q.new = 0 /\ q.old = 0 /\ q.pictures = {}
          /\ q.found = {} /\ q.persona = "developer"
      BY DEF Request
    <2>3. UNCHANGED <<profileVars, reviewVars>>
      BY <1>1 DEF CreateReviewReads
    <2> HIDE DEF q
    <2> QED
      BY <1>a, <2>1, <2>2, <2>3, ReviewReadKeeps
  <1>2. CASE CreateReviewWrites(r)
    BY <1>2, CreateReviewWritesKeeps
  <1>3. CASE EditReads(r)
    <2>1. PICK v \in Reviews :
            OwnerMayEdit(v) /\ Begins(r, [Request("edit", "write") EXCEPT !.review = v])
      BY <1>3 DEF EditReads
    <2> DEFINE q == [Request("edit", "write") EXCEPT !.review = v]
    <2>2. q \in RequestRow
      BY <1>a, <1>b, NewRequest
    <2>3. /\ q.op = "edit" /\ q.new = 0 /\ q.old = 0 /\ q.pictures = {}
          /\ q.found = {} /\ q.persona = "developer" /\ q.review = v
      BY DEF Request
    <2>4. UNCHANGED <<profileVars, reviewVars>>
      BY <1>3 DEF EditReads
    <2> HIDE DEF q
    <2>5. RowIsThere(v) /\ review[v].status # "APPROVED" /\ Begins(r, q)
      BY <2>1 DEF OwnerMayEdit, RowIsThere, q
    <2> QED
      BY <1>a, <2>2, <2>3, <2>4, <2>5, ReviewReadKeeps
  <1>4. CASE EditWrites(r)
    BY <1>4, EditWritesKeeps
  <1>5. CASE ApproveReads(r)
    <2>1. PICK v \in Reviews :
            /\ RowIsThere(v)
            /\ Begins(r, [Request("approve", "write") EXCEPT
                            !.review = v, !.text = review[v].text])
      BY <1>5 DEF ApproveReads
    <2> DEFINE q == [Request("approve", "write") EXCEPT !.review = v, !.text = review[v].text]
    <2>2. q \in RequestRow
      <3>1. review[v].text \in Texts
        BY DEF Types, TablesType, ReviewRow
      <3> QED
        BY <1>a, <1>b, <3>1, NewRequest
    <2>3. /\ q.op = "approve" /\ q.new = 0 /\ q.old = 0 /\ q.pictures = {}
          /\ q.found = {} /\ q.persona = "developer" /\ q.review = v
          /\ q.text = review[v].text
      BY DEF Request
    <2>4. UNCHANGED <<profileVars, reviewVars>>
      BY <1>5 DEF ApproveReads
    <2>5. Begins(r, q)
      BY <2>1
    <2> HIDE DEF q
    <2> QED
      BY <1>a, <2>1, <2>2, <2>3, <2>4, <2>5, ReviewReadKeeps
  <1>6. CASE ApproveWrites(r)
    BY <1>6, ApproveWritesKeeps
  <1>7. CASE ModerateReads(r)
    <2>1. PICK v \in Reviews :
            RowIsThere(v) /\ Begins(r, [Request("moderate", "write") EXCEPT !.review = v])
      BY <1>7 DEF ModerateReads
    <2> DEFINE q == [Request("moderate", "write") EXCEPT !.review = v]
    <2>2. q \in RequestRow
      BY <1>a, <1>b, NewRequest
    <2>3. /\ q.op = "moderate" /\ q.new = 0 /\ q.old = 0 /\ q.pictures = {}
          /\ q.found = {} /\ q.persona = "developer" /\ q.review = v
      BY DEF Request
    <2>4. UNCHANGED <<profileVars, reviewVars>>
      BY <1>7 DEF ModerateReads
    <2>5. Begins(r, q)
      BY <2>1
    <2> HIDE DEF q
    <2> QED
      BY <1>a, <2>1, <2>2, <2>3, <2>4, <2>5, ReviewReadKeeps
  <1>8. CASE ModerateWrites(r)
    BY <1>8, ModerateWritesKeeps
  <1>9. CASE DeleteReviewReads(r)
    <2>1. PICK v \in Reviews :
            RowIsThere(v) /\ Begins(r, [Request("deleteReview", "write") EXCEPT !.review = v])
      BY <1>9 DEF DeleteReviewReads
    <2> DEFINE q == [Request("deleteReview", "write") EXCEPT !.review = v]
    <2>2. q \in RequestRow
      BY <1>a, <1>b, NewRequest
    <2>3. /\ q.op = "deleteReview" /\ q.new = 0 /\ q.old = 0 /\ q.pictures = {}
          /\ q.found = {} /\ q.persona = "developer" /\ q.review = v
      BY DEF Request
    <2>4. UNCHANGED <<profileVars, reviewVars>>
      BY <1>9 DEF DeleteReviewReads
    <2>5. Begins(r, q)
      BY <2>1
    <2> HIDE DEF q
    <2> QED
      BY <1>a, <2>1, <2>2, <2>3, <2>4, <2>5, ReviewReadKeeps
  <1>10. CASE DeleteReviewWrites(r)
    BY <1>10, DeleteReviewWritesKeeps
  <1> QED
    BY <1>1, <1>2, <1>3, <1>4, <1>5, <1>6, <1>7, <1>8, <1>9, <1>10 DEF ReviewStep

\* Requests about profiles, and requests that die, leave the reviews alone.
LEMMA ReviewsUntouched ==
  ASSUME Types, RInv, NEW r \in Requests, ProfileStep(r) \/ Dies(r) PROVE RInv'
  <1>1. UNCHANGED reviewVars
    BY DEF ProfileStep, Dies, CreateProfileReads, CreateProfileWrites, UpdateProfileReads,
           UpdateProfileWrites, UploadReads, Uploads, UploadRefused, RemoveReads,
           DeletesOldPicture, WritesPicture, DeactivateReads, DeactivateCommits, DeactivateDeletes
  <1>2. CASE Ends(r)
    BY <1>1, <1>2, QuietReviewEnd
  <1>3. ASSUME NEW q, Begins(r, q), q.op \notin ReviewOps PROVE RInv'
    <2>1. req'[r] = q /\ \A o \in Requests \ {r} : req'[o] = req[o]
      BY <1>3, BeginsEffect DEF Types
    <2>2. SameReviewers(r) /\ ReviewFits(r)'
      BY <1>3, <2>1, NoneElse, ReviewersAreSame DEF Types, ReviewFits
    <2> QED
      BY <1>1, <2>2, ReviewsStay
  <1>4. ASSUME InFlight(r), req[r].op \notin ReviewOps, OthersKept(r), req'[r].op = req[r].op
        PROVE  RInv'
    <2>1. SameReviewers(r) /\ ReviewFits(r)'
      BY <1>4, ReviewersAreSame DEF Types, ReviewFits
    <2> QED
      BY <1>1, <2>1, ReviewsStay
  <1>5. \A op \in {"createProfile", "updateProfile", "upload", "remove", "deactivate"} :
          op \notin ReviewOps
    BY DEF ReviewOps
  <1>6. CASE CreateProfileReads(r)
    <2>1. PICK p \in Personas : Begins(r, [Request("createProfile", "write") EXCEPT !.persona = p])
      BY <1>6 DEF CreateProfileReads
    <2> QED
      BY <1>3, <1>5, <2>1 DEF Request
  <1>7. CASE UpdateProfileReads(r)
    <2>1. PICK p \in Personas : Begins(r, [Request("updateProfile", "write") EXCEPT !.persona = p])
      BY <1>7 DEF UpdateProfileReads
    <2> QED
      BY <1>3, <1>5, <2>1 DEF Request
  <1>8. CASE UploadReads(r)
    <2>1. PICK p \in Personas : Begins(r, [Request("upload", "upload") EXCEPT
                                             !.persona = p, !.old = profile[p].picture])
      BY <1>8 DEF UploadReads
    <2> QED
      BY <1>3, <1>5, <2>1 DEF Request
  <1>9. CASE RemoveReads(r)
    <2>1. PICK p \in Personas : Begins(r, [Request("remove", "delete") EXCEPT
                                             !.persona = p, !.old = profile[p].picture])
      BY <1>9 DEF RemoveReads
    <2> QED
      BY <1>3, <1>5, <2>1 DEF Request
  <1>10. CASE DeactivateReads(r)
    <2>1. \E F, S : Begins(r, [Request("deactivate", "write") EXCEPT !.found = F, !.pictures = S])
      BY <1>10 DEF DeactivateReads
    <2> QED
      BY <1>3, <1>5, <2>1 DEF Request
  <1>11. CASE Uploads(r)
    <2>1. InFlight(r) /\ req[r].op = "upload" /\ req[r] \in RequestRow
      BY <1>11, InFlightRow DEF Uploads, At, Types
    <2>2. /\ req'[r] = [req[r] EXCEPT !.new = uploads', !.at = "delete"]
          /\ \A o \in Requests \ {r} : req'[o] = req[o]
      BY <1>11 DEF Uploads, Types, ReqType
    <2>3. req'[r].op = req[r].op
      BY <2>1, <2>2 DEF RequestRow
    <2> QED
      BY <1>4, <1>5, <2>1, <2>2, <2>3, NoneElse
  <1>12. CASE DeletesOldPicture(r)
    <2>1. InFlight(r) /\ req[r].op \in {"upload", "remove"} /\ req[r] \in RequestRow
      BY <1>12, InFlightRow DEF DeletesOldPicture, Types
    <2>2. /\ req'[r] = [req[r] EXCEPT !.at = "write"]
          /\ \A o \in Requests \ {r} : req'[o] = req[o]
      BY <1>12, <2>1, GoesToEffect DEF DeletesOldPicture, Types, Ats
    <2>3. req'[r].op = req[r].op
      BY <2>1, <2>2 DEF RequestRow
    <2> QED
      BY <1>4, <1>5, <2>1, <2>2, <2>3, NoneElse
  <1>13. CASE DeactivateCommits(r)
    <2>1. InFlight(r) /\ req[r].op = "deactivate" /\ req[r] \in RequestRow
      BY <1>13, InFlightRow DEF DeactivateCommits, At, Types
    <2>2. req'[r] = [req[r] EXCEPT !.at = "delete"] /\ OthersKept(r)
      BY <1>13 DEF DeactivateCommits, OthersKept, Kept, InFlight
    <2>3. req'[r].op = req[r].op
      BY <2>1, <2>2 DEF RequestRow
    <2> QED
      BY <1>4, <1>5, <2>1, <2>2, <2>3
  <1>14. CASE Dies(r) \/ CreateProfileWrites(r) \/ UpdateProfileWrites(r) \/ UploadRefused(r)
              \/ WritesPicture(r) \/ DeactivateDeletes(r)
    BY <1>2, <1>14 DEF Dies, CreateProfileWrites, UpdateProfileWrites, UploadRefused,
                       WritesPicture, DeactivateDeletes, WritesProfile
  <1> QED
    BY <1>6, <1>7, <1>8, <1>9, <1>10, <1>11, <1>12, <1>13, <1>14 DEF ProfileStep

-----------------------------------------------------------------------------
(* The inductive invariant and the theorems *)

IInv == Types /\ PInv /\ RInv

LEMMA InitIInv == Init => IInv
  <1> SUFFICES ASSUME Init PROVE IInv
    OBVIOUS
  <1>0. 0 \in 0..MaxPictures /\ 0 \in Texts /\ 0 \in 0..MaxFaults
    BY BoundsAssumption DEF Texts
  <1>1. \A r \in Requests : ~InFlight(r)
    BY DEF Init, InFlight
  <1>2. Types
    BY <1>0 DEF Init, Types, ReqType, TablesType, ProfileRow, NoProfile, ReviewRow, NoReview
  <1>3. \A p \in Personas : ~profile[p].exists /\ ~profile[p].personal /\ Pic(p) = 0
    BY DEF Init, NoProfile, Pic
  <1>4. uploads = 0 /\ account = "LIVE"
    BY DEF Init
  <1>5. ProfilesFit /\ AllOvertaken /\ Fresh /\ Owned /\ DeactivatedIsAnonymous
    BY <1>1, <1>3, <1>4 DEF ProfilesFit, AllOvertaken, Fresh, Owned, DeactivatedIsAnonymous
  <1>6. Numbered /\ PictureIsStored
    BY <1>1, <1>3, <1>4, StoredMeans DEF Numbered
  <1>7. \A v \in Reviews : review[v].status = "NONE"
    BY DEF Init, NoReview
  <1>8. RInv
    BY <1>1, <1>7 DEF RInv, ReviewFits, ApprovedFits
  <1> QED
    BY <1>2, <1>5, <1>6, <1>8 DEF IInv, PInv

LEMMA NextIInv == IInv /\ [Next]_vars => IInv'
  <1> SUFFICES ASSUME IInv, [Next]_vars PROVE IInv'
    OBVIOUS
  <1>0. Types /\ PInv /\ RInv /\ Named
    BY RInvMeans DEF IInv
  <1>1. ASSUME NEW r \in Requests, ProfileStep(r) PROVE IInv'
    <2>1. Types'
      BY <1>0, <1>1, ProfileStepType DEF Types
    <2> QED
      BY <1>0, <1>1, <2>1, ProfileStepKeeps, ReviewsUntouched DEF IInv
  <1>2. ASSUME NEW r \in Requests, ReviewStep(r) PROVE IInv'
    <2>1. Types'
      BY <1>0, <1>2, ReviewStepType DEF Types
    <2> QED
      BY <1>0, <1>2, <2>1, ReviewStepKeeps DEF IInv
  <1>3. ASSUME NEW r \in Requests, Dies(r) PROVE IInv'
    <2>1. ReqType'
      BY <1>0, <1>3, EndsType DEF Dies, Types
    <2>2. halted' \subseteq Pictures
      <3>1. InFlight(r) => OldPicture(r) \subseteq Pictures
        BY <1>0, InFlightRow, BoundsAssumption DEF Types, RequestRow, OldPicture, Pictures
      <3> QED
        BY <1>0, <1>3, <3>1 DEF Dies, Types, TablesType
    <2>3. TablesType'
      BY <1>0, <1>3, <2>2, FaultType DEF Dies, Types, TablesType, reviewVars
    <2> QED
      BY <1>0, <1>3, <2>1, <2>3, DiesKeeps, ReviewsUntouched DEF IInv, Types
  <1>4. CASE CooldownPasses
    <2>1. UNCHANGED <<profileVars, edits, blurred, group, req, faults>>
      BY <1>4 DEF CooldownPasses
    <2>2. PICK v \in Reviews : RowIsThere(v) /\ review' = [review EXCEPT ![v].recent = FALSE]
      BY <1>4 DEF CooldownPasses
    <2>3. review[v] \in ReviewRow /\ review' = [review EXCEPT ![v] = [review[v] EXCEPT !.recent = FALSE]]
      BY <1>0, <2>2 DEF Types, TablesType
    <2>4. /\ [review[v] EXCEPT !.recent = FALSE] \in ReviewRow
          /\ [review[v] EXCEPT !.recent = FALSE].status = review[v].status
          /\ [review[v] EXCEPT !.recent = FALSE].text = review[v].text
          /\ [review[v] EXCEPT !.recent = FALSE].approvedText = review[v].approvedText
      BY <2>3 DEF ReviewRow
    <2>5. /\ review' \in [Reviews -> ReviewRow]
          /\ \A w \in Reviews : /\ review'[w].status = review[w].status
                                /\ review'[w].text = review[w].text
                                /\ review'[w].approvedText = review[w].approvedText
      BY <1>0, <2>3, <2>4, ReviewWrite DEF Types
    <2>6. Types'
      BY <1>0, <2>1, <2>5 DEF Types, TablesType, ReqType, profileVars
    <2>7. PInv'
      BY <1>0, <2>1 DEF PInv, ProfilesFit, AllOvertaken, Owned, Fresh, Numbered,
                        PictureIsStored, DeactivatedIsAnonymous, Pic, InFlight, OldPicture, profileVars
    <2>8. RInv'
      <3>1. ASSUME NEW r \in Requests PROVE ReviewFits(r)'
        BY <1>0, <2>1, <2>5, <3>1 DEF RInv, ReviewFits, RowIsThere, InFlight
      <3>2. ASSUME NEW w \in Reviews PROVE ApprovedFits(w)'
        BY <1>0, <2>1, <2>5, <3>2 DEF RInv, ApprovedFits
      <3> QED
        BY <3>1, <3>2 DEF RInv
    <2> QED
      BY <2>6, <2>7, <2>8 DEF IInv
  <1>5. CASE UNCHANGED vars
    <2>1. UNCHANGED <<profileVars, reviewVars, group, req, faults>>
      BY <1>5 DEF vars
    <2>2. Types'
      BY <1>0, <2>1 DEF Types, TablesType, ReqType, profileVars, reviewVars
    <2>3. PInv'
      BY <1>0, <2>1 DEF PInv, ProfilesFit, AllOvertaken, Owned, Fresh, Numbered,
                        PictureIsStored, DeactivatedIsAnonymous, Pic, InFlight, OldPicture, profileVars
    <2>4. RInv'
      BY <1>0, <2>1 DEF RInv, ReviewFits, ApprovedFits, RowIsThere, InFlight, reviewVars
    <2> QED
      BY <2>2, <2>3, <2>4 DEF IInv
  <1> QED
    BY <1>1, <1>2, <1>3, <1>4, <1>5 DEF Next

\* What the properties follow from, in every reachable state.
THEOREM IInvCorrect == Spec => []IInv
  BY InitIInv, NextIInv, PTL DEF Spec

\* Every table and request has its type, for any bounds.
THEOREM TypeCorrect == Spec => []TypeOK
  <1>1. IInv => TypeOK
    BY TypeParts DEF IInv, Types
  <1> QED
    BY <1>1, IInvCorrect, PTL

\* Whatever overlaps, a profile's picture is in the storage except between the deletion
\* of the old one and the write of the row (uploadDeveloperAvatar, uploadCompanyLogo,
\* deleteDeveloperAvatar, deleteCompanyLogo, deactivateMyAccount).
THEOREM PictureIsStoredCorrect == Spec => []PictureIsStored
  <1>1. IInv => PictureIsStored
    BY DEF IInv, PInv
  <1> QED
    BY <1>1, IInvCorrect, PTL

\* Nothing personal is left by deactivateMyAccount in a profile that no overlapping
\* request wrote and that existed when the deactivation read.
THEOREM DeactivatedIsAnonymousCorrect == Spec => []DeactivatedIsAnonymous
  <1>1. IInv => DeactivatedIsAnonymous
    BY DEF IInv, PInv
  <1> QED
    BY <1>1, IInvCorrect, PTL

\* A visitor is shown the text that the approval read, or that a moderator wrote, unless an
\* write overlapped the last approval (approvePlatformReview, updatePlatformReview).
THEOREM PublicTextIsSettledCorrect == Spec => []PublicTextIsSettled
  <1>1. IInv => PublicTextIsSettled
    BY RInvMeans DEF IInv
  <1> QED
    BY <1>1, IInvCorrect, PTL

-----------------------------------------------------------------------------
(* The standing of the user *)

\* A request for something else than his records is a request of AccountRecords or leaves
\* his records alone.
LEMMA AccountStepIsNext == ASSUME AccountStep PROVE Next
  BY DEF AccountStep, Next, ProfileStep

LEMMA StandingStepIsNext == ASSUME [StandingNext]_allVars PROVE [Next]_vars
  <1>1. CASE RecordsStep
    BY <1>1 DEF RecordsStep
  <1>2. CASE AccountStep
    BY <1>2, AccountStepIsNext
  <1>3. CASE \E r \in Requests : RoleStep(r)
    BY <1>3 DEF RoleStep, RoleReads, RoleWrites, RoleTells, RoleDies
  <1>4. CASE \E r \in Requests : TourStep(r)
    BY <1>4 DEF TourStep, UpdateTourReads, ResetTourReads, ReportBegins, UpdateTourWrites,
                ResetTourWrites, TourDies
  <1>5. CASE UNCHANGED allVars
    BY <1>5 DEF allVars
  <1> QED
    BY <1>1, <1>2, <1>3, <1>4, <1>5 DEF StandingNext

\* Changing a user's role and reporting his tours never disturbs his profiles and reviews:
\* whatever is proved of AccountRecords holds beside them (setUserModeratorRole,
\* updateMyOnboardingState and resetMyOnboardingState write other tables).
THEOREM RecordsAreUndisturbed == StandingSpec => Spec
  <1>1. StandingInit => Init
    BY DEF StandingInit
  <1>2. [StandingNext]_allVars => [Next]_vars
    BY StandingStepIsNext
  <1> QED
    BY <1>1, <1>2, PTL DEF StandingSpec, Spec

-----------------------------------------------------------------------------
(* The standing of the user: types *)

ChangingType == changing \in [Requests -> RoleRow \cup {Idle}]
TouringType  == touring \in [Requests -> TourReport \cup {Idle}]

StandingTables ==
  /\ serving \in Services
  /\ roles \subseteq Roles /\ roleTold \in RoleNotice \cup {NoNotice} /\ crossed \in BOOLEAN
  /\ tour \in [Personas -> TourRow]
  /\ finished \in [Personas -> 0..MaxVersion] /\ replayed \subseteq Personas

StandingTypes == ChangingType /\ TouringType /\ StandingTables

LEMMA InitStandingTypes == ASSUME StandingInit PROVE StandingTypes
  <1>1. DefaultTour \in TourRow /\ 0 \in 0..MaxVersion
    BY VersionAssumption DEF DefaultTour, TourRow, TourStatus, FinishedStatus, Versions
  <1> QED
    BY <1>1 DEF StandingInit, StandingTypes, ChangingType, TouringType, StandingTables, Roles

LEMMA FlyingRow ==
  ASSUME ChangingType, NEW r \in Requests, changing[r] # Idle
  PROVE  changing[r] \in RoleRow
  BY DEF ChangingType

LEMMA TouringRow ==
  ASSUME TouringType, NEW r \in Requests, touring[r] # Idle
  PROVE  touring[r] \in TourReport
  BY DEF TouringType

\* What RoleReads does to the changes: the new one, the opposite ones, the others.
RoleBegins(r, enabled) ==
  /\ changing[r] = Idle
  /\ changing'[r] = [at |-> "write", enabled |-> enabled, found |-> roles,
                     opposed |-> Opposing(enabled) # {}]
  /\ \A q \in Requests \ {r} :
       changing'[q] = IF q \in Opposing(enabled) THEN [changing[q] EXCEPT !.opposed = TRUE]
                      ELSE changing[q]
  /\ changing' = [q \in Requests |-> changing'[q]]
  /\ crossed' = (crossed \/ Opposing(enabled) # {})
  /\ UNCHANGED <<roles, roleTold>>

LEMMA RoleReadsEffect ==
  ASSUME NEW r \in Requests, RoleReads(r) PROVE \E enabled \in BOOLEAN : RoleBegins(r, enabled)
  <1>1. PICK enabled \in BOOLEAN :
          /\ changing' = [q \in Requests |->
               IF q = r THEN [at |-> "write", enabled |-> enabled, found |-> roles,
                              opposed |-> Opposing(enabled) # {}]
               ELSE IF q \in Opposing(enabled) THEN [changing[q] EXCEPT !.opposed = TRUE]
               ELSE changing[q]]
          /\ crossed' = (crossed \/ Opposing(enabled) # {})
    BY DEF RoleReads
  <1>2. changing[r] = Idle /\ UNCHANGED <<roles, roleTold>>
    BY DEF RoleReads
  <1> QED
    BY <1>1, <1>2, Zenon DEF RoleBegins

\* Once marked as opposed, a change has the fields it had.
LEMMA OpposedRow ==
  ASSUME NEW row \in RoleRow
  PROVE  LET other == [row EXCEPT !.opposed = TRUE]
         IN /\ other \in RoleRow /\ other.at = row.at /\ other.enabled = row.enabled
            /\ other.found = row.found /\ other.opposed = TRUE
  BY DEF RoleRow

LEMMA NextRolesType ==
  ASSUME NEW S \in SUBSET Roles, NEW enabled \in BOOLEAN
  PROVE  NextRoles(S, enabled) \subseteq Roles /\ (Moderates(NextRoles(S, enabled)) <=> enabled)
  BY DEF NextRoles, Moderates, Roles

\* The steps that leave the changes of the role alone, and those that leave the tours.
LEMMA OtherSteps ==
  ASSUME [StandingNext]_allVars
  PROVE  \/ UNCHANGED standingVars
         \/ UNCHANGED <<serving, tourVars>> /\ \E r \in Requests : RoleStep(r)
         \/ UNCHANGED <<serving, roleVars>> /\ \E r \in Requests : TourStep(r)
  <1>1. CASE RecordsStep
    BY <1>1 DEF RecordsStep
  <1>2. CASE AccountStep
    BY <1>2 DEF AccountStep
  <1>3. CASE \E r \in Requests : RoleStep(r)
    BY <1>3 DEF RoleStep, RoleReads, RoleWrites, RoleTells, RoleDies
  <1>4. CASE \E r \in Requests : TourStep(r)
    BY <1>4 DEF TourStep, UpdateTourReads, ResetTourReads, ReportBegins, UpdateTourWrites,
                ResetTourWrites, TourDies, tourVars
  <1>5. CASE UNCHANGED allVars
    BY <1>5 DEF allVars
  <1> QED
    BY <1>1, <1>2, <1>3, <1>4, <1>5 DEF StandingNext

LEMMA RoleStepTypes ==
  ASSUME StandingTypes, NEW r \in Requests, RoleStep(r), UNCHANGED <<serving, tourVars>>
  PROVE  StandingTypes'
  <1>0. ChangingType /\ TouringType /\ StandingTables
    BY DEF StandingTypes
  <1>1. TouringType' /\ UNCHANGED <<serving, tour, finished, replayed>>
    BY <1>0 DEF TouringType, tourVars
  <1>2. CASE RoleReads(r)
    <2>1. PICK enabled \in BOOLEAN : RoleBegins(r, enabled)
      BY <1>2, RoleReadsEffect
    <2>2. changing'[r] \in RoleRow
      BY <1>0, <2>1 DEF RoleBegins, StandingTables, RoleRow
    <2>3. ASSUME NEW q \in Requests \ {r} PROVE changing'[q] \in RoleRow \cup {Idle}
      BY <1>0, <2>1, <2>3, FlyingRow, OpposedRow DEF RoleBegins, Opposing, ChangingType
    <2>4. ChangingType'
      BY <2>1, <2>2, <2>3 DEF RoleBegins, ChangingType
    <2>5. crossed' \in BOOLEAN /\ UNCHANGED <<roles, roleTold>>
      BY <1>0, <2>1 DEF RoleBegins, StandingTables
    <2> QED
      BY <1>0, <1>1, <2>4, <2>5 DEF StandingTypes, StandingTables
  <1>3. CASE RoleWrites(r)
    <2>1. changing[r] \in RoleRow
      BY <1>0, <1>3, FlyingRow DEF RoleWrites, Changes
    <2>2. [changing[r] EXCEPT !.at = "tell"] \in RoleRow
      BY <2>1 DEF RoleRow
    <2>3. ChangingType'
      BY <1>0, <1>3, <2>2 DEF RoleWrites, ChangingType
    <2>4. roles' \subseteq Roles
      BY <1>3, <2>1, NextRolesType DEF RoleWrites, RoleRow
    <2> QED
      BY <1>0, <1>1, <1>3, <2>3, <2>4 DEF RoleWrites, StandingTypes, StandingTables
  <1>4. CASE RoleTells(r)
    BY <1>0, <1>1, <1>4 DEF RoleTells, StandingTypes, StandingTables, ChangingType, RoleNotice
  <1>5. CASE RoleDies(r)
    BY <1>0, <1>1, <1>5 DEF RoleDies, StandingTypes, StandingTables, ChangingType
  <1> QED
    BY <1>2, <1>3, <1>4, <1>5 DEF RoleStep

LEMMA TourStepTypes ==
  ASSUME StandingTypes, NEW r \in Requests, TourStep(r), UNCHANGED <<serving, roleVars>>
  PROVE  StandingTypes'
  <1>0. ChangingType /\ TouringType /\ StandingTables
    BY DEF StandingTypes
  <1>1. ChangingType' /\ UNCHANGED <<serving, roles, roleTold, crossed>>
    BY <1>0 DEF ChangingType, roleVars
  <1>2. ASSUME NEW p \in Personas, NEW status \in TourStatus, NEW version \in Versions,
               ReportBegins(r, p, status, version)
        PROVE  StandingTypes'
    <2>1. [persona |-> p, status |-> status, version |-> version] \in TourReport
      BY DEF TourReport
    <2>2. TouringType'
      BY <1>0, <1>2, <2>1 DEF ReportBegins, TouringType
    <2> QED
      BY <1>0, <1>1, <1>2, <2>2 DEF ReportBegins, StandingTypes, StandingTables
  <1>3. CASE UpdateTourReads(r)
    BY <1>2, <1>3 DEF UpdateTourReads, TourStatus
  <1>4. CASE ResetTourReads(r)
    <2>1. 1 \in Versions
      BY VersionAssumption DEF Versions
    <2> QED
      BY <1>2, <1>4, <2>1 DEF ResetTourReads, TourStatus
  <1>5. CASE UpdateTourWrites(r)
    <2>1. touring[r] \in TourReport /\ touring[r].version \in 0..MaxVersion
      BY <1>0, <1>5, TouringRow, VersionAssumption DEF UpdateTourWrites, TourReport, Versions
    <2>2. UpdatedTour(tour[touring[r].persona], touring[r]) \in TourRow
      BY <2>1 DEF UpdatedTour, TourRow, TourReport
    <2>3. TouringType'
      BY <1>0, <1>5 DEF UpdateTourWrites, TouringType
    <2>4. tour' \in [Personas -> TourRow]
      BY <1>0, <1>5, <2>2 DEF UpdateTourWrites, StandingTables
    <2>5. finished' \in [Personas -> 0..MaxVersion]
      BY <1>0, <1>5, <2>1 DEF UpdateTourWrites, StandingTables
    <2>6. replayed' \subseteq Personas
      BY <1>0, <1>5, <2>1 DEF UpdateTourWrites, StandingTables, TourReport
    <2> QED
      BY <1>0, <1>1, <2>3, <2>4, <2>5, <2>6 DEF StandingTypes, StandingTables
  <1>6. CASE ResetTourWrites(r)
    <2>1. touring[r].persona \in Personas
      BY <1>0, <1>6, TouringRow DEF ResetTourWrites, TourReport
    <2>2. [tour[touring[r].persona] EXCEPT !.status = "not_started"] \in TourRow
      BY <1>0, <2>1 DEF StandingTables, TourRow, TourStatus
    <2>3. tour' = [tour EXCEPT ![touring[r].persona] =
                     [tour[touring[r].persona] EXCEPT !.status = "not_started"]]
      BY <1>6 DEF ResetTourWrites
    <2>4. tour' \in [Personas -> TourRow]
      BY <1>0, <2>2, <2>3 DEF StandingTables
    <2>5. TouringType' /\ replayed' \subseteq Personas
      BY <1>0, <1>6 DEF ResetTourWrites, TouringType, StandingTables
    <2>6. finished' \in [Personas -> 0..MaxVersion]
      <3>1. 0 \in 0..MaxVersion
        BY VersionAssumption
      <3>2. finished' = [finished EXCEPT ![touring[r].persona] = 0]
        BY <1>6 DEF ResetTourWrites
      <3> QED
        BY <1>0, <3>1, <3>2 DEF StandingTables
    <2> QED
      BY <1>0, <1>1, <2>4, <2>5, <2>6 DEF StandingTypes, StandingTables
  <1>7. CASE TourDies(r)
    BY <1>0, <1>1, <1>7 DEF TourDies, StandingTypes, StandingTables, TouringType
  <1> QED
    BY <1>3, <1>4, <1>5, <1>6, <1>7 DEF TourStep

LEMMA NextStandingTypes ==
  ASSUME StandingTypes, [StandingNext]_allVars PROVE StandingTypes'
  <1>1. CASE UNCHANGED standingVars
    BY <1>1 DEF standingVars, roleVars, tourVars, StandingTypes, ChangingType, TouringType,
                StandingTables
  <1> QED
    BY <1>1, OtherSteps, RoleStepTypes, TourStepTypes
-----------------------------------------------------------------------------
(* The role of a moderator *)

Flying(r) == changing[r] # Idle
Told == roleTold = "MODERATOR_ROLE_GRANTED"

\* Whoever meets no opposite change flies with changes in its own direction only.
Companions(r) ==
  Flying(r) /\ ~changing[r].opposed =>
    \A q \in Requests : Flying(q) => (changing[q].enabled <=> changing[r].enabled)

\* What it then tells is what the roles say.
TellsTheRoles(r) ==
  Changes(r, "tell") /\ ~changing[r].opposed => (Moderates(roles) <=> changing[r].enabled)

\* While nothing is crossed all changes go one way, those that will not notify, or have
\* written, find the roles as they want them, and otherwise the roles are what was told.
OneWay ==
  \A r, q \in Requests : Flying(r) /\ Flying(q) => (changing[q].enabled <=> changing[r].enabled)

Arrived(r) ==
  Flying(r) /\ (changing[r].at = "tell" \/ ~IsChange(changing[r].found, changing[r].enabled)) =>
    (Moderates(roles) <=> changing[r].enabled)

ToldOrTelling == (Told <=> Moderates(roles)) \/ \E r \in Requests : Changes(r, "tell")

Uncrossed == OneWay /\ (\A r \in Requests : Arrived(r)) /\ ToldOrTelling

RoleInv ==
  /\ \A r \in Requests : Companions(r) /\ TellsTheRoles(r)
  /\ ~crossed => Uncrossed

LEMMA InitRoleInv == ASSUME StandingInit PROVE RoleInv
  <1>1. \A r \in Requests : ~Flying(r) /\ ~Changes(r, "tell")
    BY DEF StandingInit, Flying, Changes
  <1>2. ~Told /\ ~Moderates(roles)
    BY DEF StandingInit, Told, NoNotice, Moderates
  <1> QED
    BY <1>1, <1>2 DEF RoleInv, Companions, TellsTheRoles, Uncrossed, OneWay, Arrived, ToldOrTelling

\* What RoleReads leaves of the changes that were there.
LEMMA RoleBeginsOthers ==
  ASSUME ChangingType, NEW r \in Requests, NEW enabled \in BOOLEAN, RoleBegins(r, enabled)
  PROVE  \A q \in Requests \ {r} :
           /\ Flying(q)' <=> Flying(q)
           /\ Flying(q) =>
                /\ changing'[q].at = changing[q].at /\ changing'[q].found = changing[q].found
                /\ changing'[q].enabled = changing[q].enabled
                /\ changing'[q].opposed <=>
                     changing[q].opposed \/ changing[q].enabled # enabled
           /\ Changes(q, "tell")' <=> Changes(q, "tell")
  <1> SUFFICES ASSUME NEW q \in Requests \ {r}
               PROVE  /\ Flying(q)' <=> Flying(q)
                      /\ Flying(q) =>
                           /\ changing'[q].at = changing[q].at
                           /\ changing'[q].found = changing[q].found
                           /\ changing'[q].enabled = changing[q].enabled
                           /\ changing'[q].opposed <=>
                                changing[q].opposed \/ changing[q].enabled # enabled
                      /\ Changes(q, "tell")' <=> Changes(q, "tell")
    OBVIOUS
  <1>1. CASE q \in Opposing(enabled)
    <2>1. Flying(q) /\ changing[q].enabled # enabled
      BY <1>1 DEF Opposing, Flying
    <2>2. changing[q] \in RoleRow /\ changing'[q] = [changing[q] EXCEPT !.opposed = TRUE]
      BY <1>1, <2>1, FlyingRow DEF Flying, RoleBegins
    <2>3. changing'[q] # Idle
      BY <2>2, OpposedRow, IdleAssumption
    <2> QED
      BY <2>1, <2>2, <2>3, OpposedRow DEF Flying, Changes
  <1>2. CASE q \notin Opposing(enabled)
    <2>1. changing'[q] = changing[q]
      BY <1>2 DEF RoleBegins
    <2>2. Flying(q) => changing[q].enabled = enabled
      BY <1>2 DEF Opposing, Flying
    <2> QED
      BY <2>1, <2>2 DEF Flying, Changes
  <1> QED
    BY <1>1, <1>2

LEMMA RoleReadsInv ==
  ASSUME ChangingType, RoleInv, NEW r \in Requests, NEW enabled \in BOOLEAN,
         RoleBegins(r, enabled)
  PROVE  RoleInv'
  <1>1. /\ changing'[r].opposed <=> Opposing(enabled) # {}
        /\ changing'[r].at = "write" /\ changing'[r].found = roles
        /\ changing'[r].enabled = enabled
        /\ ~Changes(r, "tell")' /\ ~Changes(r, "tell") /\ ~Flying(r)
        /\ UNCHANGED <<roles, roleTold>> /\ (Told' <=> Told)
    <2>1. changing'[r] = [at |-> "write", enabled |-> enabled, found |-> roles,
                          opposed |-> Opposing(enabled) # {}]
      BY DEF RoleBegins
    <2>2. changing'[r].opposed <=> Opposing(enabled) # {}
      <3>1. PICK some \in BOOLEAN : some = (Opposing(enabled) # {})
        OBVIOUS
      <3>2. changing'[r].opposed = some
        BY <2>1, <3>1
      <3> QED
        BY <3>1, <3>2
    <2>3. /\ changing'[r].at = "write" /\ changing'[r].found = roles
          /\ changing'[r].enabled = enabled
      BY <2>1
    <2>4. ~Changes(r, "tell") /\ ~Flying(r) /\ UNCHANGED <<roles, roleTold>>
      BY DEF RoleBegins, Changes, Flying
    <2>5. ~Changes(r, "tell")'
      BY <2>3 DEF Changes
    <2> QED
      BY <2>2, <2>3, <2>4, <2>5 DEF Told
  <1>2. \A q \in Requests \ {r} :
          /\ Flying(q)' <=> Flying(q)
          /\ Flying(q) =>
               /\ changing'[q].at = changing[q].at /\ changing'[q].found = changing[q].found
               /\ changing'[q].enabled = changing[q].enabled
               /\ changing'[q].opposed <=> changing[q].opposed \/ changing[q].enabled # enabled
          /\ Changes(q, "tell")' <=> Changes(q, "tell")
    BY RoleBeginsOthers
  <1>3. \A q \in Requests : Flying(q) => changing[q] \in RoleRow
    BY FlyingRow DEF Flying
  <1>4. Opposing(enabled) = {} => \A q \in Requests : Flying(q) => changing[q].enabled = enabled
    BY DEF Opposing, Flying
  <1>5. ASSUME NEW o \in Requests PROVE Companions(o)'
    BY <1>1, <1>2, <1>4, <1>5 DEF RoleInv, Companions
  <1>6. ASSUME NEW o \in Requests PROVE TellsTheRoles(o)'
    BY <1>1, <1>2, <1>6 DEF RoleInv, TellsTheRoles, Changes, Flying
  <1>7. ASSUME ~crossed' PROVE Uncrossed'
    <2>1. Opposing(enabled) = {} /\ Uncrossed
      BY <1>7 DEF RoleBegins, RoleInv
    <2>2. OneWay'
      BY <1>1, <1>2, <1>4, <2>1 DEF Uncrossed, OneWay
    <2>3. Arrived(r)'
      BY <1>1 DEF Arrived, IsChange
    <2>4. ASSUME NEW o \in Requests \ {r} PROVE Arrived(o)'
      BY <1>1, <1>2, <2>1, <2>4 DEF Uncrossed, Arrived
    <2>5. ToldOrTelling'
      BY <1>1, <1>2, <2>1 DEF Uncrossed, ToldOrTelling
    <2> QED
      BY <2>2, <2>3, <2>4, <2>5 DEF Uncrossed
  <1> QED
    BY <1>5, <1>6, <1>7 DEF RoleInv
LEMMA RoleWritesInv ==
  ASSUME StandingTypes, RoleInv, NEW r \in Requests, RoleWrites(r) PROVE RoleInv'
  <1>0. ChangingType /\ roles \subseteq Roles
    BY DEF StandingTypes, StandingTables
  <1>1. changing[r] \in RoleRow /\ Flying(r) /\ ~Changes(r, "tell")
    BY <1>0, FlyingRow DEF RoleWrites, Changes, Flying
  <1>2. Moderates(roles)' <=> changing[r].enabled
    BY <1>1, NextRolesType DEF RoleWrites, RoleRow, Moderates
  <1>3. \A q \in Requests \ {r} : changing'[q] = changing[q]
    BY <1>0 DEF RoleWrites, ChangingType
  <1>4. /\ Flying(r)' => /\ changing'[r].at = "tell" /\ changing'[r].enabled = changing[r].enabled
                         /\ changing'[r].opposed = changing[r].opposed
        /\ Flying(r)' <=> IsChange(changing[r].found, changing[r].enabled)
        /\ Changes(r, "tell")' <=> Flying(r)'
    <2>1. CASE IsChange(changing[r].found, changing[r].enabled)
      <3>1. changing'[r] = [changing[r] EXCEPT !.at = "tell"]
        BY <1>0, <2>1 DEF RoleWrites, ChangingType
      <3>2. changing'[r] \in RoleRow
        BY <1>1, <3>1 DEF RoleRow
      <3> QED
        BY <1>1, <2>1, <3>1, <3>2, IdleAssumption DEF RoleRow, Flying, Changes
    <2>2. CASE ~IsChange(changing[r].found, changing[r].enabled)
      <3>1. changing'[r] = Idle
        BY <1>0, <2>2 DEF RoleWrites, ChangingType
      <3> QED
        BY <2>2, <3>1 DEF Flying, Changes
    <2> QED
      BY <2>1, <2>2
  <1>5. UNCHANGED <<roleTold, crossed>> /\ (Told' <=> Told)
    BY DEF RoleWrites, Told
  <1>6. ASSUME NEW o \in Requests PROVE Companions(o)'
    BY <1>1, <1>3, <1>4, <1>6 DEF RoleInv, Companions, Flying
  <1>7. ASSUME NEW o \in Requests PROVE TellsTheRoles(o)'
    <2>1. CASE o = r
      BY <1>2, <1>4, <2>1 DEF TellsTheRoles
    <2>2. CASE o # r
      BY <1>1, <1>2, <1>3, <1>7, <2>2 DEF RoleInv, Companions, TellsTheRoles, Changes, Flying
    <2> QED
      BY <2>1, <2>2
  <1>8. ASSUME ~crossed' PROVE Uncrossed'
    <2>1. Uncrossed
      BY <1>5, <1>8 DEF RoleInv
    <2>2. \A q \in Requests : Flying(q) => (changing[q].enabled <=> changing[r].enabled)
      BY <1>1, <2>1 DEF Uncrossed, OneWay
    <2>3. \A q \in Requests : Flying(q)' => (changing'[q].enabled <=> changing[r].enabled)
      BY <1>3, <1>4, <2>2 DEF Flying
    <2>4. OneWay'
      BY <2>3 DEF OneWay
    <2>5. \A q \in Requests : Arrived(q)'
      BY <1>2, <2>3 DEF Arrived
    <2>6. ToldOrTelling'
      <3>1. CASE IsChange(changing[r].found, changing[r].enabled)
        BY <1>4, <3>1 DEF ToldOrTelling
      <3>2. CASE ~IsChange(changing[r].found, changing[r].enabled)
        <4>1. Moderates(roles) <=> Moderates(roles)'
          BY <1>1, <1>2, <2>1, <3>2 DEF Uncrossed, Arrived
        <4>2. ASSUME NEW q \in Requests, Changes(q, "tell") PROVE Changes(q, "tell")'
          BY <1>1, <1>3, <4>2 DEF Changes
        <4> QED
          BY <1>5, <2>1, <4>1, <4>2 DEF Uncrossed, ToldOrTelling
      <3> QED
        BY <3>1, <3>2
    <2> QED
      BY <2>4, <2>5, <2>6 DEF Uncrossed
  <1> QED
    BY <1>6, <1>7, <1>8 DEF RoleInv

\* A change leaves: it notified, or it died.
LEMMA RoleLeaves ==
  ASSUME ChangingType, RoleInv, NEW r \in Requests, changing' = [changing EXCEPT ![r] = Idle],
         UNCHANGED roles
  PROVE  /\ \A o \in Requests : (Companions(o) /\ TellsTheRoles(o))'
         /\ OneWay => OneWay'
         /\ (\A o \in Requests : Arrived(o)) => \A o \in Requests : Arrived(o)'
         /\ \A o \in Requests \ {r} : Changes(o, "tell")' <=> Changes(o, "tell")
         /\ ~Flying(r)' /\ \A o \in Requests : Flying(o)' => Flying(o) /\ changing'[o] = changing[o]
  <1>1. ~Flying(r)' /\ \A q \in Requests \ {r} : changing'[q] = changing[q]
    BY DEF ChangingType, Flying
  <1>2. \A o \in Requests : Flying(o)' => Flying(o) /\ changing'[o] = changing[o]
    BY <1>1 DEF Flying
  <1>3. ASSUME NEW o \in Requests PROVE Companions(o)'
    BY <1>2, <1>3 DEF RoleInv, Companions
  <1>4. ASSUME NEW o \in Requests PROVE TellsTheRoles(o)'
    BY <1>2, <1>4 DEF RoleInv, TellsTheRoles, Changes, Flying
  <1>5. OneWay => OneWay'
    BY <1>2 DEF OneWay
  <1>6. (\A o \in Requests : Arrived(o)) => \A o \in Requests : Arrived(o)'
    BY <1>2 DEF Arrived
  <1> QED
    BY <1>1, <1>2, <1>3, <1>4, <1>5, <1>6 DEF Changes

LEMMA RoleTellsInv ==
  ASSUME StandingTypes, RoleInv, NEW r \in Requests, RoleTells(r) PROVE RoleInv'
  <1>0. ChangingType /\ changing' = [changing EXCEPT ![r] = Idle] /\ UNCHANGED roles
    BY DEF StandingTypes, RoleTells
  <1>1. Flying(r) /\ Changes(r, "tell") /\ changing[r] \in RoleRow
    BY <1>0, FlyingRow DEF RoleTells, Changes, Flying
  <1>2. Told' <=> changing[r].enabled
    BY <1>1 DEF RoleTells, Told, RoleRow
  <1>3. ASSUME ~crossed' PROVE Uncrossed'
    <2>1. CASE ~crossed
      <3>1. Uncrossed
        BY <2>1 DEF RoleInv
      <3>2. OneWay' /\ \A o \in Requests : Arrived(o)'
        BY <1>0, <3>1, RoleLeaves DEF Uncrossed
      <3>3. Moderates(roles) <=> changing[r].enabled
        BY <1>1, <3>1 DEF Uncrossed, Arrived, Changes
      <3> QED
        BY <1>0, <1>2, <3>2, <3>3 DEF Uncrossed, ToldOrTelling
    <2>2. CASE ~changing[r].opposed
      <3>1. Moderates(roles) <=> changing[r].enabled
        BY <1>1, <2>2 DEF RoleInv, TellsTheRoles
      <3>2. \A q \in Requests : Flying(q)' => (changing'[q].enabled <=> changing[r].enabled)
        BY <1>0, <1>1, <2>2, RoleLeaves DEF RoleInv, Companions
      <3>3. Moderates(roles)' <=> changing[r].enabled
        BY <1>0, <3>1
      <3>4. OneWay'
        BY <3>2 DEF OneWay
      <3>5. \A o \in Requests : Arrived(o)'
        BY <3>2, <3>3 DEF Arrived
      <3> QED
        BY <1>2, <3>3, <3>4, <3>5 DEF Uncrossed, ToldOrTelling
    <2> QED
      BY <1>3, <2>1, <2>2 DEF RoleTells
  <1> QED
    BY <1>0, <1>3, RoleLeaves DEF RoleInv

LEMMA RoleDiesInv ==
  ASSUME StandingTypes, RoleInv, NEW r \in Requests, RoleDies(r) PROVE RoleInv'
  <1>0. ChangingType /\ changing' = [changing EXCEPT ![r] = Idle] /\ UNCHANGED <<roles, roleTold>>
    BY DEF StandingTypes, RoleDies
  <1>1. ASSUME ~crossed' PROVE Uncrossed'
    <2>1. ~crossed /\ ~Changes(r, "tell")
      BY <1>1 DEF RoleDies, Changes
    <2>2. Uncrossed
      BY <2>1 DEF RoleInv
    <2>3. OneWay' /\ \A o \in Requests : Arrived(o)'
      BY <1>0, <2>2, RoleLeaves DEF Uncrossed
    <2>4. \A o \in Requests : Changes(o, "tell") => Changes(o, "tell")'
      BY <1>0, <2>1, RoleLeaves
    <2>5. ToldOrTelling'
      BY <1>0, <2>2, <2>4 DEF Uncrossed, ToldOrTelling, Told
    <2> QED
      BY <2>3, <2>5 DEF Uncrossed
  <1> QED
    BY <1>0, <1>1, RoleLeaves DEF RoleInv
LEMMA NextRoleInv ==
  ASSUME StandingTypes, RoleInv, [StandingNext]_allVars PROVE RoleInv'
  <1>1. CASE UNCHANGED roleVars
    BY <1>1 DEF roleVars, RoleInv, Companions, TellsTheRoles, Uncrossed, OneWay, Arrived,
                ToldOrTelling, Told, Flying, Changes
  <1>2. CASE \E r \in Requests : RoleStep(r)
    <2>1. PICK r \in Requests : RoleStep(r)
      BY <1>2
    <2>2. CASE RoleReads(r)
      BY <2>2, RoleReadsEffect, RoleReadsInv DEF StandingTypes
    <2> QED
      BY <2>1, <2>2, RoleWritesInv, RoleTellsInv, RoleDiesInv DEF RoleStep
  <1> QED
    BY <1>1, <1>2, OtherSteps DEF standingVars

-----------------------------------------------------------------------------
(* Onboarding tours *)

\* A row says what was finished since the last reset: the newest version, or an older one
\* that was reported after it.
TourFits(p) ==
  /\ tour[p].status = "not_started" <=> finished[p] = 0
  /\ finished[p] # 0 =>
       /\ tour[p].version <= finished[p]
       /\ p \notin replayed => tour[p].version = finished[p]

TourInv == \A p \in Personas : TourFits(p)

LEMMA InitTourInv == ASSUME StandingInit PROVE TourInv
  BY DEF StandingInit, TourInv, TourFits, DefaultTour

LEMMA UpdateTourInv ==
  ASSUME StandingTypes, TourInv, NEW r \in Requests, UpdateTourWrites(r) PROVE TourInv'
  <1>0. TouringType /\ StandingTables
    BY DEF StandingTypes
  <1>1. touring[r] \in TourReport
    BY <1>0, TouringRow DEF UpdateTourWrites
  <1>2. PICK p \in Personas, v \in Versions : p = touring[r].persona /\ v = touring[r].version
    BY <1>1 DEF TourReport
  <1>3. v \in Nat /\ v >= 1 /\ finished[p] \in Nat
    BY <1>0, VersionAssumption DEF Versions, StandingTables
  <1>4. touring[r].status # "not_started"
    BY DEF UpdateTourWrites, FinishedStatus
  <1>5. /\ tour'[p] = [status |-> touring[r].status, version |-> v]
        /\ \A o \in Personas \ {p} : tour'[o] = tour[o]
    BY <1>0, <1>2 DEF UpdateTourWrites, UpdatedTour, StandingTables
  <1>6. /\ finished'[p] = IF v < finished[p] THEN finished[p] ELSE v
        /\ \A o \in Personas \ {p} : finished'[o] = finished[o]
    BY <1>0, <1>2 DEF UpdateTourWrites, StandingTables
  <1>7. /\ p \in replayed' <=> v < finished[p]
        /\ \A o \in Personas \ {p} : o \in replayed' <=> o \in replayed
    BY <1>2 DEF UpdateTourWrites
  <1>8. TourFits(p)'
    BY <1>3, <1>4, <1>5, <1>6, <1>7 DEF TourFits
  <1>9. ASSUME NEW o \in Personas \ {p} PROVE TourFits(o)'
    BY <1>5, <1>6, <1>7, <1>9 DEF TourInv, TourFits
  <1> QED
    BY <1>8, <1>9 DEF TourInv

LEMMA ResetTourInv ==
  ASSUME StandingTypes, TourInv, NEW r \in Requests, ResetTourWrites(r) PROVE TourInv'
  <1>0. TouringType /\ StandingTables
    BY DEF StandingTypes
  <1>1. PICK p \in Personas : p = touring[r].persona
    BY <1>0, TouringRow DEF ResetTourWrites, TourReport
  <1>2. tour' = [tour EXCEPT ![p] = [tour[p] EXCEPT !.status = "not_started"]]
    BY <1>1 DEF ResetTourWrites
  <1>3. finished' = [finished EXCEPT ![p] = 0] /\ replayed' = replayed \ {p}
    BY <1>1 DEF ResetTourWrites
  <1>4. tour'[p].status = "not_started" /\ finished'[p] = 0
    BY <1>0, <1>2, <1>3 DEF StandingTables, TourRow
  <1>5. ASSUME NEW o \in Personas \ {p} PROVE TourFits(o)'
    BY <1>0, <1>2, <1>3, <1>5 DEF TourInv, TourFits, StandingTables
  <1> QED
    BY <1>4, <1>5 DEF TourInv, TourFits

LEMMA NextTourInv ==
  ASSUME StandingTypes, TourInv, [StandingNext]_allVars PROVE TourInv'
  <1>1. CASE UNCHANGED <<tour, finished, replayed>>
    BY <1>1 DEF TourInv, TourFits
  <1>2. CASE \E r \in Requests : TourStep(r)
    BY <1>1, <1>2, UpdateTourInv, ResetTourInv
       DEF TourStep, UpdateTourReads, ResetTourReads, ReportBegins, TourDies
  <1> QED
    BY <1>1, <1>2, OtherSteps DEF standingVars, tourVars

-----------------------------------------------------------------------------
(* The standing of the user: theorems *)

StandingInv == StandingTypes /\ RoleInv /\ TourInv

LEMMA StandingInvCorrect == StandingSpec => []StandingInv
  <1>1. StandingInit => StandingInv
    BY InitStandingTypes, InitRoleInv, InitTourInv DEF StandingInv
  <1>2. StandingInv /\ [StandingNext]_allVars => StandingInv'
    BY NextStandingTypes, NextRoleInv, NextTourInv DEF StandingInv
  <1> QED
    BY <1>1, <1>2, PTL DEF StandingSpec

\* Beside his records, the roles, tours and requests about them keep their types.
THEOREM StandingTypeCorrect == StandingSpec => []StandingTypeOK
  <1>1. TypeOK /\ StandingInv => StandingTypeOK
    BY DEF StandingInv, StandingTypes, ChangingType, TouringType, StandingTables, StandingTypeOK
  <1> QED
    BY <1>1, RecordsAreUndisturbed, TypeCorrect, StandingInvCorrect, PTL

\* Unless opposite changes overlap or a change dies before it notifies, the last
\* notification says what the catalogue of users, /me and the doors for moderators say
\* (setUserModeratorRole), however many changes overlap.
THEOREM RoleWasToldCorrect == StandingSpec => []RoleWasTold
  <1>1. StandingInv => RoleWasTold
    <2> SUFFICES ASSUME StandingInv, ~crossed, \A r \in Requests : ~Changes(r, "tell")
                 PROVE  /\ \A item \in GetUsersCatalog \cup {GetMe} : Moderates(item.roles) <=> Told
                        /\ account = "LIVE" =>
                             /\ RequireAdminOrModerator <=> Told \/ RequireAdmin
                             /\ LoadAdminOrModeratorStatus <=> Told \/ RequireAdmin
      BY DEF RoleWasTold, Told
    <2>1. Told <=> Moderates(roles)
      BY DEF StandingInv, RoleInv, Uncrossed, ToldOrTelling
    <2>2. \A item \in GetUsersCatalog \cup {GetMe} : item.roles = roles
      BY DEF GetUsersCatalog, MapUserCatalogItem, GetMe
    <2>3. Moderates(roles) \/ HasAnyRole({"ADMIN"}) <=> HasAnyRole({"ADMIN", "MODERATOR"})
      BY DEF Moderates, HasAnyRole
    <2> QED
      BY <2>1, <2>2, <2>3 DEF RequireAdminOrModerator, RequireAdmin, LoadAdminOrModeratorStatus,
                             OptionalAuth, Authenticated
  <1> QED
    BY <1>1, StandingInvCorrect, PTL

\* A finished tour is not shown again in the same or an older version, unless an older
\* client reported later, and none is held back that was not finished, for any number of
\* versions and overlapping reports (updateMyOnboardingState, checkShouldShowOnboarding).
THEOREM TourIsNotRepeatedCorrect == StandingSpec => []TourIsNotRepeated
  <1>1. StandingInv => TourIsNotRepeated
    <2> SUFFICES ASSUME StandingInv, NEW p \in Personas, NEW version \in Versions
                 PROVE  /\ p \notin replayed /\ version <= finished[p] =>
                             ~CheckShouldShowOnboarding(p, version)
                        /\ ~CheckShouldShowOnboarding(p, version) => version <= finished[p]
      BY DEF TourIsNotRepeated
    <2>1. TourFits(p) /\ StandingTables
      BY DEF StandingInv, TourInv, StandingTypes
    <2>2. version \in Nat /\ version >= 1 /\ finished[p] \in Nat /\ tour[p].version \in Nat
      BY <2>1, VersionAssumption DEF StandingTables, TourRow, Versions
    <2> QED
      BY <2>1, <2>2 DEF TourFits, CheckShouldShowOnboarding, GetMyOnboardingState
  <1> QED
    BY <1>1, StandingInvCorrect, PTL
=============================================================================
