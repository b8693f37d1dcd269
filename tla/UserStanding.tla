---------------------------- MODULE UserStanding ----------------------------
(***************************************************************************)
(* What is recorded about one user beside his own records: whether he is a *)
(* moderator, which an administrator decides, and which onboarding tours   *)
(* he has finished, which his clients report, under overlapping requests.  *)
(*                                                                         *)
(* setUserModeratorRole reads the roles, writes the whole array back and   *)
(* then notifies the user, without a transaction.  A tour is reported by   *)
(* persona and version: the profile is looked up and one row is upserted.  *)
(* A row of user_onboarding_states that is missing reads as its default.   *)
(* A behaviour serves the requests of AccountRecords.tla, changes of the   *)
(* role, or reports of tours, which is chosen at the start; the last two   *)
(* come with the creation and the deactivation of what they read.          *)
(***************************************************************************)
EXTENDS AccountRecords

CONSTANT MaxVersion   \* bound: versions of the tour

ASSUME VersionAssumption == MaxVersion \in Nat \ {0}

VARIABLES
  serving,   \* which requests come, chosen at the start
  roles,     \* users.roles
  roleTold,  \* type of the last notification about his role
  changing,  \* [Requests -> {Idle} or a change of the role]
  crossed,   \* history: opposite changes overlapped, or one died before it notified, and
             \* none that no opposite one overlapped has notified since
  tour,      \* [Personas -> a row of user_onboarding_states]
  touring,   \* [Requests -> {Idle} or a report of a tour]
  finished,  \* history: the newest tour finished since the last reset, 0 if none
  replayed   \* history: personas whose last report was of an older tour than that

roleVars     == <<roles, roleTold, changing, crossed>>
tourVars     == <<tour, touring, finished, replayed>>
standingVars == <<serving, roleVars, tourVars>>
allVars      == <<vars, standingVars>>

Services   == {"records", "roles", "tours"}
Roles      == {"USER", "MODERATOR", "ADMIN"}
RoleNotice == {"MODERATOR_ROLE_GRANTED", "MODERATOR_ROLE_REVOKED"}
NoNotice   == "NOTHING"

\* found: the roles it has read; opposed is history: an opposite change overlapped it.
RoleRow == [at : {"write", "tell"}, enabled : BOOLEAN, found : SUBSET Roles, opposed : BOOLEAN]

Versions       == 1..MaxVersion
FinishedStatus == {"completed", "skipped"}
TourStatus     == FinishedStatus \cup {"not_started"}
TourRow        == [status : TourStatus, version : Versions]
TourReport     == [persona : Personas, status : TourStatus, version : Versions]

\* DEFAULT_ROLE_STATE
DefaultTour == [status |-> "not_started", version |-> 1]

ASSUME IdleAssumption == Idle \notin RoleRow /\ Idle \notin TourReport

StandingInit ==
  /\ Init
  /\ serving \in Services /\ (serving # "records" => group = "profile")
  /\ roles \in {{"USER"}, {"USER", "ADMIN"}} /\ (serving # "roles" => roles = {"USER"})
  /\ roleTold = NoNotice /\ crossed = FALSE
  /\ changing = [r \in Requests |-> Idle]
  /\ tour = [p \in Personas |-> DefaultTour]
  /\ touring = [r \in Requests |-> Idle]
  /\ finished = [p \in Personas |-> 0] /\ replayed = {}

-----------------------------------------------------------------------------
(* The role of a moderator *)

Moderates(someRoles) == "MODERATOR" \in someRoles

\* The roles that setUserModeratorRole writes, without duplicates.
NextRoles(someRoles, enabled) ==
  (IF enabled THEN someRoles \cup {"MODERATOR"} ELSE someRoles \ {"MODERATOR"}) \cup {"USER"}

Changes(r, at) == changing[r] # Idle /\ changing[r].at = at

\* The changes in flight that want the opposite.
Opposing(enabled) == {q \in Requests : changing[q] # Idle /\ changing[q].enabled # enabled}

RoleReads(r) ==
  /\ serving = "roles" /\ changing[r] = Idle /\ req[r] = Idle
  /\ \E enabled \in BOOLEAN :
       /\ changing' = [q \in Requests |->
            IF q = r THEN [at |-> "write", enabled |-> enabled, found |-> roles,
                           opposed |-> Opposing(enabled) # {}]
            ELSE IF q \in Opposing(enabled) THEN [changing[q] EXCEPT !.opposed = TRUE]
            ELSE changing[q]]
       /\ crossed' = (crossed \/ Opposing(enabled) # {})
  /\ UNCHANGED <<vars, serving, roles, roleTold, tourVars>>

\* The mutant of IsChange: whoever is granted the role is notified, changed or not.
IsGranted(found, enabled) == enabled
IsChange(found, enabled)  == Moderates(found) # enabled

\* Only a change of what it has read is followed by a notification.
RoleWrites(r) ==
  /\ Changes(r, "write")
  /\ roles' = NextRoles(changing[r].found, changing[r].enabled)
  /\ changing' = IF IsChange(changing[r].found, changing[r].enabled)
                 THEN [changing EXCEPT ![r].at = "tell"] ELSE [changing EXCEPT ![r] = Idle]
  /\ UNCHANGED <<vars, serving, roleTold, crossed, tourVars>>

RoleTells(r) ==
  /\ Changes(r, "tell")
  /\ roleTold' = IF changing[r].enabled THEN "MODERATOR_ROLE_GRANTED"
                 ELSE "MODERATOR_ROLE_REVOKED"
  /\ crossed' = (crossed /\ changing[r].opposed)
  /\ changing' = [changing EXCEPT ![r] = Idle]
  /\ UNCHANGED <<vars, serving, roles, tourVars>>

\* A statement fails or the process stops.
RoleDies(r) ==
  /\ changing[r] # Idle
  /\ crossed' = (crossed \/ changing[r].at = "tell")
  /\ changing' = [changing EXCEPT ![r] = Idle]
  /\ UNCHANGED <<vars, serving, roles, roleTold, tourVars>>

-----------------------------------------------------------------------------
(* Onboarding tours *)

EnsureRoleProfileExists(p) == profile[p].exists

ReportBegins(r, p, status, version) ==
  /\ serving = "tours" /\ Authenticated
  /\ touring[r] = Idle /\ req[r] = Idle
  /\ EnsureRoleProfileExists(p)
  /\ touring' = [touring EXCEPT ![r] = [persona |-> p, status |-> status, version |-> version]]
  /\ UNCHANGED <<vars, serving, roleVars, tour, finished, replayed>>

UpdateTourReads(r) ==
  \E p \in Personas, status \in FinishedStatus, version \in Versions :
    ReportBegins(r, p, status, version)

ResetTourReads(r) == \E p \in Personas : ReportBegins(r, p, "not_started", 1)

\* The mutant of UpdatedTour: an existing row keeps its version, as a reset does.
UpdatedStatus(row, report) == [row EXCEPT !.status = report.status]

\* The upsert of updateMyOnboardingState does not look at the version that is there.
UpdatedTour(row, report) == [status |-> report.status, version |-> report.version]

UpdateTourWrites(r) ==
  /\ touring[r] # Idle /\ touring[r].status \in FinishedStatus
  /\ LET p == touring[r].persona
         older == touring[r].version < finished[p]
     IN /\ tour' = [tour EXCEPT ![p] = UpdatedTour(@, touring[r])]
        /\ finished' = IF older THEN finished ELSE [finished EXCEPT ![p] = touring[r].version]
        /\ replayed' = IF older THEN replayed \cup {p} ELSE replayed \ {p}
  /\ touring' = [touring EXCEPT ![r] = Idle]
  /\ UNCHANGED <<vars, serving, roleVars>>

ResetTourWrites(r) ==
  /\ touring[r] # Idle /\ touring[r].status = "not_started"
  /\ LET p == touring[r].persona
     IN /\ tour' = [tour EXCEPT ![p].status = "not_started"]
        /\ finished' = [finished EXCEPT ![p] = 0]
        /\ replayed' = replayed \ {p}
  /\ touring' = [touring EXCEPT ![r] = Idle]
  /\ UNCHANGED <<vars, serving, roleVars>>

TourDies(r) ==
  /\ touring[r] # Idle
  /\ touring' = [touring EXCEPT ![r] = Idle]
  /\ UNCHANGED <<vars, serving, roleVars, tour, finished, replayed>>

-----------------------------------------------------------------------------
(* What is answered about the user *)

GetMyOnboardingState == tour

\* checkShouldShowOnboarding, which, like a report, is refused without the profile.
CheckShouldShowOnboarding(p, version) ==
  LET state == GetMyOnboardingState[p]
  IN state.status = "not_started" \/ version > state.version

HasAnyRole(allowed) == roles \cap allowed # {}

\* Who may call what is for moderators; on public pages a deactivated user is a visitor.
RequireAdminOrModerator == Authenticated /\ HasAnyRole({"ADMIN", "MODERATOR"})
RequireAdmin            == Authenticated /\ HasAnyRole({"ADMIN"})
OptionalAuth            == account = "LIVE"
LoadAdminOrModeratorStatus == OptionalAuth /\ HasAnyRole({"ADMIN", "MODERATOR"})

\* GET /me
GetMe == [roles |-> roles, profiles |-> {p \in Personas : profile[p].exists},
          onboarding |-> GetMyOnboardingState]

\* The catalogue of users that administrators and moderators see: "the same user identity
\* and onboarding shape as the /me endpoint".
MapUserCatalogItem ==
  [roles |-> roles, profiles |-> {p \in Personas : profile[p].exists}, onboarding |-> tour]

GetUsersCatalog == IF account = "LIVE" THEN {MapUserCatalogItem} ELSE {}

-----------------------------------------------------------------------------
RecordsStep == serving = "records" /\ Next /\ UNCHANGED standingVars

AccountStep ==
  /\ \E r \in Requests :
       /\ changing[r] = Idle /\ touring[r] = Idle
       /\ \/ serving = "tours" /\ (CreateProfileReads(r) \/ CreateProfileWrites(r))
          \/ /\ serving \in {"roles", "tours"}
             /\ DeactivateReads(r) \/ DeactivateCommits(r) \/ DeactivateDeletes(r)
  /\ UNCHANGED standingVars

RoleStep(r) == RoleReads(r) \/ RoleWrites(r) \/ RoleTells(r) \/ RoleDies(r)

TourStep(r) ==
  \/ UpdateTourReads(r) \/ ResetTourReads(r)
  \/ UpdateTourWrites(r) \/ ResetTourWrites(r) \/ TourDies(r)

StandingNext ==
  RecordsStep \/ AccountStep \/ \E r \in Requests : RoleStep(r) \/ TourStep(r)

StandingSpec == StandingInit /\ [][StandingNext]_allVars

-----------------------------------------------------------------------------
(* Properties *)

StandingTypeOK ==
  /\ TypeOK
  /\ serving \in Services
  /\ roles \subseteq Roles /\ roleTold \in RoleNotice \cup {NoNotice} /\ crossed \in BOOLEAN
  /\ changing \in [Requests -> RoleRow \cup {Idle}]
  /\ tour \in [Personas -> TourRow]
  /\ touring \in [Requests -> TourReport \cup {Idle}]
  /\ finished \in [Personas -> 0..MaxVersion] /\ replayed \subseteq Personas

\* The last notification about his role says whether a user is a moderator: in what his
\* own page and the catalogue of users show, and at every door that is for moderators.
\* The exceptions are opposite changes that overlap and a change that dies before it
\* notifies, until a change that no opposite one overlaps notifies again.
RoleWasTold ==
  ~crossed /\ (\A r \in Requests : ~Changes(r, "tell")) =>
    LET told == roleTold = "MODERATOR_ROLE_GRANTED"
    IN /\ \A item \in GetUsersCatalog \cup {GetMe} : Moderates(item.roles) <=> told
       /\ account = "LIVE" =>
            /\ RequireAdminOrModerator <=> told \/ RequireAdmin
            /\ LoadAdminOrModeratorStatus <=> told \/ RequireAdmin

\* "Returns false if the user already completed or skipped onboarding for the same or
\* higher version": unless an older client has reported since.  The other way round no
\* tour is held back that was not finished since the last reset, in this or a newer
\* version, even then.
TourIsNotRepeated ==
  \A p \in Personas, version \in Versions :
    /\ p \notin replayed /\ version <= finished[p] => ~CheckShouldShowOnboarding(p, version)
    /\ ~CheckShouldShowOnboarding(p, version) => version <= finished[p]
=============================================================================
