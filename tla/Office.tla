------------------------------- MODULE Office -------------------------------
(***************************************************************************)
(* The components of the office.  They share no state, so each behaviour   *)
(* is one of a single component: part says of which, and v1 .. v8 are its  *)
(* variables.                                                              *)
(***************************************************************************)
EXTENDS Integers, Sequences, FiniteSets

CONSTANTS
  Requests, Processes,         \* requests served at the same time; web processes
  Cands, Placed, NoOne,        \* candidates, and those of them with a placement
  Slots, Kind, Limit,                                    \* Documents
  DOC_TYPES,                                             \* Kyc
  Steps, DEFAULT_REMINDER_DAY, REPEAT_DAYS, GRACE_DAYS,  \* Reminders
  TemplateSlots, HOURS, WEEK, MONTHS, FIRST_DAY, Fires,  \* Schedules
  Names, FOLLOW_UP_CHECKPOINTS,                          \* FollowUps
  Tasks, Dispositions, PROTECTED_DISPOSITION_CODES, Durations,  \* CallCentre
  OTP_RESEND_COOLDOWN_SECONDS, OtpValidity,              \* StaffAccess
  max_attempts, window_seconds,                          \* RateLimits
  Users, Roles, NoRole, NoUser, PermissionCodes, org_role_manage,
  PERMISSION_CACHE_SECONDS,                              \* Permissions
  DEFAULT_TTL_SECONDS,                                   \* ReportCache
  Batches, NoBatch, Dates, MARKS, present,               \* Attendance
  VacancyIds, Salaries,                                  \* Vacancies
  Organizations, global, default_enabled,                \* FeatureFlags
  Organization, _BREACH_MAX_RECIPIENTS,                  \* BreachNotices
  Bound   \* the bounds of each component by name

VARIABLES part, v1, v2, v3, v4, v5, v6, v7, v8

vars == <<part, v1, v2, v3, v4, v5, v6, v7, v8>>

SU == INSTANCE Support WITH Cands <- Placed, MaxTickets <- Bound.tickets,
        active <- v1, feedback <- v2, told <- v3, tickets <- v4, forms <- v5, answers <- v6,
        raced <- v7

DO == INSTANCE Documents WITH Uploads <- Requests, MaxFiles <- Bound.stored,
        row <- v1, disk <- v2, next <- v3, work <- v4, lost <- v5

KY == INSTANCE Kyc WITH MaxRows <- Bound.documents, MaxFiles <- Bound.files,
        rows <- v1, status <- v2, files <- v3, work <- v4, alone <- v5, raced <- v6

RM == INSTANCE Reminders WITH Cands <- Placed, MaxDay <- Bound.days,
        day <- v1, step <- v2, joined <- v3, missing <- v4, logged <- v5, run <- v6, mails <- v7,
        twice <- v8

SC == INSTANCE Schedules WITH Slots <- TemplateSlots, MaxHour <- Bound.hours,
        hour <- v1, template <- v2, rows <- v3, run <- v4, served <- v5, passed <- v6, again <- v7

FU == INSTANCE FollowUps WITH Cands <- Placed, MaxDay <- Bound.today, MaxMade <- Bound.made,
        full_name <- v1, joining_date <- v2, today <- v3, checkpoints <- v4, notifications <- v5,
        made <- v6, work <- v7, raced <- v8

CC == INSTANCE CallCentre WITH MaxEdits <- Bound.edits,
        task_status <- v1, active <- v2, logs <- v3, forms <- v4, overlapped <- v5

SA == INSTANCE StaffAccess WITH Browsers <- Requests,
        MaxNow <- Bound.logins_now, MaxCodes <- Bound.codes, MaxSessions <- Bound.sessions,
        now <- v1, is_active <- v2, deactivated_by <- v3, barred <- v4, codes <- v5, sessions <- v6,
        browser <- v7, crowded <- v8

AT == INSTANCE ApiTokens WITH MaxTokens <- Bound.tokens,
        allowed <- v1, tokens <- v2, requests <- v3

RL == INSTANCE RateLimits WITH MaxNow <- Bound.attempts_now, MaxCount <- Bound.attempts,
        now <- v1, count <- v2, expires <- v3, requests <- v4, refused <- v5, killed <- v6

PE == INSTANCE Permissions WITH MaxNow <- Bound.permissions_now,
        now <- v1, role_permissions <- v2, is_deleted <- v3, role_of <- v4, overrides <- v5,
        permcache <- v6, requests <- v7, lost <- v8

RC == INSTANCE ReportCache WITH MaxNow <- Bound.reports_now, MaxData <- Bound.data,
        now <- v1, data <- v2, redis <- v3, client <- v4, entry <- v5, doing <- v6

AD == INSTANCE Attendance WITH STATUSES <- MARKS,
        batches <- v1, batch_of <- v2, attendance <- v3, sheets <- v4

VA == INSTANCE Vacancies WITH Ids <- VacancyIds,
        employer <- v1, vacancies <- v2, saves <- v3, mixed <- v4

FF == INSTANCE FeatureFlags WITH
        rows <- v1, toggles <- v2, asked <- v3, crossed <- v4

BN == INSTANCE BreachNotices WITH MaxNotices <- Bound.notices,
        reachable <- v1, notices <- v2, work <- v3, email_logs <- v4, delivered <- v5,
        broken <- v6, unlogged <- v7

ASSUME OfficeAssumption ==
  /\ SU!SupportAssumption /\ DO!DocumentsAssumption /\ KY!KycAssumption
  /\ RM!RemindersAssumption /\ SC!SchedulesAssumption /\ FU!FollowUpsAssumption
  /\ CC!CallCentreAssumption /\ SA!StaffAccessAssumption /\ AT!ApiTokensAssumption
  /\ RL!RateLimitsAssumption /\ PE!PermissionsAssumption /\ RC!ReportCacheAssumption
  /\ AD!AttendanceAssumption /\ VA!VacanciesAssumption /\ FF!FeatureFlagsAssumption
  /\ BN!BreachNoticesAssumption

After3 == <<v4, v5, v6, v7, v8>>
After4 == <<v5, v6, v7, v8>>
After5 == <<v6, v7, v8>>
After6 == <<v7, v8>>

Init ==
  \/ part = "Support"      /\ SU!Init /\ v8 = 0
  \/ part = "Documents"    /\ DO!Init /\ v6 = 0 /\ v7 = 0 /\ v8 = 0
  \/ part = "Kyc"          /\ KY!Init /\ v7 = 0 /\ v8 = 0
  \/ part = "Reminders"    /\ RM!Init
  \/ part = "Schedules"    /\ SC!Init /\ v8 = 0
  \/ part = "FollowUps"    /\ FU!Init
  \/ part = "CallCentre"   /\ CC!Init /\ v6 = 0 /\ v7 = 0 /\ v8 = 0
  \/ part = "StaffAccess"  /\ SA!Init
  \/ part = "ApiTokens"    /\ AT!Init /\ v4 = 0 /\ v5 = 0 /\ v6 = 0 /\ v7 = 0 /\ v8 = 0
  \/ part = "RateLimits"   /\ RL!Init /\ v7 = 0 /\ v8 = 0
  \/ part = "Permissions"  /\ PE!Init
  \/ part = "ReportCache"  /\ RC!Init /\ v7 = 0 /\ v8 = 0
  \/ part = "Attendance"   /\ AD!Init /\ v5 = 0 /\ v6 = 0 /\ v7 = 0 /\ v8 = 0
  \/ part = "Vacancies"    /\ VA!Init /\ v5 = 0 /\ v6 = 0 /\ v7 = 0 /\ v8 = 0
  \/ part = "FeatureFlags" /\ FF!Init /\ v5 = 0 /\ v6 = 0 /\ v7 = 0 /\ v8 = 0
  \/ part = "BreachNotices" /\ BN!Init /\ v8 = 0

Next ==
  \/ part = "Support"         /\ SU!Next /\ UNCHANGED <<part, v8>>
  \/ part = "Documents"       /\ DO!Next /\ UNCHANGED <<part, After5>>
  \/ part = "Kyc"             /\ KY!Next /\ UNCHANGED <<part, After6>>
  \/ part = "Reminders"       /\ RM!Next /\ UNCHANGED part
  \/ part = "Schedules"       /\ SC!Next /\ UNCHANGED <<part, v8>>
  \/ part = "FollowUps"       /\ FU!Next /\ UNCHANGED part
  \/ part = "CallCentre"      /\ CC!Next /\ UNCHANGED <<part, After5>>
  \/ part = "StaffAccess"     /\ SA!Next /\ UNCHANGED part
  \/ part = "ApiTokens"       /\ AT!Next /\ UNCHANGED <<part, After3>>
  \/ part = "RateLimits"      /\ RL!Next /\ UNCHANGED <<part, After6>>
  \/ part = "Permissions"     /\ PE!Next /\ UNCHANGED part
  \/ part = "ReportCache"     /\ RC!Next /\ UNCHANGED <<part, After6>>
  \/ part = "Attendance"      /\ AD!Next /\ UNCHANGED <<part, After4>>
  \/ part = "Vacancies"       /\ VA!Next /\ UNCHANGED <<part, After4>>
  \/ part = "FeatureFlags"    /\ FF!Next /\ UNCHANGED <<part, After4>>
  \/ part = "BreachNotices"   /\ BN!Next /\ UNCHANGED <<part, v8>>

Spec == Init /\ [][Next]_vars

\* The variables of each component have their types.
TypeOK ==
  /\ part = "Support"     => SU!TypeOK
  /\ part = "Documents"   => DO!TypeOK
  /\ part = "Kyc"         => KY!TypeOK
  /\ part = "Reminders"   => RM!TypeOK
  /\ part = "Schedules"   => SC!TypeOK
  /\ part = "FollowUps"   => FU!TypeOK
  /\ part = "CallCentre"  => CC!TypeOK
  /\ part = "StaffAccess" => SA!TypeOK
  /\ part = "ApiTokens"   => AT!TypeOK
  /\ part = "RateLimits"  => RL!TypeOK
  /\ part = "Permissions" => PE!TypeOK
  /\ part = "ReportCache" => RC!TypeOK
  /\ part = "Attendance"  => AD!TypeOK
  /\ part = "Vacancies"   => VA!TypeOK
  /\ part = "FeatureFlags" => FF!TypeOK
  /\ part = "BreachNotices" => BN!TypeOK

\* What only a unique key of the database keeps, whichever requests overlap: one
\* feedback of a candidate, one successor of a refresh token, one mark a day, one
\* override of a feature.
KeysHold ==
  /\ part = "Support"    => SU!OneFeedback
  /\ part = "ApiTokens"  => AT!RefreshedOnce
  /\ part = "Attendance" => AD!MarkedOnce
  /\ part = "FeatureFlags" => FF!OneRow

\* What a form asks for holds of the rows as well, which several forms wrote, where the
\* components do not name what went wrong: a rejected ticket gives a reason and a closed
\* one its date, a vacancy's salaries are in order, a feature is on as it was last asked
\* for, the numbers of a notice account for its recipients.
FormRulesKept ==
  /\ part = "Support"      => SU!ClosedTicketsAnswered
  /\ part = "Vacancies"    => VA!SalaryRange
  /\ part = "FeatureFlags" => FF!FlagsAsAsked
  /\ part = "BreachNotices" => BN!NoticeAccounted

\* Documents: the file that a row names is on disk, unless it is a salary slip whose
\* commit was not answered.
FilesKept == part = "Documents" => DO!FilesKept

\* Kyc: the organization's status follows from its documents.
KycStatusFollows == part = "Kyc" => KY!KycStatusFollows

\* Reminders: a reminder that was sent is not sent again.
ReminderOnce == [][part = "Reminders" => RM!SentOnce]_vars

\* Reminders: two of them are some days apart.
RemindersApart == part = "Reminders" => RM!RemindersApart

\* Schedules: one run in each period.
OncePerPeriod == part = "Schedules" => SC!OncePerPeriod

\* Schedules: a run in each period.
EveryPeriod == part = "Schedules" => SC!EveryPeriod

\* Follow-ups: each checkpoint of a candidate once.
OneCheckpointEach == part = "FollowUps" => FU!OneCheckpointEach

\* Follow-ups: one notification of an overdue checkpoint; one notice of a data
\* breach to each candidate.
ToldOnce ==
  /\ part = "FollowUps"     => FU!OverdueToldOnce
  /\ part = "BreachNotices" => BN!SentOnce

\* Call centre: one log of a call.
LoggedOnce == part = "CallCentre" => CC!LoggedOnce

\* Call centre: the corrections lead from what was entered to what is shown.
CorrectionsKept == part = "CallCentre" => CC!CorrectionsKept

\* Staff: deactivated by the organization is logged out everywhere.
LoggedOutAtOnce == part = "StaffAccess" => SA!LoggedOutAtOnce

\* Staff: the cooldown bounds the codes that are valid together.
FewCodes == part = "StaffAccess" => SA!FewCodes

\* Roles and reports: an outdated cache entry has one of a few named causes.
CachesKeepUp ==
  /\ part = "Permissions" => PE!ChangesTakeEffect
  /\ part = "ReportCache" => RC!ReportsKeepUp

\* Rate limits: a key that counts attempts has an end.
WindowEnds == part = "RateLimits" => RL!WindowEnds
==============================================================================
