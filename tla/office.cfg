SPECIFICATION Spec
CONSTANTS
  Requests = {r1, r2}
  Processes = {p1, p2}
  c1 = c1
  c2 = c2
  Cands = {c1, c2}
  Placed = {c1}
  NoOne = none
  Slots = {"slip", "column", "evidence", "proof"}
  Kind <- MCKind
  Limit = 2
  DOC_TYPES = {"pan", "gst"}
  Steps = {1, 2}
  DEFAULT_REMINDER_DAY = 1
  REPEAT_DAYS = 3
  GRACE_DAYS = 2
  TemplateSlots = {"s1"}
  HOURS = 2
  WEEK = 2
  MONTHS = 2
  FIRST_DAY <- MCFirstDay
  Fires = {1, 4}
  Names = {"n1"}
  FOLLOW_UP_CHECKPOINTS <- MCCheckpoints
  Tasks = {"t1"}
  Dispositions = {"d1", "d2", "hold"}
  PROTECTED_DISPOSITION_CODES = {"hold"}
  Durations = {1}
  OTP_RESEND_COOLDOWN_SECONDS = 1
  OtpValidity = 1
  max_attempts = 2
  window_seconds = 2
  Users = {"u1", "u2"}
  Roles = {"x"}
  NoRole = none
  NoUser = none
  PermissionCodes = {"org_role.manage"}
  org_role_manage = "org_role.manage"
  PERMISSION_CACHE_SECONDS = 1
  DEFAULT_TTL_SECONDS = 2
  Batches = {"b1", "b2"}
  NoBatch = none
  Dates = {"d1"}
  MARKS = {"present", "absent"}
  present = "present"
  VacancyIds = {"v1"}
  Salaries = {1, 2}
  Organizations = {"o1"}
  global = "everybody"
  default_enabled = TRUE
  Organization <- MCOrganization
  _BREACH_MAX_RECIPIENTS = 2
  Bound <- MCBound
SYMMETRY Symmetric
INVARIANTS TypeOK KeysHold FormRulesKept FilesKept KycStatusFollows RemindersApart
  OncePerPeriod EveryPeriod OneCheckpointEach ToldOnce LoggedOnce CorrectionsKept
  LoggedOutAtOnce FewCodes CachesKeepUp WindowEnds
PROPERTY ReminderOnce
CHECK_DEADLOCK FALSE
