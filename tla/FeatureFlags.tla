---------------------------- MODULE FeatureFlags ----------------------------
(***************************************************************************)
(* The flags of one feature (utils/feature_flags.py): the default that the *)
(* code has, the super admin's default for everybody, and the override of  *)
(* an organization.  A toggle looks for its row first and commits then: a  *)
(* new row, or the column of the one it found when its value changes.      *)
(***************************************************************************)
EXTENDS Integers, Sequences

CONSTANTS
  Organizations,
  global,          \* the owner of the super admin's default
  default_enabled, \* AVAILABLE_FEATURES
  Requests

FeatureFlagsAssumption == global \notin Organizations /\ default_enabled \in BOOLEAN

Owners == Organizations \cup {global}

VARIABLES
  rows,     \* organization_features and feature_flag_defaults: is_enabled, oldest row first
  toggles,  \* what each request is to commit
  asked,    \* history: what the last toggle that was saved asked for
  crossed   \* history: owners whose last toggles overlapped, or one of them died

vars == <<rows, toggles, asked, crossed>>

NoToggle == [owner |-> global, found |-> FALSE, old |-> FALSE, new |-> FALSE, busy |-> FALSE]

TypeOK ==
  /\ rows \in [Owners -> Seq(BOOLEAN)]
  /\ asked \in [Owners -> {<<>>, <<TRUE>>, <<FALSE>>}] /\ crossed \subseteq Owners
  /\ toggles \in [Requests ->
       [owner : Owners, found : BOOLEAN, old : BOOLEAN, new : BOOLEAN, busy : BOOLEAN]]

Init ==
  /\ rows = [o \in Owners |-> <<>>] /\ asked = [o \in Owners |-> <<>>] /\ crossed = {}
  /\ toggles = [r \in Requests |-> NoToggle]

------------------------------------------------------------------------------

_effective_default(now) == IF now[global] # <<>> THEN now[global][1] ELSE default_enabled

\* Mutant: the super admin's default comes first.
DefaultFirst(now, o) ==
  IF now[global] # <<>> THEN now[global][1]
  ELSE IF now[o] # <<>> THEN now[o][1] ELSE default_enabled

is_feature_enabled(now, o) == IF now[o] # <<>> THEN now[o][1] ELSE _effective_default(now)

Toggling(o) == {r \in Requests : toggles[r].busy /\ toggles[r].owner = o}

\* super_admin_organization_feature_toggle, super_admin_feature_flag_toggle
Toggle(r, o, value) ==
  /\ ~toggles[r].busy
  /\ toggles' = [toggles EXCEPT ![r] =
       [owner |-> o, found |-> rows[o] # <<>>, old |-> rows[o] # <<>> /\ rows[o][1], new |-> value, busy |-> TRUE]]
  /\ crossed' = IF Toggling(o) = {} THEN crossed \ {o} ELSE crossed \cup {o}
  /\ UNCHANGED <<rows, asked>>

\* Mutant: no key keeps a second row out.
NoKey(o) == TRUE

\* uq_org_feature, and the primary key of the defaults
KeyFree(o) == rows[o] = <<>>

\* set_organization_feature, set_global_feature_default
Save(r) ==
  LET q == toggles[r] IN
  /\ q.busy
  /\ \/ /\ q.found
        /\ rows' = IF q.old # q.new THEN [rows EXCEPT ![q.owner][1] = q.new] ELSE rows
     \/ /\ ~q.found /\ KeyFree(q.owner)
        /\ rows' = [rows EXCEPT ![q.owner] = Append(@, q.new)]
  /\ toggles' = [toggles EXCEPT ![r] = NoToggle]
  /\ asked' = [asked EXCEPT ![q.owner] = <<q.new>>]
  /\ UNCHANGED crossed

\* The key is taken and the page fails, or the worker is killed
Lost(r) ==
  /\ toggles[r].busy
  /\ toggles' = [toggles EXCEPT ![r] = NoToggle]
  /\ crossed' = crossed \cup {toggles[r].owner}
  /\ UNCHANGED <<rows, asked>>

Next ==
  \/ \E r \in Requests, o \in Owners, value \in BOOLEAN : Toggle(r, o, value)
  \/ \E r \in Requests : Save(r) \/ Lost(r)

Spec == Init /\ [][Next]_vars

------------------------------------------------------------------------------
(* Properties                                                               *)

\* An organization has one override of a feature and everybody one default, however
\* many first toggles overlap.
OneRow == \A o \in Owners : Len(rows[o]) <= 1

\* "An individual organization override still always wins": the feature is on as the
\* organization's last toggle asked, else the super admin's, else the code, unless
\* the last toggles of one of them overlapped.
FlagsAsAsked ==
  \A o \in Organizations :
    ({o, global} \cap crossed = {} /\ Toggling(o) \cup Toggling(global) = {}) =>
      is_feature_enabled(rows, o) =
        IF asked[o] # <<>> THEN asked[o] = <<TRUE>>
        ELSE IF asked[global] # <<>> THEN asked[global] = <<TRUE>> ELSE default_enabled

------------------------------------------------------------------------------
(* The invariant behind them                                                *)

\* Of an owner whose toggles did not overlap: the one under way is alone and what it
\* has read is so, and without one the row says what was asked for
Settled(o) ==
  /\ \A q, r \in Toggling(o) : q = r
  /\ \A r \in Toggling(o) : toggles[r].found = (rows[o] # <<>>) /\ (toggles[r].found => toggles[r].old = rows[o][1])
  /\ Toggling(o) = {} => rows[o] = asked[o]

IInv ==
  /\ TypeOK /\ OneRow
  /\ \A r \in Requests : toggles[r].busy /\ toggles[r].found => rows[toggles[r].owner] # <<>>
  /\ \A o \in Owners \ crossed : Settled(o)
==============================================================================
