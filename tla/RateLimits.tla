----------------------------- MODULE RateLimits ------------------------------
(***************************************************************************)
(* The attempts of one address at one form, counted under a key in Redis.  *)
(* The first attempt starts a window: it creates the key by counting and   *)
(* gives it its time to live by a second command.  Without Redis every     *)
(* attempt is let through.                                                 *)
(***************************************************************************)
EXTENDS Integers

CONSTANTS
  Requests,
  max_attempts, window_seconds,
  MaxNow, MaxCount  \* bounds

RateLimitsAssumption ==
  {max_attempts, window_seconds, MaxNow, MaxCount} \subseteq Nat \ {0}

VARIABLES
  now,
  count,     \* the key's value, 0 without a key
  expires,   \* when the key goes, 0 while it has no time to live
  requests,  \* what each request got from INCR and does next
  refused,   \* history: attempts turned away, and when the last one was
  killed     \* history: a request was killed, or lost Redis, between the two commands

vars == <<now, count, expires, requests, refused, killed>>

Idle == [next |-> "idle", count |-> 0]

TypeOK ==
  /\ now \in 0 .. MaxNow /\ count \in 0 .. MaxCount /\ killed \in BOOLEAN
  /\ expires \in 0 .. MaxNow + window_seconds /\ refused \in 0 .. MaxNow
  /\ requests \in [Requests -> {Idle} \cup [next : {"expire", "decide"}, count : 1 .. MaxCount]]

Init ==
  /\ now = 1 /\ count = 0 /\ expires = 0 /\ refused = 0 /\ killed = FALSE
  /\ requests = [r \in Requests |-> Idle]

\* Mutant: the window is meant to start with the second attempt.
SecondOnly(n) == n = 2

First(n) == n = 1

\* rate_limit: INCR
Incr(r) ==
  /\ requests[r] = Idle /\ count < MaxCount
  /\ count' = count + 1
  /\ requests' = [requests EXCEPT ![r] =
                    [next |-> IF First(count') THEN "expire" ELSE "decide", count |-> count']]
  /\ UNCHANGED <<now, expires, refused, killed>>

\* EXPIRE, which does nothing when the key is gone
Expire(r) ==
  /\ requests[r].next = "expire"
  /\ expires' = IF count = 0 THEN expires ELSE now + window_seconds
  /\ requests' = [requests EXCEPT ![r].next = "decide"]
  /\ UNCHANGED <<now, count, refused, killed>>

Decide(r) ==
  /\ requests[r].next = "decide"
  /\ refused' = IF requests[r].count > max_attempts THEN now ELSE refused
  /\ requests' = [requests EXCEPT ![r] = Idle]
  /\ UNCHANGED <<now, count, expires, killed>>

\* Redis is lost, which lets the attempt through, or the worker is killed
Lost(r) ==
  /\ requests[r] # Idle
  /\ requests' = [requests EXCEPT ![r] = Idle]
  /\ killed' = (killed \/ requests[r].next = "expire")
  /\ UNCHANGED <<now, count, expires, refused>>

\* clear_rate_limit_key, by super_admin_rate_limit_reset
clear_rate_limit_key ==
  /\ count # 0 /\ count' = 0 /\ expires' = 0
  /\ UNCHANGED <<now, requests, refused, killed>>

\* A key goes when its time has come
Tick ==
  /\ now < MaxNow /\ now' = now + 1
  /\ LET over == expires # 0 /\ expires <= now' IN
     /\ count' = IF over THEN 0 ELSE count
     /\ expires' = IF over THEN 0 ELSE expires
  /\ UNCHANGED <<requests, refused, killed>>

Next ==
  \/ \E r \in Requests : Incr(r) \/ Expire(r) \/ Decide(r) \/ Lost(r)
  \/ clear_rate_limit_key \/ Tick

Spec == Init /\ [][Next]_vars

\* Nobody is shut out for good: a key that counts attempts has an end within the
\* window, unless the request that was to set it is on its way or was lost.
WindowEnds ==
  count # 0 /\ ~killed =>
    \/ expires \in now + 1 .. now + window_seconds
    \/ \E r \in Requests : requests[r].next = "expire"

\* The invariant behind it
IInv == TypeOK /\ WindowEnds
==============================================================================
