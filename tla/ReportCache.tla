----------------------------- MODULE ReportCache -----------------------------
(***************************************************************************)
(* One report that is kept in Redis for a while.  Each web process finds   *)
(* out once whether Redis is there, and after a failure never tries again: *)
(* it then reads the database each time and clears nothing.                *)
(***************************************************************************)
EXTENDS Integers

CONSTANTS
  Processes,
  DEFAULT_TTL_SECONDS,
  MaxNow, MaxData  \* bounds

ReportCacheAssumption ==
  {MaxNow, MaxData} \subseteq Nat /\ DEFAULT_TTL_SECONDS \in Nat \ {0}

VARIABLES
  now,
  data,    \* what the report would say from the database, by its number of changes
  redis,   \* Redis answers
  client,  \* each process's _redis_client and _redis_available
  entry,   \* the cached report
  doing    \* what each process does next

vars == <<now, data, redis, client, entry, doing>>

\* What happened to a report in the cache (history): it was out of date when it was
\* stored, a process was to clear it and could not, something changed that clears nothing
Causes == {"late", "missed", "unannounced"}

NoEntry == [data |-> -1, expires |-> 0, causes |-> {}]
Idle    == [next |-> "idle", data |-> -1]

TypeOK ==
  /\ now \in 0 .. MaxNow /\ data \in 0 .. MaxData /\ redis \in BOOLEAN
  /\ client \in [Processes -> {"untried", "connected", "disabled"}]
  /\ entry \in [data : -1 .. MaxData, expires : 0 .. MaxNow + DEFAULT_TTL_SECONDS,
                causes : SUBSET Causes]
  /\ doing \in [Processes -> [next : {"idle", "store", "clear"}, data : -1 .. MaxData]]

Init ==
  /\ now = 0 /\ data = 0 /\ redis \in BOOLEAN /\ entry = NoEntry
  /\ client = [p \in Processes |-> "untried"]
  /\ doing = [p \in Processes |-> Idle]

\* _get_redis_client
_get_redis_client(p) ==
  IF client[p] = "untried" THEN IF redis THEN "connected" ELSE "disabled" ELSE client[p]

\* A client that is there and a Redis that answers
Reached(p) == _get_redis_client(p) = "connected" /\ redis

\* cached_report: without the report in the cache it is computed
cached_report(p) ==
  /\ doing[p] = Idle /\ ~(Reached(p) /\ entry # NoEntry)
  /\ client' = [client EXCEPT ![p] = _get_redis_client(p)]
  /\ doing' = [doing EXCEPT ![p] = [next |-> "store", data |-> data]]
  /\ UNCHANGED <<now, data, redis, entry>>

\* setex
Store(p) ==
  /\ doing[p].next = "store"
  /\ entry' = IF Reached(p)
              THEN [data |-> doing[p].data, expires |-> now + DEFAULT_TTL_SECONDS,
                    causes |-> IF doing[p].data # data THEN {"late"} ELSE {}]
              ELSE entry
  /\ doing' = [doing EXCEPT ![p] = Idle]
  /\ UNCHANGED <<now, data, redis, client>>

\* A form changes rows the report is about; "call this immediately after commit"
Change(p) ==
  /\ doing[p] = Idle /\ data < MaxData
  /\ data' = data + 1
  /\ doing' = [doing EXCEPT ![p] = [Idle EXCEPT !.next = "clear"]]
  /\ UNCHANGED <<now, redis, client, entry>>

Marked(cause) == IF entry = NoEntry THEN NoEntry ELSE [entry EXCEPT !.causes = @ \cup {cause}]

\* A change that no clearing follows: the scheduled billing cycle, an answer to a ticket,
\* a payment that a webhook or the organization's page records (of a purchase, the report
\* is cleared before the commit)
UnannouncedChange ==
  /\ data < MaxData /\ data' = data + 1
  /\ entry' = Marked("unannounced")
  /\ UNCHANGED <<now, redis, client, doing>>

\* Mutant: an entry is taken for current while it has time to live.
Untouched(p) == entry

Emptied(p) == IF Reached(p) THEN NoEntry ELSE Marked("missed")

\* invalidate_report_cache: silent when Redis is not reached
invalidate_report_cache(p) ==
  /\ doing[p].next = "clear"
  /\ client' = [client EXCEPT ![p] = _get_redis_client(p)]
  /\ entry' = Emptied(p)
  /\ doing' = [doing EXCEPT ![p] = Idle]
  /\ UNCHANGED <<now, data, redis>>

\* clear_all_report_cache, delete_cache_key
ClearCache(p) ==
  /\ doing[p] = Idle
  /\ client' = [client EXCEPT ![p] = _get_redis_client(p)]
  /\ entry' = Emptied(p)
  /\ UNCHANGED <<now, data, redis, doing>>

\* The process is killed and another takes its place
Restart(p) ==
  /\ client' = [client EXCEPT ![p] = "untried"]
  /\ doing' = [doing EXCEPT ![p] = Idle]
  /\ entry' = IF doing[p].next = "clear" THEN Marked("missed") ELSE entry
  /\ UNCHANGED <<now, data, redis>>

\* Redis stops answering, or answers again with what it had
Redis == redis' = ~redis /\ UNCHANGED <<now, data, client, entry, doing>>

Tick ==
  /\ now < MaxNow /\ now' = now + 1
  /\ entry' = IF entry.expires <= now' THEN NoEntry ELSE entry
  /\ UNCHANGED <<data, redis, client, doing>>

Next ==
  \/ \E p \in Processes :
       \/ cached_report(p) \/ Store(p) \/ Change(p) \/ invalidate_report_cache(p)
       \/ ClearCache(p) \/ Restart(p)
  \/ UnannouncedChange \/ Redis \/ Tick

Spec == Init /\ [][Next]_vars

\* A report in the cache that is out of date is one that a process is about to clear,
\* or something happened to it since it was stored: it was computed before the change
\* and stored after it, a process without Redis or one that died could not clear it, or
\* the change was one that clears nothing.  What happened to the reports before it is
\* no excuse.
ReportsKeepUp ==
  entry # NoEntry /\ entry.data # data =>
    entry.causes # {} \/ \E p \in Processes : doing[p].next = "clear"

\* The invariant behind it
IInv == TypeOK /\ ReportsKeepUp
==============================================================================
