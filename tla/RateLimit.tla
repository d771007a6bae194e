------------------------------ MODULE RateLimit ------------------------------
(***************************************************************************)
(* The shared rate limits (LimitRepository), one SQL statement at a time.  *)
(* A counter belongs to a source address, an account or an email, and to   *)
(* an action.  A request counts against one of them (Record) or, when it   *)
(* is a password login, against that of its source and that of its email   *)
(* together (RecordLogin).  The requests of all replicas race each other   *)
(* in READ COMMITTED transactions; an advisory lock per counter, held to   *)
(* the end of the transaction, is all that keeps them apart.               *)
(*                                                                         *)
(* A row of the table with a count of n is n members of "counted".         *)
(***************************************************************************)
EXTENDS Integers, Sequences, FiniteSets

CONSTANTS
  Request,       \* requests that are limited
  Key,           \* counters
  KeysOf,        \* the counters of each request, in the order in which it locks them
  Maximum,       \* for each counter, what it admits in one of its windows
  Window,        \* an hour, or 15 minutes for the email of a login
  DailyMaximum,  \* what the counter admits in a day, 0 if that has no limit
  Day,           \* 24 hours
  Interval,      \* the least time between two, 0 if there is none
  Nobody,        \* the holder of a lock that is free
  MaxTime        \* bound of the model: the clock stops here

ASSUME KeysAssumption ==
  /\ Nobody \notin Request
  /\ KeysOf \in [Request -> Seq(Key)]
  /\ \A r \in Request : \A i, j \in DOMAIN KeysOf[r] : KeysOf[r][i] = KeysOf[r][j] => i = j

\* RecordLogin locks a source and then an email, Record one counter: nobody who locks two
\* locks first what another one locks second.
ASSUME OrderAssumption ==
  \A r \in Request :
    /\ Len(KeysOf[r]) <= 2
    /\ Len(KeysOf[r]) = 2 =>
         \A q \in Request : Len(KeysOf[q]) = 2 => KeysOf[q][1] # KeysOf[r][2]

\* A window is no longer than a day: GetLimitUsage looks at no row older than that.
ASSUME LimitsAssumption ==
  /\ Maximum \in [Key -> Nat \ {0}]
  /\ Window \in [Key -> 1..Day]
  /\ DailyMaximum \in [Key -> Nat]
  /\ Interval \in [Key -> Nat]
  /\ Day \in Nat /\ MaxTime \in Nat

VARIABLES
  counted,  \* identity_limit_counters: what was admitted, by whom and at what time
  lock,     \* the request that holds the advisory lock of each counter
  req,      \* the statement that each request is at, for which of its counters, and its time
  now       \* the clock of the database

vars == <<counted, lock, req, now>>

Running == {"lock", "clock", "usage", "increment", "commit"}
Done == {"allowed", "limited", "unavailable"}

Row == [request : Request, key : Key, time : 0..MaxTime]

TypeOK ==
  /\ counted \subseteq Row
  /\ lock \in [Key -> Request \cup {Nobody}]
  /\ req \in [Request -> [at : {"idle"} \cup Running \cup Done, i : Nat, time : 0..MaxTime]]
  /\ now \in 0..MaxTime

Init ==
  /\ counted = {}
  /\ lock = [k \in Key |-> Nobody]
  /\ req = [r \in Request |-> [at |-> "idle", i |-> 1, time |-> 0]]
  /\ now = 0

Keys(r) == {KeysOf[r][i] : i \in DOMAIN KeysOf[r]}

\* The counter that r is at.
Current(r) == KeysOf[r][req[r].i]
More(r) == req[r].i + 1 \in DOMAIN KeysOf[r]

\* GetLimitUsage: the rows of k in the window and in the day that end at t.
HourlyUsage(k, t) == {c \in counted : c.key = k /\ c.time > t - Window[k] /\ c.time > t - Day}
DailyUsage(k, t) == {c \in counted : c.key = k /\ c.time > t - Day}
TooSoon(k, t) == Interval[k] > 0 /\ \E c \in counted : c.key = k /\ t - c.time < Interval[k]

\* Bug: one more than the maximum is let through.
FullBug(k, t) == Cardinality(HourlyUsage(k, t)) > Maximum[k]

Full(k, t) ==
  \/ Cardinality(HourlyUsage(k, t)) >= Maximum[k]
  \/ DailyMaximum[k] > 0 /\ Cardinality(DailyUsage(k, t)) >= DailyMaximum[k]
  \/ TooSoon(k, t)

Goto(r, at, i) == req' = [req EXCEPT ![r] = [@ EXCEPT !.at = at, !.i = i]]

\* Commit or rollback: the advisory locks of r end with its transaction.
Release(r) == lock' = [k \in Key |-> IF lock[k] = r THEN Nobody ELSE lock[k]]

Rows(r) == {[request |-> r, key |-> k, time |-> req[r].time] : k \in Keys(r)}

-----------------------------------------------------------------------------
(* The statements of a request.                                            *)

Begin(r) ==
  /\ req[r].at = "idle"
  /\ KeysOf[r] # <<>>
  /\ Goto(r, "lock", 1)
  /\ UNCHANGED <<counted, lock, now>>

\* pg_advisory_xact_lock, of the source before the email.
LockCounter(r) ==
  /\ req[r].at = "lock"
  /\ lock[Current(r)] = Nobody
  /\ lock' = [lock EXCEPT ![Current(r)] = r]
  /\ IF More(r) THEN Goto(r, "lock", req[r].i + 1) ELSE Goto(r, "clock", 1)
  /\ UNCHANGED <<counted, now>>

\* statement_timestamp() of a statement of its own, after the locks.
ReadClock(r) ==
  /\ req[r].at = "clock"
  /\ req' = [req EXCEPT ![r] = [@ EXCEPT !.at = "usage", !.time = now]]
  /\ UNCHANGED <<counted, lock, now>>

\* Bug: the transaction is committed with what it has counted so far.
RefuseBug(r) ==
  /\ Goto(r, "limited", 1)
  /\ Release(r)
  /\ counted' = counted \cup {c \in Rows(r) : \E i \in 1..req[r].i - 1 : c.key = KeysOf[r][i]}
  /\ UNCHANGED now

\* The deferred rollback, of what was counted before too.
Rollback(r, answer) ==
  /\ req' = [req EXCEPT ![r] = [at |-> answer, i |-> 1, time |-> 0]]
  /\ Release(r)
  /\ UNCHANGED <<counted, now>>

\* ErrRateLimited.
Refuse(r) == Rollback(r, "limited")

GetLimitUsage(r) ==
  /\ req[r].at = "usage"
  /\ \/ Full(Current(r), req[r].time) /\ Refuse(r)
     \/ /\ ~Full(Current(r), req[r].time)
        /\ Goto(r, "increment", req[r].i)
        /\ UNCHANGED <<counted, lock, now>>

\* The row is seen by others after the commit.
IncrementLimitCounter(r) ==
  /\ req[r].at = "increment"
  /\ IF More(r) THEN Goto(r, "usage", req[r].i + 1) ELSE Goto(r, "commit", 1)
  /\ UNCHANGED <<counted, lock, now>>

\* The answer of the commit may be lost: the request is refused and was counted.
Commit(r) ==
  /\ req[r].at = "commit"
  /\ \E at \in {"allowed", "unavailable"} : Goto(r, at, 1)
  /\ counted' = counted \cup Rows(r)
  /\ Release(r)
  /\ UNCHANGED now

\* Bug: a request that gives up leaves its transaction open.
FailBug(r) ==
  /\ req[r].at \in Running
  /\ Goto(r, "unavailable", 1)
  /\ UNCHANGED <<counted, lock, now>>

\* The deadline, a cancellation or the database ends the transaction: ErrLimitUnavailable.
Fail(r) == req[r].at \in Running /\ Rollback(r, "unavailable")

Tick ==
  /\ now < MaxTime
  /\ now' = now + 1
  /\ UNCHANGED <<counted, lock, req>>

-----------------------------------------------------------------------------
Statement(r) ==
  \/ LockCounter(r) \/ ReadClock(r) \/ GetLimitUsage(r) \/ IncrementLimitCounter(r) \/ Commit(r)

Next == (\E r \in Request : Begin(r) \/ Statement(r) \/ Fail(r)) \/ Tick

\* While any open transaction has a statement to run, the database goes on with one of them.
Spec == Init /\ [][Next]_vars /\ WF_vars(\E r \in Request : Statement(r))

-----------------------------------------------------------------------------
(* What must hold.                                                         *)

\* However the requests of all replicas interleave, no rolling window and no rolling day
\* ever holds more than its maximum, and no two are closer than the interval.
InWindow(k, length, t) == {c \in counted : c.key = k /\ t - length < c.time /\ c.time <= t}

LimitsHold ==
  \A k \in Key :
    /\ \A t \in 0..MaxTime :
         /\ Cardinality(InWindow(k, Window[k], t)) <= Maximum[k]
         /\ DailyMaximum[k] > 0 => Cardinality(InWindow(k, Day, t)) <= DailyMaximum[k]
    /\ Interval[k] > 0 => \A c, d \in counted :
         c.key = k /\ d.key = k /\ c.time <= d.time => c = d \/ d.time - c.time >= Interval[k]

\* A request is counted with all of its counters or with none: one that is admitted is, one
\* that is refused is not, although its source was counted before its email was looked at.
CountedIfAdmitted ==
  \A r \in Request :
    LET rows == {c \in counted : c.request = r} IN
    /\ rows = {} \/ rows = Rows(r)
    /\ req[r].at = "allowed" => rows = Rows(r)
    /\ req[r].at = "limited" => rows = {}

\* A request has no step only while another one has the counter that it wants to lock.
Waits(r) == req[r].at = "lock" /\ lock[Current(r)] # Nobody
GoesOn(r) == req[r].at \in Running /\ ~Waits(r)

\* Requests that lock two counters never wait for each other in a cycle: whoever waits, waits
\* for a request that goes on, or for one that waits for its email only, for one that goes on.
NoRingOfWaits ==
  \A r \in Request : Waits(r) =>
    LET holder == lock[Current(r)] IN
    \/ GoesOn(holder)
    \/ Waits(holder) /\ GoesOn(lock[Current(holder)])

\* No early return keeps a counter locked, and no ring of requests does: every request is
\* answered, and in the end no transaction is open.
EveryRequestEnds ==
  /\ [](NoRingOfWaits /\ \A r \in Request : GoesOn(r) => ENABLED Statement(r))
  /\ <>[](\A r \in Request : req[r].at \notin Running)

-----------------------------------------------------------------------------
(* The inductive invariant.                                                *)

\* The counters that r has locked, and those that it has found not to be full.
Held(r) ==
  CASE req[r].at = "lock" -> {KeysOf[r][i] : i \in 1..req[r].i - 1}
    [] req[r].at \in Running \ {"lock"} -> Keys(r)
    [] OTHER -> {}

Passed(r) ==
  CASE req[r].at = "usage" -> {KeysOf[r][i] : i \in 1..req[r].i - 1}
    [] req[r].at = "increment" -> {KeysOf[r][i] : i \in 1..req[r].i}
    [] req[r].at = "commit" -> Keys(r)
    [] OTHER -> {}

LocksMatchProgress == \A r \in Request, k \in Key : lock[k] = r <=> k \in Held(r)

\* What was read about a counter stays true as long as it is locked.
UsageStaysTrue == \A r \in Request : \A k \in Passed(r) : ~Full(k, req[r].time)

InRange ==
  \A r \in Request :
    /\ req[r].at \in Running => req[r].i \in DOMAIN KeysOf[r]
    /\ req[r].at = "clock" => req[r].i = 1

NotYetCounted == \A r \in Request : req[r].at \in Running \cup {"idle"} =>
                   \A c \in counted : c.request # r

IInv ==
  /\ TypeOK
  /\ IsFiniteSet(counted)
  /\ InRange
  /\ LocksMatchProgress
  /\ UsageStaysTrue
  /\ NotYetCounted
  /\ LimitsHold
  /\ CountedIfAdmitted

=============================================================================
