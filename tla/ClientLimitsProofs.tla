-------------------------- MODULE ClientLimitsProofs --------------------------
(* Theorems about the rate limits, about the source of a request, and about *)
(* the two together, for every value of their constants: any requests,      *)
(* limits, trusted network, way of a request and headers of a client.       *)
EXTENDS ClientLimits, FiniteSetTheorems, SequenceTheorems, WellFoundedInduction, TLAPS

-----------------------------------------------------------------------------
(* The limits.                                                             *)

\* One row more is one more in the count, at most.
LEMMA AddRow ==
  ASSUME NEW S, NEW R, NEW x, IsFiniteSet(S), R \subseteq S \cup {x}
  PROVE  IsFiniteSet(R) /\ Cardinality(R) <= Cardinality(S) + 1
<1>1. /\ IsFiniteSet(S \cup {x})
      /\ Cardinality(S \cup {x}) \in {Cardinality(S), Cardinality(S) + 1}
  BY FS_AddElement
<1>2. IsFiniteSet(R) /\ Cardinality(R) <= Cardinality(S \cup {x})
  BY <1>1, FS_Subset
<1>3. Cardinality(S) \in Nat /\ Cardinality(R) \in Nat
  BY <1>2, FS_CardinalityType
<1> QED BY <1>1, <1>2, <1>3

LEMMA InitInv == Init => IInv
<1> SUFFICES ASSUME Init PROVE IInv
  OBVIOUS
<1>1. TypeOK
  BY LimitsAssumption DEF Init, TypeOK
<1>2. IsFiniteSet({}) /\ Cardinality({}) = 0
  BY FS_EmptySet
<1>3. LimitsHold
  <2>1. \A k, length, t : InWindow(k, length, t) = {}
    BY DEF Init, InWindow
  <2> QED BY <2>1, <1>2, LimitsAssumption DEF Init, LimitsHold
<1>4. InRange /\ LocksMatchProgress /\ UsageStaysTrue
  BY KeysAssumption DEF Init, InRange, LocksMatchProgress, UsageStaysTrue, Held, Passed, Running
<1>5. NotYetCounted /\ CountedIfAdmitted
  BY DEF Init, NotYetCounted, CountedIfAdmitted
<1> QED BY <1>1, <1>2, <1>3, <1>4, <1>5 DEF IInv, Init

\* What a request has found not to be full is locked by it.
LEMMA PassedIsHeld ==
  ASSUME IInv, NEW r \in Request
  PROVE  Passed(r) \subseteq Held(r)
<1>1. KeysOf[r] \in Seq(Key) /\ req[r].i \in Nat
      /\ (req[r].at \in Running => req[r].i \in 1..Len(KeysOf[r]))
  BY KeysAssumption DEF IInv, TypeOK, InRange
<1> QED BY <1>1 DEF Passed, Held, Keys, Running

\* The rows of one request are finitely many, one for each of its counters.
LEMMA RowsFinite ==
  ASSUME IInv, NEW r \in Request
  PROVE  IsFiniteSet(Rows(r)) /\ Rows(r) \subseteq Row
<1> DEFINE row(i) == [request |-> r, key |-> KeysOf[r][i], time |-> req[r].time]
<1>1. KeysOf[r] \in Seq(Key) /\ DOMAIN KeysOf[r] = 1..Len(KeysOf[r]) /\ Len(KeysOf[r]) \in Nat
  BY KeysAssumption
<1>2. IsFiniteSet(DOMAIN KeysOf[r])
  BY <1>1, FS_Interval
<1>3. Rows(r) = {row(i) : i \in DOMAIN KeysOf[r]}
  BY DEF Rows, Keys
<1>4. IsFiniteSet({row(i) : i \in DOMAIN KeysOf[r]})
  <2> DEFINE f == [i \in DOMAIN KeysOf[r] |-> row(i)]
             T == {row(i) : i \in DOMAIN KeysOf[r]}
  <2>1. f \in Surjection(DOMAIN KeysOf[r], T)
    BY DEF Surjection
  <2> QED BY <2>1, <1>2, FS_Surjection
<1>5. \A i \in DOMAIN KeysOf[r] : row(i) \in Row
  BY <1>1 DEF IInv, TypeOK, Row
<1> QED BY <1>3, <1>4, <1>5

\* A step of r that counts nothing: what r has found, and its locks, are all that may change.
LEMMA CountsNothing ==
  ASSUME IInv, NEW r \in Request, counted' = counted, TypeOK', InRange', LocksMatchProgress',
         req[r].at \in Running \cup {"idle"}, req'[r].at # "allowed",
         \A q \in Request \ {r} : req'[q] = req[q],
         \A k \in Passed(r)' : ~Full(k, req'[r].time)
  PROVE  IInv'
<1>1. \A k, t : Full(k, t)' <=> Full(k, t)
  BY DEF Full, HourlyUsage, DailyUsage, TooSoon
<1>2. UsageStaysTrue'
  <2> SUFFICES ASSUME NEW q \in Request, NEW k \in Passed(q)'
               PROVE  ~Full(k, req[q].time)'
    BY DEF UsageStaysTrue
  <2>1. CASE q = r
    BY <2>1 DEF Full, HourlyUsage, DailyUsage, TooSoon
  <2>2. CASE q # r
    <3>1. req'[q] = req[q]
      BY <2>2
    <3>2. k \in Passed(q)
      BY <3>1 DEF Passed
    <3>3. ~Full(k, req[q].time)
      BY <3>2 DEF IInv, UsageStaysTrue
    <3> QED BY <3>1, <3>3 DEF Full, HourlyUsage, DailyUsage, TooSoon
  <2> QED BY <2>1, <2>2
<1>3. NotYetCounted'
  <2> SUFFICES ASSUME NEW q \in Request, req'[q].at \in Running \cup {"idle"}, NEW c \in counted
               PROVE  c.request # q
    BY DEF NotYetCounted
  <2>1. req[q].at \in Running \cup {"idle"}
    BY DEF NotYetCounted
  <2> QED BY <2>1 DEF IInv, NotYetCounted
<1>4. CountedIfAdmitted'
  <2> SUFFICES ASSUME NEW q \in Request
               PROVE  LET rows == {c \in counted : c.request = q} IN
                        /\ rows = {} \/ rows = Rows(q)'
                        /\ req'[q].at = "allowed" => rows = Rows(q)'
                        /\ req'[q].at = "limited" => rows = {}
    BY DEF CountedIfAdmitted
  <2>1. CASE q = r
    BY <2>1 DEF IInv, NotYetCounted
  <2>2. CASE q # r
    <3>1. Rows(q)' = Rows(q)
      BY <2>2 DEF Rows, Keys
    <3> QED BY <2>2, <3>1 DEF IInv, CountedIfAdmitted
  <2> QED BY <2>1, <2>2
<1>5. LimitsHold'
  BY DEF IInv, LimitsHold, InWindow
<1>6. IsFiniteSet(counted')
  BY DEF IInv
<1> QED BY <1>2, <1>3, <1>4, <1>5, <1>6 DEF IInv

\* A request gives back all of its locks when it ends, and only those.
LEMMA Releases ==
  ASSUME IInv, NEW r \in Request, Release(r), req'[r].at \in Done,
         \A q \in Request \ {r} : req'[q] = req[q]
  PROVE  LocksMatchProgress'
<1> SUFFICES ASSUME NEW q \in Request, NEW k \in Key PROVE lock'[k] = q <=> k \in Held(q)'
  BY DEF LocksMatchProgress
<1>1. lock[k] = q <=> k \in Held(q)
  BY DEF IInv, LocksMatchProgress
<1>2. lock'[k] = IF lock[k] = r THEN Nobody ELSE lock[k]
  BY DEF Release
<1>3. CASE q = r
  <2>1. Held(q)' = {}
    BY <1>3 DEF Held, Done, Running
  <2> QED BY <1>2, <1>3, <2>1, KeysAssumption
<1>4. CASE q # r
  <2>1. Held(q)' = Held(q)
    BY <1>4 DEF Held
  <2> QED BY <1>1, <1>2, <1>4, <2>1, KeysAssumption
<1> QED BY <1>3, <1>4

\* A step of r that takes no lock and keeps those it has.
LEMMA KeepsLocks ==
  ASSUME IInv, NEW r \in Request, lock' = lock, Held(r)' = Held(r),
         \A q \in Request \ {r} : req'[q] = req[q]
  PROVE  LocksMatchProgress'
<1> SUFFICES ASSUME NEW q \in Request, NEW k \in Key PROVE lock'[k] = q <=> k \in Held(q)'
  BY DEF LocksMatchProgress
<1>1. lock[k] = q <=> k \in Held(q)
  BY DEF IInv, LocksMatchProgress
<1>2. CASE q = r
  BY <1>1, <1>2
<1>3. CASE q # r
  <2>1. Held(q)' = Held(q)
    BY <1>3 DEF Held
  <2> QED BY <1>1, <2>1
<1> QED BY <1>2, <1>3

LEMMA BeginInv == ASSUME IInv, NEW r \in Request, Begin(r) PROVE IInv'
<1>1. /\ KeysOf[r] \in Seq(Key) /\ 1 \in 1..Len(KeysOf[r])
      /\ req[r].at = "idle" /\ req' = [req EXCEPT ![r] = [@ EXCEPT !.at = "lock", !.i = 1]]
      /\ counted' = counted /\ lock' = lock
  BY KeysAssumption DEF Begin, Goto
<1>2. TypeOK'
  BY <1>1 DEF IInv, TypeOK, Begin, Running
<1>3. req'[r].at = "lock" /\ req'[r].i = 1 /\ \A q \in Request \ {r} : req'[q] = req[q]
  BY <1>1 DEF IInv, TypeOK
<1>4. InRange'
  <2> SUFFICES ASSUME NEW q \in Request
               PROVE  /\ req'[q].at \in Running => req'[q].i \in DOMAIN KeysOf[q]
                      /\ req'[q].at = "clock" => req'[q].i = 1
    BY DEF InRange
  <2>1. CASE q = r
    BY <1>1, <1>3, <2>1
  <2>2. CASE q # r
    BY <1>3, <2>2 DEF IInv, InRange
  <2> QED BY <2>1, <2>2
<1>5. LocksMatchProgress'
  <2>1. Held(r) = {}
    BY <1>1 DEF Held, Running
  <2>2. Held(r)' = {KeysOf[r][i] : i \in 1..0}
    BY <1>3 DEF Held
  <2>3. Held(r)' = Held(r)
    BY <2>1, <2>2
  <2> QED BY <1>1, <1>3, <2>3, KeepsLocks
<1>6. Passed(r)' = {}
  BY <1>3 DEF Passed
<1> QED BY <1>1, <1>2, <1>3, <1>4, <1>5, <1>6, CountsNothing

LEMMA LockCounterInv == ASSUME IInv, NEW r \in Request, LockCounter(r) PROVE IInv'
<1> DEFINE n == Len(KeysOf[r])
           j == req[r].i
<1>1. /\ KeysOf[r] \in Seq(Key) /\ DOMAIN KeysOf[r] = 1..n /\ n \in Nat /\ j \in 1..n
      /\ req[r].at = "lock" /\ lock[KeysOf[r][j]] = Nobody /\ KeysOf[r][j] \in Key
      /\ counted' = counted /\ lock' = [lock EXCEPT ![KeysOf[r][j]] = r]
  BY KeysAssumption DEF LockCounter, Current, IInv, InRange, Running
<1>2. /\ req' \in [Request -> [at : {"idle"} \cup Running \cup Done, i : Nat, time : 0..MaxTime]]
      /\ \A q \in Request \ {r} : req'[q] = req[q]
      /\ \/ j + 1 \in 1..n /\ req'[r].at = "lock" /\ req'[r].i = j + 1
         \/ j = n /\ req'[r].at = "clock" /\ req'[r].i = 1
  <2>1. CASE More(r)
    <3> DEFINE p == [req[r] EXCEPT !.at = "lock", !.i = j + 1]
    <3>1. req' = [req EXCEPT ![r] = p] /\ j + 1 \in 1..n
      BY <1>1, <2>1 DEF LockCounter, Goto, More
    <3>2. j + 1 \in Nat /\ req \in [Request -> [at : {"idle"} \cup Running \cup Done, i : Nat, time : 0..MaxTime]]
      BY <1>1 DEF IInv, TypeOK
    <3>3. /\ p \in [at : {"idle"} \cup Running \cup Done, i : Nat, time : 0..MaxTime]
          /\ p.at = "lock" /\ p.i = j + 1
      BY <3>2 DEF Running
    <3> HIDE DEF p
    <3> QED BY <3>1, <3>2, <3>3
  <2>2. CASE ~More(r)
    <3>1. req' = [req EXCEPT ![r] = [@ EXCEPT !.at = "clock", !.i = 1]]
      BY <1>1, <2>2 DEF LockCounter, Goto
    <3>2. j = n
      BY <1>1, <2>2 DEF More
    <3> QED BY <1>1, <3>1, <3>2 DEF IInv, TypeOK, Running
  <2> QED BY <2>1, <2>2
<1>3. TypeOK'
  BY <1>1, <1>2 DEF IInv, TypeOK, LockCounter
<1>4. InRange'
  BY <1>1, <1>2 DEF IInv, InRange
<1>5. Held(r)' = Held(r) \cup {KeysOf[r][j]}
  <2>1. Held(r) = {KeysOf[r][i] : i \in 1..j - 1}
    BY <1>1 DEF Held
  <2>2. CASE j + 1 \in 1..n /\ req'[r].at = "lock" /\ req'[r].i = j + 1
    <3>1. Held(r)' = {KeysOf[r][i] : i \in 1..j}
      BY <1>1, <2>2 DEF Held
    <3>2. 1..j = (1..j - 1) \cup {j}
      BY <1>1
    <3> QED BY <2>1, <3>1, <3>2
  <2>3. CASE j = n /\ req'[r].at = "clock" /\ req'[r].i = 1
    <3>1. Held(r)' = {KeysOf[r][i] : i \in 1..j}
      BY <1>1, <2>3 DEF Held, Keys, Running
    <3>2. 1..j = (1..j - 1) \cup {j}
      BY <1>1
    <3> QED BY <2>1, <3>1, <3>2
  <2> QED BY <1>2, <2>2, <2>3
<1>6. LocksMatchProgress'
  <2> SUFFICES ASSUME NEW q \in Request, NEW k \in Key PROVE lock'[k] = q <=> k \in Held(q)'
    BY DEF LocksMatchProgress
  <2>1. lock[k] = q <=> k \in Held(q)
    BY DEF IInv, LocksMatchProgress
  <2>2. lock'[k] = IF k = KeysOf[r][j] THEN r ELSE lock[k]
    BY <1>1 DEF IInv, TypeOK
  <2>3. CASE q = r
    BY <1>5, <2>1, <2>2, <2>3
  <2>4. CASE q # r
    <3>1. Held(q)' = Held(q)
      BY <1>2, <2>4 DEF Held
    <3> QED BY <1>1, <2>1, <2>2, <2>4, <3>1, KeysAssumption
  <2> QED BY <2>3, <2>4
<1>7. Passed(r)' = {}
  BY <1>2 DEF Passed
<1> QED BY <1>1, <1>2, <1>3, <1>4, <1>6, <1>7, CountsNothing DEF Running

LEMMA ReadClockInv == ASSUME IInv, NEW r \in Request, ReadClock(r) PROVE IInv'
<1>1. /\ req[r].at = "clock" /\ req' = [req EXCEPT ![r] = [@ EXCEPT !.at = "usage", !.time = now]]
      /\ counted' = counted /\ lock' = lock /\ now' = now
  BY DEF ReadClock
<1>2. TypeOK'
  BY <1>1 DEF IInv, TypeOK, Running
<1>3. req'[r].at = "usage" /\ req'[r].i = req[r].i /\ \A q \in Request \ {r} : req'[q] = req[q]
  BY <1>1 DEF IInv, TypeOK
<1>4. InRange'
  BY <1>1, <1>3 DEF IInv, InRange, Running
<1>5. LocksMatchProgress'
  <2>1. Held(r)' = Held(r)
    BY <1>1, <1>3 DEF Held, Keys, Running
  <2> QED BY <1>1, <1>3, <2>1, KeepsLocks
<1>6. Passed(r)' = {}
  <2>1. Passed(r)' = {KeysOf[r][i] : i \in 1..req'[r].i - 1}
    BY <1>3 DEF Passed
  <2>2. req'[r].i = 1
    BY <1>1, <1>3 DEF IInv, InRange
  <2> QED BY <2>1, <2>2
<1> QED BY <1>1, <1>2, <1>3, <1>4, <1>5, <1>6, CountsNothing DEF Running

\* A request that is refused or gives up counts nothing and keeps no lock.
LEMMA EndsUncounted ==
  ASSUME IInv, NEW r \in Request, req[r].at \in Running, NEW end \in {"limited", "unavailable"},
         Rollback(r, end)
  PROVE  IInv'
<1>1. /\ req' = [req EXCEPT ![r] = [at |-> end, i |-> 1, time |-> 0]] /\ counted' = counted /\ now' = now
      /\ Release(r)
  BY DEF Rollback
<1>2. TypeOK'
  <2>1. lock' \in [Key -> Request \cup {Nobody}]
    BY <1>1 DEF Release, IInv, TypeOK
  <2>2. req' \in [Request -> [at: {"idle"} \cup Running \cup Done, i: Nat, time: 0..MaxTime]]
    BY <1>1, LimitsAssumption DEF IInv, TypeOK, Done
  <2> QED BY <1>1, <2>1, <2>2 DEF IInv, TypeOK
<1>3. req'[r].at = end /\ \A q \in Request \ {r} : req'[q] = req[q]
  BY <1>1 DEF IInv, TypeOK
<1>4. InRange'
  BY <1>3 DEF IInv, InRange, Running
<1>5. LocksMatchProgress'
  BY <1>1, <1>3, Releases DEF Done
<1>6. Passed(r)' = {}
  BY <1>3 DEF Passed
<1> QED BY <1>1, <1>2, <1>3, <1>4, <1>5, <1>6, CountsNothing

LEMMA GetLimitUsageInv == ASSUME IInv, NEW r \in Request, GetLimitUsage(r) PROVE IInv'
<1>1. req[r].at = "usage"
  BY DEF GetLimitUsage
<1>2. CASE Full(Current(r), req[r].time) /\ Refuse(r)
  BY <1>1, <1>2, EndsUncounted DEF Refuse, Running
<1>3. CASE /\ ~Full(Current(r), req[r].time)
           /\ Goto(r, "increment", req[r].i)
           /\ UNCHANGED <<counted, lock, now>>
  <2>1. req' = [req EXCEPT ![r] = [@ EXCEPT !.at = "increment", !.i = req[r].i]]
    BY <1>3 DEF Goto
  <2>2. TypeOK'
    BY <1>3, <2>1 DEF IInv, TypeOK, Running
  <2>3. /\ req'[r].at = "increment" /\ req'[r].i = req[r].i /\ req'[r].time = req[r].time
        /\ \A q \in Request \ {r} : req'[q] = req[q]
    BY <2>1 DEF IInv, TypeOK
  <2>4. InRange'
    BY <1>1, <2>3 DEF IInv, InRange, Running
  <2>5. LocksMatchProgress'
    <3>1. Held(r)' = Held(r)
      BY <1>1, <2>3 DEF Held, Keys, Running
    <3> QED BY <1>3, <2>3, <3>1, KeepsLocks
  <2>6. ASSUME NEW k \in Passed(r)' PROVE ~Full(k, req'[r].time)
    <3>1. Passed(r) = {KeysOf[r][i] : i \in 1..req[r].i - 1}
      BY <1>1 DEF Passed
    <3>2. Passed(r)' = {KeysOf[r][i] : i \in 1..req[r].i}
      BY <2>3 DEF Passed
    <3>3. 1..req[r].i \subseteq (1..req[r].i - 1) \cup {req[r].i}
      BY DEF IInv, TypeOK
    <3>4. k \in Passed(r) \/ k = Current(r)
      BY <3>1, <3>2, <3>3, <2>6 DEF Current
    <3> QED BY <1>3, <2>3, <3>4 DEF IInv, UsageStaysTrue
  <2> QED BY <1>1, <1>3, <2>2, <2>3, <2>4, <2>5, <2>6, CountsNothing DEF Running
<1> QED BY <1>2, <1>3 DEF GetLimitUsage

LEMMA IncrementInv == ASSUME IInv, NEW r \in Request, IncrementLimitCounter(r) PROVE IInv'
<1> DEFINE n == Len(KeysOf[r])
           j == req[r].i
<1>1. /\ KeysOf[r] \in Seq(Key) /\ DOMAIN KeysOf[r] = 1..n /\ n \in Nat /\ j \in 1..n
      /\ req[r].at = "increment" /\ UNCHANGED <<counted, lock, now>>
  BY KeysAssumption DEF IncrementLimitCounter, IInv, InRange, Running
<1>2. /\ req' \in [Request -> [at : {"idle"} \cup Running \cup Done, i : Nat, time : 0..MaxTime]]
      /\ \A q \in Request \ {r} : req'[q] = req[q]
      /\ req'[r].time = req[r].time
      /\ \/ j + 1 \in 1..n /\ req'[r].at = "usage" /\ req'[r].i = j + 1
         \/ j = n /\ req'[r].at = "commit" /\ req'[r].i = 1
  <2>1. CASE More(r)
    <3> DEFINE p == [req[r] EXCEPT !.at = "usage", !.i = j + 1]
    <3>1. req' = [req EXCEPT ![r] = p] /\ j + 1 \in 1..n
      BY <1>1, <2>1 DEF IncrementLimitCounter, Goto, More
    <3>2. j + 1 \in Nat /\ req \in [Request -> [at : {"idle"} \cup Running \cup Done, i : Nat, time : 0..MaxTime]]
      BY <1>1 DEF IInv, TypeOK
    <3>3. /\ p \in [at : {"idle"} \cup Running \cup Done, i : Nat, time : 0..MaxTime]
          /\ p.at = "usage" /\ p.i = j + 1 /\ p.time = req[r].time
      BY <3>2 DEF Running
    <3> HIDE DEF p
    <3> QED BY <3>1, <3>2, <3>3
  <2>2. CASE ~More(r)
    <3>1. req' = [req EXCEPT ![r] = [@ EXCEPT !.at = "commit", !.i = 1]]
      BY <1>1, <2>2 DEF IncrementLimitCounter, Goto
    <3>2. j = n
      BY <1>1, <2>2 DEF More
    <3> QED BY <1>1, <3>1, <3>2 DEF IInv, TypeOK, Running
  <2> QED BY <2>1, <2>2
<1>3. TypeOK'
  BY <1>1, <1>2 DEF IInv, TypeOK
<1>4. InRange'
  BY <1>1, <1>2 DEF IInv, InRange
<1>5. LocksMatchProgress'
  <2>1. Held(r)' = Held(r)
    BY <1>1, <1>2 DEF Held, Keys, Running
  <2> QED BY <1>1, <1>2, <2>1, KeepsLocks
<1>6. Passed(r)' = Passed(r)
  <2>1. Passed(r) = {KeysOf[r][i] : i \in 1..j}
    BY <1>1 DEF Passed
  <2>2. CASE j + 1 \in 1..n /\ req'[r].at = "usage" /\ req'[r].i = j + 1
    <3>1. Passed(r)' = {KeysOf[r][i] : i \in 1..(j + 1) - 1}
      BY <2>2 DEF Passed
    <3>2. (j + 1) - 1 = j
      BY <1>1
    <3> QED BY <2>1, <3>1, <3>2
  <2>3. CASE j = n /\ req'[r].at = "commit" /\ req'[r].i = 1
    <3>1. Passed(r)' = Keys(r)
      BY <2>3 DEF Passed, Keys
    <3> QED BY <1>1, <2>1, <2>3, <3>1 DEF Keys
  <2> QED BY <1>2, <2>2, <2>3
<1>7. \A k \in Passed(r)' : ~Full(k, req'[r].time)
  BY <1>2, <1>6 DEF IInv, UsageStaysTrue
<1> QED BY <1>1, <1>2, <1>3, <1>4, <1>5, <1>7, CountsNothing DEF Running

\* The heart of the argument.  r commits a row of time t0 for a counter that it still finds
\* not full at t0: a window that holds the new row ends at t0 or later, so that what else
\* it holds was in the window that r has looked at.
LEMMA OneMoreRow ==
  ASSUME IInv, NEW k \in Key, NEW r \in Request, NEW t0 \in 0..MaxTime, ~Full(k, t0),
         NEW row, row = [request |-> r, key |-> k, time |-> t0],
         {c \in counted' : c.key = k} \subseteq {c \in counted : c.key = k} \cup {row},
         counted' \subseteq Row
  PROVE  /\ \A t \in 0..MaxTime :
              /\ Cardinality(InWindow(k, Window[k], t)') <= Maximum[k]
              /\ DailyMaximum[k] > 0 => Cardinality(InWindow(k, Day, t)') <= DailyMaximum[k]
         /\ Interval[k] > 0 => \A c, d \in counted' :
              c.key = k /\ d.key = k /\ c.time <= d.time => c = d \/ d.time - c.time >= Interval[k]
<1>1. /\ Window[k] \in 1..Day /\ Day \in Nat /\ Maximum[k] \in Nat /\ DailyMaximum[k] \in Nat
      /\ Interval[k] \in Nat /\ MaxTime \in Nat
  BY LimitsAssumption
<1>2. counted \subseteq Row /\ IsFiniteSet(counted)
  BY DEF IInv, TypeOK
<1>3. \A c \in counted' : c.key = k => c \in counted \/ c = row
  OBVIOUS
<1>4. ASSUME NEW t \in 0..MaxTime, NEW length \in Nat, NEW maximum \in Nat, NEW usage,
             usage = {c \in counted : c.key = k /\ c.time > t0 - length /\ c.time > t0 - Day},
             length <= Day, Cardinality(usage) < maximum,
             Cardinality(InWindow(k, length, t)) <= maximum
      PROVE  Cardinality(InWindow(k, length, t)') <= maximum
  <2> DEFINE new == {c \in counted' : c.key = k /\ t - length < c.time /\ c.time <= t}
  <2> SUFFICES Cardinality(new) <= maximum
    BY DEF InWindow
  <2>1. IsFiniteSet(usage) /\ Cardinality(usage) \in Nat
    BY <1>2, <1>4, FS_Subset, FS_CardinalityType
  <2>2. IsFiniteSet(InWindow(k, length, t)) /\ Cardinality(InWindow(k, length, t)) \in Nat
    BY <1>2, FS_Subset, FS_CardinalityType DEF InWindow
  <2>3. CASE t - length < t0 /\ t0 <= t
    <3>1. new \subseteq usage \cup {row}
      BY <1>1, <1>2, <1>3, <1>4, <2>3 DEF Row
    <3>2. IsFiniteSet(new) /\ Cardinality(new) <= Cardinality(usage) + 1
      BY <2>1, <3>1, AddRow
    <3>3. Cardinality(new) \in Nat
      BY <3>2, FS_CardinalityType
    <3> QED BY <1>4, <2>1, <3>2, <3>3
  <2>4. CASE ~(t - length < t0 /\ t0 <= t)
    <3>1. new \subseteq InWindow(k, length, t)
      BY <1>3, <2>4 DEF InWindow
    <3>2. Cardinality(new) \in Nat /\ Cardinality(new) <= Cardinality(InWindow(k, length, t))
      BY <2>2, <3>1, FS_Subset, FS_CardinalityType
    <3> QED BY <1>4, <2>2, <3>2
  <2> QED BY <2>3, <2>4
<1>5. ASSUME NEW t \in 0..MaxTime
      PROVE  Cardinality(InWindow(k, Window[k], t)') <= Maximum[k]
  <2>1. HourlyUsage(k, t0) = {c \in counted : c.key = k /\ c.time > t0 - Window[k] /\ c.time > t0 - Day}
    BY DEF HourlyUsage
  <2>2. IsFiniteSet(HourlyUsage(k, t0)) /\ Cardinality(HourlyUsage(k, t0)) \in Nat
    BY <1>2, FS_Subset, FS_CardinalityType DEF HourlyUsage
  <2>3. Cardinality(HourlyUsage(k, t0)) < Maximum[k]
    BY <1>1, <2>2 DEF Full
  <2>4. Cardinality(InWindow(k, Window[k], t)) <= Maximum[k]
    BY DEF IInv, LimitsHold
  <2>5. Window[k] \in Nat /\ Window[k] <= Day
    BY <1>1
  <2> QED BY <1>1, <1>4, <2>1, <2>3, <2>4, <2>5
<1>6. ASSUME NEW t \in 0..MaxTime, DailyMaximum[k] > 0
      PROVE  Cardinality(InWindow(k, Day, t)') <= DailyMaximum[k]
  <2>1. DailyUsage(k, t0) = {c \in counted : c.key = k /\ c.time > t0 - Day /\ c.time > t0 - Day}
    BY DEF DailyUsage
  <2>2. IsFiniteSet(DailyUsage(k, t0)) /\ Cardinality(DailyUsage(k, t0)) \in Nat
    BY <1>2, FS_Subset, FS_CardinalityType DEF DailyUsage
  <2>3. Cardinality(DailyUsage(k, t0)) < DailyMaximum[k]
    BY <1>1, <1>6, <2>2 DEF Full
  <2>4. Cardinality(InWindow(k, Day, t)) <= DailyMaximum[k]
    BY <1>6 DEF IInv, LimitsHold
  <2> QED BY <1>1, <1>4, <2>1, <2>3, <2>4
<1>7. ASSUME Interval[k] > 0, NEW c \in counted', NEW d \in counted',
             c.key = k, d.key = k, c.time <= d.time
      PROVE  c = d \/ d.time - c.time >= Interval[k]
  <2>1. \A b \in counted : b.key = k => t0 - b.time >= Interval[k]
    BY <1>1, <1>2, <1>7 DEF Full, TooSoon, Row
  <2>2. CASE c \in counted /\ d \in counted
    BY <1>7, <2>2 DEF IInv, LimitsHold
  <2>3. CASE c \in counted /\ d = row
    BY <1>7, <2>1, <2>3
  <2>4. CASE c = row /\ d \in counted
    BY <1>1, <1>2, <1>7, <2>1, <2>4 DEF Row
  <2> QED BY <1>3, <1>7, <2>2, <2>3, <2>4
<1> QED BY <1>5, <1>6, <1>7

LEMMA CommitInv == ASSUME IInv, NEW r \in Request, Commit(r) PROVE IInv'
<1>1. PICK at \in {"allowed", "unavailable"} : req' = [req EXCEPT ![r] = [@ EXCEPT !.at = at, !.i = 1]]
  BY DEF Commit, Goto
<1>2. /\ req[r].at = "commit" /\ counted' = counted \cup Rows(r) /\ Release(r) /\ now' = now
  BY DEF Commit
<1>3. /\ req'[r].at = at /\ req'[r].time = req[r].time /\ req[r].time \in 0..MaxTime
      /\ \A q \in Request \ {r} : req'[q] = req[q]
  BY <1>1 DEF IInv, TypeOK
<1>4. TypeOK' /\ IsFiniteSet(counted')
  <2>1. lock' \in [Key -> Request \cup {Nobody}]
    BY <1>2 DEF Release, IInv, TypeOK
  <2>2. IsFiniteSet(counted')
    BY <1>2, RowsFinite, FS_Union DEF IInv
  <2>3. counted' \subseteq Row
    BY <1>2, RowsFinite DEF IInv, TypeOK
  <2> QED BY <1>1, <1>2, <2>1, <2>2, <2>3 DEF IInv, TypeOK, Done
<1>5. InRange'
  BY <1>3 DEF IInv, InRange, Running
<1>6. LocksMatchProgress'
  BY <1>2, <1>3, Releases DEF Done
<1>7. \A k \in Keys(r) : ~Full(k, req[r].time)
  BY <1>2 DEF Passed, IInv, UsageStaysTrue
<1>8. \A c \in Rows(r) : c.request = r /\ c.key \in Keys(r) /\ c.time = req[r].time
  BY DEF Rows
<1>9. Keys(r) \subseteq Held(r)
  BY <1>2 DEF Held, Running
<1>10. UsageStaysTrue'
  <2> SUFFICES ASSUME NEW q \in Request, NEW k \in Passed(q)'
               PROVE  ~Full(k, req[q].time)'
    BY DEF UsageStaysTrue
  <2>1. q # r
    BY <1>3 DEF Passed
  <2>2. req'[q] = req[q] /\ k \in Passed(q)
    BY <1>3, <2>1 DEF Passed
  <2>3. k \notin Keys(r)
    <3>1. k \in Held(q) /\ k \in Key
      <4>1. Keys(q) \subseteq Key
        BY KeysAssumption DEF Keys
      <4>2. KeysOf[q] \in Seq(Key) /\ (req[q].at \in Running => req[q].i \in 1..Len(KeysOf[q]))
        BY KeysAssumption DEF IInv, InRange
      <4>3. Held(q) \subseteq Key
        BY <4>1, <4>2 DEF Held, Running
      <4> QED BY <2>2, <4>3, PassedIsHeld
    <3>2. lock[k] = q
      BY <3>1 DEF IInv, LocksMatchProgress
    <3>3. k \notin Held(r)
      BY <2>1, <3>1, <3>2 DEF IInv, LocksMatchProgress
    <3> QED BY <1>9, <3>3
  <2>4. \A c : c.key = k => (c \in counted' <=> c \in counted)
    BY <1>2, <1>8, <2>3
  <2>5. \A t : Full(k, t)' <=> Full(k, t)
    <3>1. \A t : HourlyUsage(k, t)' = HourlyUsage(k, t) /\ DailyUsage(k, t)' = DailyUsage(k, t)
      BY <2>4 DEF HourlyUsage, DailyUsage
    <3>2. \A t : TooSoon(k, t)' <=> TooSoon(k, t)
      BY <2>4 DEF TooSoon
    <3> QED BY <3>1, <3>2 DEF Full
  <2>6. ~Full(k, req[q].time)
    BY <2>2 DEF IInv, UsageStaysTrue
  <2>7. req[q].time' = req[q].time
    BY <2>2
  <2> QED BY <2>5, <2>6, <2>7 DEF Full, HourlyUsage, DailyUsage, TooSoon
<1>11. NotYetCounted'
  BY <1>2, <1>3, <1>8 DEF IInv, NotYetCounted, Running
<1>12. CountedIfAdmitted'
  <2> SUFFICES ASSUME NEW q \in Request
               PROVE  LET rows == {c \in counted' : c.request = q} IN
                        /\ rows = {} \/ rows = Rows(q)'
                        /\ req'[q].at = "allowed" => rows = Rows(q)'
                        /\ req'[q].at = "limited" => rows = {}
    BY DEF CountedIfAdmitted
  <2>1. CASE q = r
    <3>1. Rows(r)' = Rows(r)
      BY <1>3 DEF Rows, Keys
    <3>2. {c \in counted' : c.request = r} = Rows(r)
      BY <1>2, <1>8 DEF IInv, NotYetCounted, Running
    <3> QED BY <1>3, <2>1, <3>1, <3>2
  <2>2. CASE q # r
    <3>1. Rows(q)' = Rows(q) /\ req'[q] = req[q]
      BY <1>3, <2>2 DEF Rows, Keys
    <3>2. {c \in counted' : c.request = q} = {c \in counted : c.request = q}
      BY <1>2, <1>8, <2>2
    <3> QED BY <3>1, <3>2 DEF IInv, CountedIfAdmitted
  <2> QED BY <2>1, <2>2
<1>13. LimitsHold'
  <2> SUFFICES ASSUME NEW k \in Key
               PROVE  /\ \A t \in 0..MaxTime :
                           /\ Cardinality(InWindow(k, Window[k], t)') <= Maximum[k]
                           /\ DailyMaximum[k] > 0 => Cardinality(InWindow(k, Day, t)') <= DailyMaximum[k]
                      /\ Interval[k] > 0 => \A c, d \in counted' :
                           c.key = k /\ d.key = k /\ c.time <= d.time =>
                             c = d \/ d.time - c.time >= Interval[k]
    BY DEF LimitsHold
  <2>1. CASE k \in Keys(r)
    <3> DEFINE row == [request |-> r, key |-> k, time |-> req[r].time]
    <3>1. {c \in counted' : c.key = k} \subseteq {c \in counted : c.key = k} \cup {row}
      BY <1>2 DEF Rows
    <3>2. counted' \subseteq Row
      BY <1>4 DEF TypeOK
    <3> HIDE DEF row
    <3>3. row = [request |-> r, key |-> k, time |-> req[r].time]
      BY DEF row
    <3> QED BY <1>3, <1>7, <2>1, <3>1, <3>2, <3>3, OneMoreRow
  <2>2. CASE k \notin Keys(r)
    <3>1. \A c : c.key = k => (c \in counted' <=> c \in counted)
      BY <1>2, <1>8, <2>2
    <3>2. \A length, t : InWindow(k, length, t)' = InWindow(k, length, t)
      BY <3>1 DEF InWindow
    <3> QED BY <3>1, <3>2 DEF IInv, LimitsHold
  <2> QED BY <2>1, <2>2
<1> QED BY <1>4, <1>5, <1>6, <1>10, <1>11, <1>12, <1>13 DEF IInv

\* The clock is in no part of the invariant but its range.
LEMMA OnlyTimePasses ==
  ASSUME IInv, UNCHANGED <<counted, lock, req>>, now' \in 0..MaxTime PROVE IInv'
<1>1. TypeOK' /\ InRange' /\ LocksMatchProgress' /\ NotYetCounted'
  BY DEF IInv, TypeOK, InRange, LocksMatchProgress, NotYetCounted, Held, Keys
<1>2. UsageStaysTrue'
  <2> SUFFICES ASSUME NEW q \in Request, NEW k \in Passed(q)' PROVE ~Full(k, req[q].time)'
    BY DEF UsageStaysTrue
  <2>1. k \in Passed(q)
    BY DEF Passed, Keys
  <2>2. ~Full(k, req[q].time)
    BY <2>1 DEF IInv, UsageStaysTrue
  <2> QED BY <2>2 DEF Full, HourlyUsage, DailyUsage, TooSoon
<1>3. CountedIfAdmitted'
  BY DEF IInv, CountedIfAdmitted, Rows, Keys
<1>4. LimitsHold' /\ IsFiniteSet(counted')
  BY DEF IInv, LimitsHold, InWindow
<1> QED BY <1>1, <1>2, <1>3, <1>4 DEF IInv

LEMMA NextInv == IInv /\ [Next]_vars => IInv'
<1> SUFFICES ASSUME IInv, [Next]_vars PROVE IInv'
  OBVIOUS
<1>1. ASSUME NEW r \in Request, Begin(r) PROVE IInv'
  BY <1>1, BeginInv
<1>2. ASSUME NEW r \in Request, LockCounter(r) PROVE IInv'
  BY <1>2, LockCounterInv
<1>3. ASSUME NEW r \in Request, ReadClock(r) PROVE IInv'
  BY <1>3, ReadClockInv
<1>4. ASSUME NEW r \in Request, GetLimitUsage(r) PROVE IInv'
  BY <1>4, GetLimitUsageInv
<1>5. ASSUME NEW r \in Request, IncrementLimitCounter(r) PROVE IInv'
  BY <1>5, IncrementInv
<1>6. ASSUME NEW r \in Request, Commit(r) PROVE IInv'
  BY <1>6, CommitInv
<1>7. ASSUME NEW r \in Request, Fail(r) PROVE IInv'
  BY <1>7, EndsUncounted DEF Fail
<1>8. CASE Tick
  <2>1. now' \in 0..MaxTime
    BY <1>8, LimitsAssumption DEF Tick, IInv, TypeOK
  <2> QED BY <1>8, <2>1, OnlyTimePasses DEF Tick
<1>9. CASE UNCHANGED vars
  BY <1>9, OnlyTimePasses DEF vars, IInv, TypeOK
<1> QED BY <1>1, <1>2, <1>3, <1>4, <1>5, <1>6, <1>7, <1>8, <1>9 DEF Next, Statement

\* The inductive invariant of the limits: what a request has read about a counter stays
\* true as long as it holds the advisory lock of the counter.
THEOREM RateLimitInv == Spec => []IInv
  BY InitInv, NextInv, PTL DEF Spec

\* For any number of requests of any replicas, with any counters, maxima and windows: no
\* rolling window or rolling day holds more than its maximum, no two are within the interval.
THEOREM RateLimitsHold == Spec => []LimitsHold
  BY RateLimitInv, PTL DEF IInv

\* A login counts for its source and for its email, or for neither (RecordLogin).
THEOREM LoginCountsBothOrNone == Spec => []CountedIfAdmitted
  BY RateLimitInv, PTL DEF IInv

\* A counter that r waits for is locked by a request that is not answered yet.
LEMMA HolderIsRunning ==
  ASSUME IInv, NEW r \in Request, Waits(r)
  PROVE  LET holder == lock[Current(r)] IN
           holder \in Request /\ req[holder].at \in Running /\ Current(r) \in Held(holder)
<1>1. /\ KeysOf[r] \in Seq(Key) /\ req[r].i \in DOMAIN KeysOf[r] /\ lock[Current(r)] # Nobody
  BY KeysAssumption DEF Waits, IInv, InRange, Running
<1>2. Current(r) \in Key
  BY <1>1 DEF Current
<1>3. lock[Current(r)] \in Request
  BY <1>1, <1>2 DEF IInv, TypeOK
<1>4. Current(r) \in Held(lock[Current(r)])
  BY <1>2, <1>3 DEF IInv, LocksMatchProgress
<1>5. req[lock[Current(r)]].at \in Running
  BY <1>4 DEF Held, Running
<1> QED BY <1>3, <1>4, <1>5

\* A request that waits and has a lock has that of its source and waits for that of its email.
LEMMA WaitsWithALock ==
  ASSUME IInv, NEW r \in Request, Waits(r), NEW k \in Held(r)
  PROVE  Len(KeysOf[r]) = 2 /\ k = KeysOf[r][1] /\ Current(r) = KeysOf[r][2]
<1> DEFINE n == Len(KeysOf[r])
           j == req[r].i
<1>1. KeysOf[r] \in Seq(Key) /\ DOMAIN KeysOf[r] = 1..n /\ n \in Nat /\ n <= 2 /\ j \in 1..n
  BY KeysAssumption, OrderAssumption DEF Waits, IInv, InRange, Running
<1>2. PICK i \in 1..j - 1 : k = KeysOf[r][i]
  BY DEF Waits, Held
<1>3. n = 2 /\ j = 2 /\ i = 1
  <2>1. n \in Nat /\ n <= 2 /\ j \in 1..n /\ i \in 1..j - 1
    BY <1>1, <1>2
  <2> HIDE DEF n, j
  <2> QED BY <2>1
<1> QED BY <1>2, <1>3 DEF Current

\* Logins that lock a source and an email, beside requests that lock one counter, never form
\* a ring: the one behind whom all others wait goes on (RecordLogin, Record).
THEOREM NoRingOfLocks == Spec => []NoRingOfWaits
<1>1. IInv => NoRingOfWaits
  <2> SUFFICES ASSUME IInv, NEW r \in Request, Waits(r), Waits(lock[Current(r)])
               PROVE  GoesOn(lock[Current(lock[Current(r)])])
    BY HolderIsRunning DEF NoRingOfWaits, GoesOn
  <2> DEFINE h == lock[Current(r)]
             g == lock[Current(h)]
  <2>1. h \in Request /\ Current(r) \in Held(h)
    BY HolderIsRunning
  <2>2. Len(KeysOf[h]) = 2 /\ Current(h) = KeysOf[h][2]
    BY <2>1, WaitsWithALock
  <2>3. g \in Request /\ req[g].at \in Running /\ Current(h) \in Held(g)
    BY <2>1, HolderIsRunning
  <2>4. ~Waits(g)
    <3> SUFFICES ASSUME Waits(g) PROVE FALSE
      OBVIOUS
    <3>1. Len(KeysOf[g]) = 2 /\ Current(h) = KeysOf[g][1]
      BY <2>3, WaitsWithALock
    <3> QED BY <2>1, <2>2, <2>3, <3>1, OrderAssumption
  <2> QED BY <2>3, <2>4 DEF GoesOn
<1> QED BY <1>1, RateLimitInv, PTL

-----------------------------------------------------------------------------
(* The source of a request.                                                *)

LEMMA RightmostIs ==
  ASSUME NEW S \in SUBSET Int, NEW m \in S, \A i \in S : i <= m
  PROVE  Rightmost(S) = m
<1>1. Rightmost(S) \in S /\ \A j \in S : j <= Rightmost(S)
  BY DEF Rightmost
<1>2. Rightmost(S) \in Int /\ m \in Int
  BY <1>1
<1>3. Rightmost(S) <= m /\ m <= Rightmost(S)
  BY <1>1
<1> QED BY <1>2, <1>3

\* Of finitely many indexes one is the rightmost.
LEMMA HasRightmost ==
  ASSUME NEW n \in Nat, NEW S \in SUBSET (1..n), S # {}
  PROVE  \E m \in S : \A i \in S : i <= m
<1> DEFINE R == OpToRel(<, Nat)
           T == {n - i : i \in S}
<1>0. S \subseteq Int /\ \A i \in S : i \in Int /\ 1 <= i /\ i <= n
  OBVIOUS
<1>1. T \subseteq Nat /\ T # {}
  <2>1. \A i \in S : n - i \in Nat
    BY <1>0
  <2>2. T # {}
    OBVIOUS
  <2> HIDE DEF R
  <2> QED BY <2>1, <2>2
<1>2. \E x \in T : \A y \in T : ~(<<y, x>> \in R)
  <2> HIDE DEF T
  <2> QED BY <1>1, NatLessThanWellFounded, WFMin, Zenon
<1>3. \A x, y \in Nat : x < y => <<x, y>> \in R
  BY DEF OpToRel
<1> HIDE DEF R
<1>4. PICK x \in T : \A y \in T : ~(y < x)
  BY <1>1, <1>2, <1>3
<1>5. PICK m \in S : x = n - m
  OBVIOUS
<1>6. ASSUME NEW i \in S PROVE i <= m
  <2>1. ~(n - i < n - m)
    BY <1>4, <1>5
  <2> HIDE DEF T
  <2> QED BY <1>0, <2>1
<1> QED BY <1>6

\* A client is counted at the address at which its request entered the trusted network, or
\* refused.  No header that it writes has it counted as another (SourceAddress).
THEOREM SourceIsEntry ==
  ASSUME NEW nodes \in Seq(Written), NEW forged \in Headers, Untrusted(nodes) # {}
  PROVE  Source(nodes, forged) \in {NoSource, Entry(nodes)}
<1> DEFINE n == Len(nodes)
           chain == Chain(forged) \o SubSeq(nodes, 1, n - 1)
           f == Len(Chain(forged))
<1>0. PICK m \in Untrusted(nodes) : \A i \in Untrusted(nodes) : i <= m
  <2>1. Len(nodes) \in Nat /\ Untrusted(nodes) \in SUBSET (1..Len(nodes))
    BY DEF Untrusted
  <2> QED BY <2>1, HasRightmost
<1>1. n \in Nat /\ m \in 1..n /\ DOMAIN nodes = 1..n
  BY DEF Untrusted
<1> HIDE DEF n, chain, f
<1>2. Untrusted(nodes) \subseteq Int
  BY <1>1 DEF Untrusted
<1>3. Entry(nodes) = Unmap(nodes[m])
  BY <1>0, <1>2, RightmostIs DEF Entry
<1>4. CASE ~isTrusted(Peer(nodes))
  <2>1. n \in Untrusted(nodes)
    BY <1>1, <1>4 DEF Untrusted, Peer, n
  <2>2. n = m
    <3>1. n <= m
      BY <1>0, <2>1
    <3> QED BY <1>1, <3>1
  <2>3. Source(nodes, forged) \in {NoSource, Unmap(Peer(nodes))}
    BY <1>4 DEF Source, SourceAddress, Arriving
  <2> QED BY <1>3, <2>2, <2>3 DEF Peer, n
<1>5. CASE isTrusted(Peer(nodes))
  <2> DEFINE headers == [other |-> FALSE, lines |-> <<chain>>]
  <2>1. m # n /\ m \in 1..n - 1
    BY <1>1, <1>5 DEF Untrusted, Peer, n
  <2>2. Chain(forged) \in Seq(Written \cup {Malformed}) /\ f \in Nat
    <3>1. forged.lines \in Seq(Seq(Written \cup {Malformed}))
      BY DEF Headers
    <3> QED BY <3>1 DEF Chain, f
  <2>3. /\ SubSeq(nodes, 1, n - 1) \in Seq(Written) /\ Len(SubSeq(nodes, 1, n - 1)) = n - 1
        /\ \A i \in 1..n - 1 : SubSeq(nodes, 1, n - 1)[i] = nodes[i]
    <3>1. n - 1 \in Nat /\ \A i \in 1..n - 1 : nodes[i] \in Written
      <4>1. n \in Nat /\ n >= 1
        BY <1>1
      <4>2. \A i \in 1..n : nodes[i] \in Written
        BY DEF n
      <4> QED BY <4>1, <4>2
    <3>2. Len(SubSeq(nodes, 1, n - 1)) = IF 1 <= n - 1 THEN n - 1 - 1 + 1 ELSE 0
      BY <3>1, SubSeqProperties
    <3>3. /\ SubSeq(nodes, 1, n - 1) \in Seq(Written)
          /\ \A i \in 1..n - 1 - 1 + 1 : SubSeq(nodes, 1, n - 1)[i] = nodes[1 + i - 1]
      BY <3>1, SubSeqProperties
    <3>4. \A i \in 1..n - 1 : i \in 1..n - 1 - 1 + 1 /\ 1 + i - 1 = i
      BY <3>1
    <3> QED BY <3>1, <3>2, <3>3, <3>4
  <2>4. DOMAIN chain = 1..f + n - 1 /\ \A i \in 1..n - 1 : chain[f + i] = nodes[i]
    BY <1>1, <2>1, <2>2, <2>3 DEF chain, f
  <2>5. f + m \in Untrusted(chain)
    BY <1>1, <2>1, <2>2, <2>4 DEF Untrusted
  <2>6. ASSUME NEW i \in Untrusted(chain) PROVE i <= f + m
    <3>1. i \in 1..f + n - 1 /\ ~isTrusted(chain[i])
      BY <2>4 DEF Untrusted
    <3>2. CASE i <= f
      BY <3>1, <3>2, <2>1, <2>2, <1>1
    <3>3. CASE i > f
      <4>1. i - f \in 1..n - 1 /\ i = f + (i - f)
        BY <3>1, <3>3, <2>2, <1>1
      <4>2. chain[i] = nodes[i - f]
        BY <4>1, <2>4
      <4>3. i - f \in Untrusted(nodes)
        BY <3>1, <4>1, <4>2, <1>1 DEF Untrusted
      <4> QED BY <1>0, <4>1, <4>3, <3>1, <2>2, <1>1
    <3> QED BY <3>1, <3>2, <3>3, <2>2
  <2>7. Untrusted(chain) \subseteq Int
    BY <2>4, <2>2, <1>1 DEF Untrusted
  <2>8. Rightmost(Untrusted(chain)) = f + m
    BY <2>5, <2>6, <2>7, RightmostIs
  <2>9. chain[f + m] = nodes[m]
    BY <2>1, <2>4
  <2>10. Chain(headers) = chain
    BY DEF Chain
  <2>11. Source(nodes, forged) = SourceAddress(Peer(nodes), headers)
    BY <1>5 DEF Source, Arriving, chain, n
  <2>12. SourceAddress(Peer(nodes), headers) \in {NoSource, Unmap(chain[Rightmost(Untrusted(chain))])}
    BY <1>5, <2>10 DEF SourceAddress
  <2> QED BY <1>3, <2>8, <2>9, <2>11, <2>12
<1> QED BY <1>4, <1>5

-----------------------------------------------------------------------------
(* The limits as clients meet them.                                        *)

\* A row that counts for a source is of a request that entered the trusted network there.
LEMMA CountedWhereItEntered ==
  ASSUME IInv, NEW address \in Address, NEW c \in CountedFrom(address)
  PROVE  c.key = <<"source", address>>
<1> DEFINE r == c.request
           nodes == Nodes[r]
           source == Source(nodes, Forged[r])
<1>1. /\ c \in counted /\ c.key[1] = "source" /\ nodes # <<>> /\ Entry(nodes) = address
      /\ r \in Request
  BY DEF CountedFrom, IInv, TypeOK, Row
<1>2. c.key \in Keys(r)
  <2>1. c \in Rows(r)
    BY <1>1 DEF IInv, CountedIfAdmitted
  <2> QED BY <2>1 DEF Rows
<1>3. source \in {NoSource, address}
  <2>1. nodes \in Seq(Written) /\ Forged[r] \in Headers /\ Untrusted(nodes) # {}
    BY <1>1, ClientsAssumption
  <2> QED BY <1>1, <2>1, SourceIsEntry
<1>4. KeysOf[r] = IF source = NoSource THEN <<>> ELSE <<<<"source", source>>>> \o Others[r]
  BY <1>1, ClientsAssumption DEF ClientKeysOf
<1>5. source # NoSource
  BY <1>2, <1>4 DEF Keys
<1>6. /\ Others[r] \in Seq(Key)
      /\ \A i \in DOMAIN Others[r] : Others[r][i][1] # "source"
  BY <1>1, ClientsAssumption
<1>7. PICK i \in DOMAIN KeysOf[r] : c.key = KeysOf[r][i]
  BY <1>2 DEF Keys
<1> HIDE DEF source
<1> DEFINE first == <<"source", source>>
           rest == Others[r]
<1>8. KeysOf[r] = <<first>> \o rest
  BY <1>4, <1>5
<1> HIDE DEF first, rest
<1>9. rest \in Seq(Key) /\ \A j \in DOMAIN rest : rest[j][1] # "source"
  BY <1>6 DEF rest
<1>10. /\ Len(rest) \in Nat /\ DOMAIN rest = 1..Len(rest)
       /\ DOMAIN (<<first>> \o rest) = 1..1 + Len(rest)
       /\ (<<first>> \o rest)[1] = first
       /\ \A j \in 1..1 + Len(rest) : j # 1 => (<<first>> \o rest)[j] = rest[j - 1]
  BY <1>9
<1>11. i = 1
  <2> SUFFICES ASSUME i # 1 PROVE FALSE
    OBVIOUS
  <2>1. i \in 1..1 + Len(rest)
    BY <1>7, <1>8, <1>10
  <2>2. i - 1 \in DOMAIN rest
    BY <1>10, <2>1
  <2>3. c.key = rest[i - 1]
    BY <1>7, <1>8, <1>10, <2>1
  <2> QED BY <1>1, <1>9, <2>2, <2>3
<1> QED BY <1>3, <1>5, <1>7, <1>8, <1>10, <1>11 DEF first

\* For any clients, proxies, headers and limits: no client gets more out of a window than
\* one address may, whatever it writes (SourceAddress, LimitRepository).
THEOREM NoClientHides == Spec => []ClientsCannotHide
<1>1. IInv => ClientsCannotHide
  <2> SUFFICES ASSUME IInv, NEW address \in Address, NEW t \in 0..MaxTime, <<"source", address>> \in Key
               PROVE  LET key == <<"source", address>> IN
                        Cardinality({c \in CountedFrom(address) : t - Window[key] < c.time /\ c.time <= t})
                          <= Maximum[key]
    BY DEF ClientsCannotHide
  <2> DEFINE key == <<"source", address>>
             rows == {c \in CountedFrom(address) : t - Window[key] < c.time /\ c.time <= t}
  <2>1. key \in Key
    OBVIOUS
  <2>2. rows \subseteq InWindow(key, Window[key], t)
    BY CountedWhereItEntered DEF InWindow, CountedFrom
  <2> HIDE DEF key
  <2>3. Cardinality(InWindow(key, Window[key], t)) <= Maximum[key]
    BY <2>1 DEF IInv, LimitsHold
  <2>4. IsFiniteSet(InWindow(key, Window[key], t))
    BY FS_Subset DEF IInv, InWindow
  <2> HIDE DEF rows
  <2>5. IsFiniteSet(rows) /\ Cardinality(rows) <= Cardinality(InWindow(key, Window[key], t))
    BY <2>2, <2>4, FS_Subset
  <2>6. Cardinality(rows) \in Nat /\ Cardinality(InWindow(key, Window[key], t)) \in Nat
    BY <2>4, <2>5, FS_CardinalityType
  <2>7. Maximum[key] \in Nat
    BY <2>1, LimitsAssumption
  <2>8. Cardinality(rows) <= Maximum[key]
    BY <2>3, <2>5, <2>6, <2>7
  <2> QED BY <2>8 DEF rows, key
<1> QED BY <1>1, RateLimitInv, PTL
=============================================================================
