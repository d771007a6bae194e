----------------------- MODULE ReauthenticationProofs -----------------------
(* Theorems about Reauthentication, for every value of its constants: any   *)
(* number of accounts, sessions, requests, connections and hash slots.      *)
EXTENDS Reauthentication, FiniteSetTheorems, TLAPS

\* The steps at which a request has its rows.
Holding == Running \ {"connect", "lock", "readback"}

-----------------------------------------------------------------------------
(* What a step of one request leaves of the others.                        *)

\* The request of a step has one account, that of its session.
LEMMA OwnAccount ==
  ASSUME TypeOK, NEW r \in Request
  PROVE  /\ req[r] \in ReqState /\ req[r].session \in Session /\ AccountOf(r) \in Account
         /\ AccountOf(r) = Owner[req[r].session]
  BY NamesAssumption DEF TypeOK, ReqState, AccountOf

\* Two requests never have the rows of one account.
LEMMA Exclusion ==
  ASSUME WindowsFollowLocks, NEW r \in Request, NEW q \in Request, HoldsRows(r), HoldsRows(q), q # r
  PROVE  AccountOf(q) # AccountOf(r) /\ req[q].session # req[r].session
  BY OwnAccount DEF WindowsFollowLocks, LocksMatchProgress, AccountOf

\* Another request relies on rows that it holds, and on the past.
LEMMA OthersStand ==
  ASSUME WindowsFollowLocks, NEW q \in Request, req'[q] = req[q], now' \in Nat, now <= now',
         HoldsRows(q) => LET s == req[q].session IN
           /\ stamp'[s] = stamp[s] /\ idle'[s] = idle[s] /\ (s \in revoked' <=> s \in revoked)
           /\ code'[Owner[s]] = code[Owner[s]]
  PROVE  EffectFits(q)' /\ ReadsStayTrue(q)' /\ HoldsRows(q)' = HoldsRows(q) /\ AccountOf(q)' = AccountOf(q)
<1>1. EffectFits(q)' /\ HoldsRows(q)' = HoldsRows(q) /\ AccountOf(q)' = AccountOf(q)
  BY DEF WindowsFollowLocks, EffectFits, HoldsRows, AccountOf
<1>2. /\ ReadsStayTrue(q) /\ now \in Nat /\ req[q].seen \in Nat /\ req[q].session \in Session
  BY OwnAccount, NumbersAssumption DEF WindowsFollowLocks, TypeOK, Time, ReqState
<1>3. req'[q].seen <= now'
  BY <1>2 DEF ReadsStayTrue
<1>4. CASE ~HoldsRows(q)
  <2>1. /\ req'[q].at \notin {"window", "commit"} /\ req'[q].at # "commit"
    BY <1>4 DEF HoldsRows, Running
  <2> QED BY <1>1, <1>3, <2>1 DEF ReadsStayTrue
<1>5. CASE HoldsRows(q)
  <2>1. PICK p \in ReqState : p = req[q]
    BY OwnAccount DEF WindowsFollowLocks
  <2> DEFINE s == p.session
  <2>2. /\ stamp'[s] = stamp[s] /\ idle'[s] = idle[s] /\ (s \in revoked' <=> s \in revoked)
        /\ code'[Owner[s]] = code[Owner[s]] /\ req'[q] = p
    BY <1>5, <2>1
  <2>3. /\ CodeEnd(Owner[s])' = CodeEnd(Owner[s]) /\ SessionEnd(s)' = SessionEnd(s)
        /\ ExpiresAt(s)' = ExpiresAt(s) /\ (IsOpen(s, p.seen)' <=> IsOpen(s, p.seen))
    BY <2>2 DEF CodeEnd, SessionEnd, ExpiresAt, IsOpen
  <2> QED BY <1>1, <1>2, <1>3, <2>1, <2>2, <2>3 DEF ReadsStayTrue
<1> QED BY <1>1, <1>4, <1>5

\* A step of r that takes, keeps or releases its rows, and leaves the others theirs.
LEMMA LocksStand ==
  ASSUME TypeOK, LocksMatchProgress, NEW r \in Request,
         \A q \in Request \ {r} : HoldsRows(q)' = HoldsRows(q) /\ AccountOf(q)' = AccountOf(q),
         AccountOf(r)' = AccountOf(r), HoldsRows(r)' <=> req'[r].at \in Holding,
         \/ UNCHANGED holder /\ (req'[r].at \in Holding <=> req[r].at \in Holding)
         \/ /\ holder[AccountOf(r)] = Nobody /\ req'[r].at \in Holding
            /\ holder' = [holder EXCEPT ![AccountOf(r)] = r]
         \/ Release(r) /\ req'[r].at \notin Holding
  PROVE  holder' \in [Account -> Request \cup {Nobody}] /\ LocksMatchProgress'
<1>1. /\ AccountOf(r) \in Account /\ Nobody \notin Request
      /\ holder \in [Account -> Request \cup {Nobody}]
  BY OwnAccount, NamesAssumption DEF TypeOK
<1>2. \A q \in Request : HoldsRows(q) <=> req[q].at \in Holding
  BY DEF HoldsRows, Holding
<1>3. CASE UNCHANGED holder /\ (req'[r].at \in Holding <=> req[r].at \in Holding)
  BY <1>1, <1>2, <1>3 DEF LocksMatchProgress
<1>4. CASE /\ holder[AccountOf(r)] = Nobody /\ req'[r].at \in Holding
           /\ holder' = [holder EXCEPT ![AccountOf(r)] = r]
  <2>1. /\ holder' \in [Account -> Request \cup {Nobody}] /\ holder'[AccountOf(r)] = r
        /\ \A a \in Account \ {AccountOf(r)} : holder'[a] = holder[a]
    BY <1>1, <1>4
  <2>2. \A q \in Request : AccountOf(q) \in Account
    BY <1>1, OwnAccount
  <2>3. \A q \in Request \ {r} : HoldsRows(q)' <=> holder'[AccountOf(q)'] = q
    BY <1>1, <1>4, <2>1, <2>2 DEF LocksMatchProgress
  <2>4. \A a \in Account, q \in Request : holder'[a] = q => a = AccountOf(q)'
    BY <1>1, <1>2, <2>1 DEF LocksMatchProgress
  <2> QED BY <1>2, <1>4, <2>1, <2>3, <2>4 DEF LocksMatchProgress
<1>5. CASE Release(r) /\ req'[r].at \notin Holding
  <2>1. /\ holder' \in [Account -> Request \cup {Nobody}]
        /\ \A a \in Account : holder'[a] = IF holder[a] = r THEN Nobody ELSE holder[a]
    BY <1>1, <1>5 DEF Release
  <2>2. \A q \in Request : AccountOf(q) \in Account
    BY <1>1, OwnAccount
  <2>3. \A q \in Request : HoldsRows(q)' <=> holder'[AccountOf(q)'] = q
    BY <1>1, <1>2, <1>5, <2>1, <2>2 DEF LocksMatchProgress
  <2>4. \A a \in Account, q \in Request : holder'[a] = q => a = AccountOf(q)'
    BY <1>1, <1>2, <2>1 DEF LocksMatchProgress
  <2> QED BY <2>1, <2>3, <2>4 DEF LocksMatchProgress
<1> QED BY <1>3, <1>4, <1>5

\* A step of r that writes no table takes the rows of its account, keeps or releases them.
LEMMA StepStands ==
  ASSUME WindowsFollowLocks, NEW r \in Request, UNCHANGED tables,
         req' \in [Request -> ReqState], req'[r].session = req[r].session,
         \A q \in Request \ {r} : req'[q] = req[q], slots' \subseteq Request,
         \/ UNCHANGED holder /\ (req'[r].at \in Holding <=> req[r].at \in Holding)
         \/ /\ holder[AccountOf(r)] = Nobody /\ req'[r].at \in Holding
            /\ holder' = [holder EXCEPT ![AccountOf(r)] = r]
         \/ Release(r) /\ req'[r].at \notin Holding,
         EffectFits(r)', ReadsStayTrue(r)'
  PROVE  WindowsFollowLocks'
<1>1. /\ TypeOK /\ LocksMatchProgress /\ AccountOf(r) \in Account /\ Nobody \notin Request
      /\ holder \in [Account -> Request \cup {Nobody}] /\ now \in Nat
      /\ UNCHANGED <<stamp, idle, revoked, code, now>>
  BY OwnAccount, NamesAssumption, NumbersAssumption DEF WindowsFollowLocks, TypeOK, tables, Time
<1>2. \A q \in Request \ {r} : EffectFits(q)' /\ ReadsStayTrue(q)' /\ HoldsRows(q)' = HoldsRows(q)
                               /\ AccountOf(q)' = AccountOf(q)
  BY <1>1, OthersStand
<1>3. AccountOf(r)' = AccountOf(r) /\ \A q \in Request : HoldsRows(q) <=> req[q].at \in Holding
  BY DEF AccountOf, HoldsRows, Holding
<1>4. HoldsRows(r)' <=> req'[r].at \in Holding
  BY DEF HoldsRows, Holding
<1>5. holder' \in [Account -> Request \cup {Nobody}] /\ LocksMatchProgress'
  BY <1>1, <1>2, <1>3, <1>4, LocksStand
<1>6. TypeOK'
  BY <1>1, <1>5 DEF TypeOK
<1>7. \A s \in Session : stamp'[s] = Never \/ stamp'[s] <= now'
  BY <1>1 DEF WindowsFollowLocks
<1>8. \A q \in Request : EffectFits(q)' /\ ReadsStayTrue(q)'
  BY <1>2
<1> QED BY <1>5, <1>6, <1>7, <1>8 DEF WindowsFollowLocks

\* A request that ends, whatever its result, gives back its rows and forgets what it has read.
LEMMA EndStands ==
  ASSUME WindowsFollowLocks, NEW r \in Request, NEW result \in Done, End(r, result), UNCHANGED tables,
         slots' \subseteq Request,
         Release(r) \/ (UNCHANGED holder /\ req[r].at \notin Holding)
  PROVE  WindowsFollowLocks'
<1>1. /\ req \in [Request -> ReqState] /\ req[r] \in ReqState /\ now \in Nat /\ now' = now
      /\ req[r].kind \in Kind /\ req[r].session \in Session
  BY NumbersAssumption DEF WindowsFollowLocks, TypeOK, Time, ReqState, tables
<1>2. Blank(result, req[r].kind, req[r].session) \in ReqState
  BY <1>1, NumbersAssumption DEF Blank, ReqState, Time, NoDeadline
<1>3. /\ req' \in [Request -> ReqState] /\ req'[r] = Blank(result, req[r].kind, req[r].session)
      /\ \A q \in Request \ {r} : req'[q] = req[q]
  BY <1>1, <1>2 DEF End
<1>4. /\ req'[r].at = result /\ req'[r].session = req[r].session /\ req'[r].seen = 0 /\ req'[r].effect = "none"
      /\ req'[r].stamps = FALSE
  BY <1>3 DEF Blank
<1>5. result \notin Running /\ result \notin Holding
  BY DEF Done, Running, Holding
<1>6. EffectFits(r)' /\ ReadsStayTrue(r)'
  BY <1>1, <1>4, <1>5 DEF EffectFits, ReadsStayTrue, Running
<1> QED BY <1>3, <1>4, <1>5, <1>6, StepStands

-----------------------------------------------------------------------------
(* The statements of a request.                                            *)

\* What a statement of r writes into its own record.
LEMMA OwnRecord ==
  ASSUME TypeOK, NEW r \in Request, NEW p \in ReqState, req' = [req EXCEPT ![r] = p]
  PROVE  req' \in [Request -> ReqState] /\ req'[r] = p /\ \A q \in Request \ {r} : req'[q] = req[q]
  BY DEF TypeOK

\* A step of r to its next statement, before the window, keeps what was so.
LEMMA GoesOn ==
  ASSUME WindowsFollowLocks, NEW r \in Request, UNCHANGED <<tables, holder>>, slots' \subseteq Request,
         NEW at \in {"connect", "lock", "limit", "count", "slot", "verify", "check", "issue"}, NEW limits \in 0..2,
         req[r].at \notin {"window", "commit", "readback"},
         at \in Holding <=> req[r].at \in Holding, at \in {"limit", "count"} => limits > 0,
         req' = [req EXCEPT ![r] = [@ EXCEPT !.at = at, !.limits = limits]]
  PROVE  WindowsFollowLocks'
<1>1. /\ TypeOK /\ req \in [Request -> ReqState] /\ req[r] \in ReqState /\ UNCHANGED now
      /\ EffectFits(r) /\ ReadsStayTrue(r)
  BY DEF WindowsFollowLocks, TypeOK, tables
<1> DEFINE p == [req[r] EXCEPT !.at = at, !.limits = limits]
<1>2. p \in ReqState /\ req' = [req EXCEPT ![r] = p]
  BY <1>1 DEF ReqState, Running
<1>3. req' \in [Request -> ReqState] /\ req'[r] = p /\ \A q \in Request \ {r} : req'[q] = req[q]
  BY <1>1, <1>2, OwnRecord
<1>4. /\ req'[r].at = at /\ req'[r].limits = limits /\ req'[r].session = req[r].session /\ req'[r].seen = req[r].seen
      /\ req'[r].effect = req[r].effect /\ req'[r].stamps = req[r].stamps /\ req'[r].kind = req[r].kind
  BY <1>1, <1>3 DEF ReqState
<1>5. EffectFits(r)'
  BY <1>1, <1>4 DEF EffectFits
<1>6. ReadsStayTrue(r)'
  BY <1>1, <1>4 DEF ReadsStayTrue
<1> QED BY <1>3, <1>4, <1>5, <1>6, StepStands

\* Connections, limits, slots and the end of a request.
LEMMA EarlyStatements ==
  ASSUME WindowsFollowLocks, NEW r \in Request,
         \/ Begin(r) \/ Connect(r) \/ ReadBack(r) \/ Fail(r)
         \/ req[r].kind # "change" /\ (TakeSecondConnection(r) \/ CountLimit(r))
         \/ TakeSlot(r)
  PROVE  WindowsFollowLocks'
<1>1. /\ TypeOK /\ req[r] \in ReqState /\ slots \subseteq Request /\ EffectFits(r) /\ req[r].limits \in 0..2
      /\ req[r].kind \in Kind /\ req[r] = [req[r] EXCEPT !.at = req[r].at]
  BY DEF WindowsFollowLocks, TypeOK, ReqState
<1>2. ASSUME NEW at, Goto(r, at)
      PROVE  req' = [req EXCEPT ![r] = [@ EXCEPT !.at = at, !.limits = req[r].limits]]
  BY <1>1, <1>2 DEF Goto, TypeOK, ReqState
<1>3. CASE Begin(r)
  BY <1>1, <1>2, <1>3, GoesOn DEF Begin, Holding, Running
<1>4. CASE Connect(r)
  BY <1>1, <1>2, <1>4, GoesOn DEF Connect, Holding, Running
<1>5. CASE TakeSecondConnection(r)
  <2>1. /\ req[r].at = "limit" /\ req[r].limits > 0 /\ UNCHANGED <<tables, holder, slots>>
        /\ req' = [req EXCEPT ![r] = [@ EXCEPT !.at = "count", !.limits = req[r].limits]]
    <3>1. /\ req[r].at = "limit" /\ Goto(r, "count") /\ UNCHANGED <<tables, holder, slots>>
      BY <1>5 DEF TakeSecondConnection
    <3>2. req[r].limits > 0
      BY <1>1, <3>1 DEF EffectFits
    <3> QED BY <1>2, <3>1, <3>2
  <2>2. "count" \in Holding /\ "limit" \in Holding
    BY DEF Holding, Running
  <2> QED BY <1>1, <2>1, <2>2, GoesOn
<1>6. CASE req[r].kind # "change" /\ CountLimit(r)
  <2>1. CASE Refuse(r)
    BY <1>1, <2>1, EndStands DEF Refuse, Done
  <2>2. CASE /\ req' = [req EXCEPT ![r] = [@ EXCEPT !.limits = req[r].limits - 1,
                                                    !.at = IF req[r].limits > 1 THEN "limit" ELSE AfterLimits(req[r].kind)]]
             /\ UNCHANGED <<tables, holder, slots>>
    <3> DEFINE at == IF req[r].limits > 1 THEN "limit" ELSE AfterLimits(req[r].kind)
    <3>1. req[r].at = "count" /\ req[r].limits \in 1..2
      BY <1>1, <1>6 DEF CountLimit, EffectFits
    <3>2. at \in {"limit", "slot", "check", "issue"} /\ (at = "limit" => req[r].limits - 1 > 0)
      BY <1>1, <1>6 DEF AfterLimits, Kind
    <3>3. req' = [req EXCEPT ![r] = [@ EXCEPT !.at = at, !.limits = req[r].limits - 1]]
      <4>1. [req[r] EXCEPT !.limits = req[r].limits - 1, !.at = at]
            = [req[r] EXCEPT !.at = at, !.limits = req[r].limits - 1]
        BY <1>1 DEF ReqState
      <4>2. /\ req' = [req EXCEPT ![r] = [req[r] EXCEPT !.limits = req[r].limits - 1, !.at = at]]
            /\ [req EXCEPT ![r] = [@ EXCEPT !.at = at, !.limits = req[r].limits - 1]]
               = [req EXCEPT ![r] = [req[r] EXCEPT !.at = at, !.limits = req[r].limits - 1]]
        BY <1>1, <2>2 DEF TypeOK
      <4> QED BY <4>1, <4>2
    <3> HIDE DEF at
    <3>4. at \in Holding /\ "count" \in Holding
      BY <3>2 DEF Holding, Running
    <3>5. PICK limits \in 0..2 : limits = req[r].limits - 1
      BY <3>1
    <3>6. /\ req' = [req EXCEPT ![r] = [@ EXCEPT !.at = at, !.limits = limits]]
          /\ at \in {"connect", "lock", "limit", "count", "slot", "verify", "check", "issue"}
          /\ at \in {"limit", "count"} => limits > 0
      BY <3>2, <3>3, <3>5
    <3>7. /\ req[r].at \notin {"window", "commit", "readback"} /\ (at \in Holding <=> req[r].at \in Holding)
          /\ UNCHANGED <<tables, holder>> /\ slots' \subseteq Request
      BY <1>1, <2>2, <3>1, <3>4
    <3> QED BY <3>6, <3>7, GoesOn
  <2> QED BY <1>6, <2>1, <2>2 DEF CountLimit
<1>7. CASE TakeSlot(r)
  BY <1>1, <1>2, <1>7, GoesOn DEF TakeSlot, Holding, Running
<1>8. CASE ReadBack(r)
  BY <1>1, <1>8, EndStands DEF ReadBack, Done, Holding
<1>9. CASE Fail(r)
  BY <1>1, <1>9, EndStands DEF Fail, Done
<1> QED BY <1>3, <1>4, <1>5, <1>6, <1>7, <1>8, <1>9

\* The ends of windows, codes and sessions are times, and no later than what bounds them.
LEMMA Ends ==
  ASSUME TypeOK, NEW s \in Session
  PROVE  /\ SessionEnd(s) \in Nat /\ CodeEnd(Owner[s]) \in Nat
         /\ stamp[s] # Never => ExpiresAt(s) \in Nat /\ ExpiresAt(s) <= SessionEnd(s)
<1>1. /\ stamp[s] \in Nat \cup {Never} /\ idle[s] \in Nat /\ code[Owner[s]].issued \in Nat
  BY NamesAssumption DEF TypeOK, Time, Code
<1>2. SessionEnd(s) \in Nat
  BY <1>1, NumbersAssumption DEF SessionEnd, Earlier
<1> QED BY <1>1, <1>2, NumbersAssumption DEF CodeEnd, ExpiresAt, Earlier

\* The earlier of two times.
LEMMA EarlierIs ==
  ASSUME NEW t \in Nat, NEW u \in Nat
  PROVE  Earlier(t, u) \in Nat /\ Earlier(t, u) <= t /\ Earlier(t, u) <= u
  BY DEF Earlier

\* The locks and the first read; a change is guarded here, and tied to the end of the window.
LEMMA LockStands ==
  ASSUME WindowsFollowLocks, NEW r \in Request, Lock(r)
  PROVE  WindowsFollowLocks'
<1>1. /\ TypeOK /\ req[r] \in ReqState /\ slots \subseteq Request /\ EffectFits(r) /\ ReadsStayTrue(r)
      /\ req[r].kind \in Kind /\ req[r].session \in Session /\ req[r].deadline \in Nat /\ now \in Time /\ now \in Nat
      /\ AccountOf(r) = Owner[req[r].session] /\ req[r].at = "lock" /\ holder[AccountOf(r)] = Nobody
  BY OwnAccount, NumbersAssumption DEF WindowsFollowLocks, TypeOK, ReqState, Lock, Time
<1>2. req[r].effect = "none" /\ req[r].stamps = FALSE
  BY <1>1 DEF EffectFits, ReqState
<1>3. CASE Refuse(r)
  BY <1>1, <1>3, EndStands DEF Refuse, Done
<1>4. CASE /\ req[r].kind # "change"
           /\ req' = [req EXCEPT ![r] = [@ EXCEPT !.at = "limit", !.limits = Limits(req[r].kind), !.seen = now]]
           /\ holder' = [holder EXCEPT ![AccountOf(r)] = r]
           /\ UNCHANGED <<tables, slots>>
  <2> DEFINE p == [req[r] EXCEPT !.at = "limit", !.limits = Limits(req[r].kind), !.seen = now]
  <2>1. Limits(req[r].kind) \in 1..2
    BY <1>1, <1>4 DEF Limits, Kind
  <2>2. p \in ReqState /\ req' = [req EXCEPT ![r] = p]
    <3>1. req' = [req EXCEPT ![r] = p]
      BY <1>1, <1>4 DEF TypeOK
    <3> DEFINE l == Limits(req[r].kind)
    <3>2. l \in 0..2
      BY <2>1
    <3> HIDE DEF l
    <3>3. [req[r] EXCEPT !.at = "limit", !.limits = l, !.seen = now] \in ReqState
      BY <1>1, <3>2 DEF ReqState, Running
    <3> QED BY <3>1, <3>3 DEF l
  <2>3. req' \in [Request -> ReqState] /\ req'[r] = p /\ \A q \in Request \ {r} : req'[q] = req[q]
    BY <1>1, <2>2, OwnRecord
  <2>4. /\ req'[r].at = "limit" /\ req'[r].limits \in 1..2 /\ req'[r].seen = now /\ req'[r].effect = "none"
        /\ req'[r].stamps = FALSE /\ req'[r].session = req[r].session
    BY <1>1, <1>2, <2>1, <2>3 DEF ReqState
  <2>5. EffectFits(r)' /\ ReadsStayTrue(r)'
    <3>1. EffectFits(r)'
      BY <2>4 DEF EffectFits
    <3>2. req'[r].seen <= now'
      BY <1>1, <1>4, <2>4 DEF tables
    <3>3. ReadsStayTrue(r)'
      BY <2>4, <3>2 DEF ReadsStayTrue
    <3> QED BY <3>1, <3>3
  <2>6. /\ req'[r].at \in Holding /\ holder[AccountOf(r)] = Nobody
        /\ holder' = [holder EXCEPT ![AccountOf(r)] = r] /\ UNCHANGED tables /\ slots' \subseteq Request
    BY <1>1, <1>4, <2>4 DEF Holding, Running
  <2> QED BY <2>3, <2>4, <2>5, <2>6, StepStands
<1>5. CASE Active(req[r].session) /\ req[r].kind = "change" /\ Admit(r)
  <2> DEFINE s == req[r].session
             end == Earlier(req[r].deadline, ExpiresAt(s))
             p == [req[r] EXCEPT !.at = "commit", !.effect = "change", !.deadline = end]
  <2>2. s \notin revoked /\ stamp[s] # Never /\ stamp[s] <= now
    BY <1>5 DEF Admit, IsOpen, Active
  <2>3. end \in Nat /\ end <= ExpiresAt(s)
    BY <1>1, <2>2, Ends, EarlierIs
  <2> HIDE DEF end
  <2>4. p \in ReqState /\ req' = [req EXCEPT ![r] = p]
    BY <1>1, <1>5, <2>3 DEF ReqState, Running, Admit, end
  <2>5. req' \in [Request -> ReqState] /\ req'[r] = p /\ \A q \in Request \ {r} : req'[q] = req[q]
    BY <1>1, <2>4, OwnRecord
  <2>6. /\ req'[r].at = "commit" /\ req'[r].effect = "change" /\ req'[r].kind = "change" /\ req'[r].deadline = end
        /\ req'[r].seen = req[r].seen /\ req'[r].stamps = FALSE /\ req'[r].session = s
    BY <1>1, <1>2, <1>5, <2>5 DEF ReqState
  <2>7. UNCHANGED <<stamp, idle, revoked, code, now, slots, tables>>
    BY <1>5 DEF Admit, tables
  <2>8. EffectFits(r)'
    BY <2>6 DEF EffectFits
  <2>9. ExpiresAt(s)' = ExpiresAt(s) /\ req[r].seen <= now
    BY <1>1, <2>6, <2>7 DEF ExpiresAt, SessionEnd, ReadsStayTrue
  <2>10. ReadsStayTrue(r)'
    <3>1. PICK e \in Session : e = s
      BY <1>1
    <3>2. req'[r].session = e /\ ExpiresAt(e)' = ExpiresAt(e)
      BY <2>6, <2>7, <3>1 DEF ExpiresAt, SessionEnd
    <3> QED BY <2>2, <2>3, <2>6, <2>7, <2>9, <3>1, <3>2 DEF ReadsStayTrue
  <2>11. /\ req'[r].at \in Holding /\ holder[AccountOf(r)] = Nobody
         /\ holder' = [holder EXCEPT ![AccountOf(r)] = r] /\ UNCHANGED tables /\ slots' \subseteq Request
    BY <1>1, <1>5, <2>6, <2>7 DEF Holding, Running, Admit
  <2> QED BY <2>5, <2>6, <2>8, <2>10, <2>11, StepStands
<1> QED BY <1>3, <1>4, <1>5 DEF Lock

\* A request that has its rows, and prepares the window or the commit.
LEMMA Prepares ==
  ASSUME WindowsFollowLocks, NEW r \in Request, UNCHANGED <<tables, holder>>, slots' \subseteq Request,
         NEW p \in ReqState, req' = [req EXCEPT ![r] = p], p.session = req[r].session,
         req[r].at \in Holding, p.at \in {"window", "commit"}, p.seen <= now,
         p.at = "window" => p.effect \in {"password", "consume"} /\ ~p.stamps,
         p.effect # "none" => p.kind = (IF p.effect \in {"consume", "guess"} THEN "code" ELSE p.effect),
         p.stamps => p.effect \in {"password", "consume"},
         NEW s \in Session, s = p.session, NEW c, c = code[Owner[s]],
         p.effect = "consume" => c.live /\ c.guesses < MaxGuesses /\ p.deadline <= CodeEnd(Owner[s]),
         p.effect = "guess" => c.guesses < MaxGuesses,
         p.effect = "issue" => c.id < MaxCodes,
         p.at = "commit" /\ p.effect \in {"password", "consume"} =>
           /\ s \notin revoked /\ p.deadline <= SessionEnd(s)
           /\ p.stamps <=> ~IsOpen(s, p.seen)
           /\ stamp[s] = Never \/ stamp[s] <= p.seen,
         p.effect # "change"
  PROVE  WindowsFollowLocks'
<1>1. TypeOK /\ UNCHANGED <<stamp, idle, revoked, code, now>>
  BY DEF WindowsFollowLocks, tables
<1>2. req' \in [Request -> ReqState] /\ req'[r] = p /\ \A q \in Request \ {r} : req'[q] = req[q]
  BY <1>1, OwnRecord
<1>3. p.at \in Holding
  BY DEF Holding, Running
<1>4. EffectFits(r)'
  BY <1>2 DEF EffectFits
<1>5. /\ CodeEnd(Owner[s])' = CodeEnd(Owner[s]) /\ SessionEnd(s)' = SessionEnd(s)
      /\ IsOpen(s, p.seen)' = IsOpen(s, p.seen)
  BY <1>1 DEF CodeEnd, SessionEnd, IsOpen, ExpiresAt
<1>6. ReadsStayTrue(r)'
  BY <1>1, <1>2, <1>5 DEF ReadsStayTrue
<1> QED BY <1>1, <1>2, <1>3, <1>4, <1>6, StepStands

\* The password, in its slot: it opens the window or ends the request.
LEMMA VerifyStands ==
  ASSUME WindowsFollowLocks, NEW r \in Request, req[r].kind = "password", Verify(r)
  PROVE  WindowsFollowLocks'
<1>1. /\ TypeOK /\ req[r] \in ReqState /\ slots' \subseteq Request /\ EffectFits(r) /\ ReadsStayTrue(r)
      /\ req[r].at = "verify" /\ req[r].at \in Holding /\ req[r].session \in Session
  BY OwnAccount DEF WindowsFollowLocks, TypeOK, Verify, Holding, Running
<1>2. CASE End(r, "refused") /\ Release(r) /\ UNCHANGED tables
  BY <1>1, <1>2, EndStands DEF Done
<1>3. CASE req' = [req EXCEPT ![r] = [@ EXCEPT !.at = "window", !.effect = "password"]] /\ UNCHANGED <<tables, holder>>
  <2> DEFINE p == [req[r] EXCEPT !.at = "window", !.effect = "password"]
  <2>1. /\ p \in ReqState /\ p.at = "window" /\ p.effect = "password" /\ p.session = req[r].session
        /\ p.seen = req[r].seen /\ p.stamps = req[r].stamps /\ p.kind = req[r].kind
    BY <1>1 DEF ReqState, Running
  <2>2. req' = [req EXCEPT ![r] = p]
    BY <1>1, <1>3 DEF TypeOK
  <2>3. ~p.stamps /\ p.seen <= now
    BY <1>1, <2>1 DEF EffectFits, ReadsStayTrue
  <2> HIDE DEF p
  <2> QED BY <1>1, <1>3, <2>1, <2>2, <2>3, Prepares
<1> QED BY <1>2, <1>3 DEF Verify

\* The code: current and not closed when it is accepted, and tied to its end.
LEMMA CheckCodeStands ==
  ASSUME WindowsFollowLocks, NEW r \in Request, req[r].kind = "code", CheckCode(r)
  PROVE  WindowsFollowLocks'
<1> DEFINE a == AccountOf(r)
<1>1. /\ TypeOK /\ req[r] \in ReqState /\ slots' \subseteq Request /\ EffectFits(r) /\ ReadsStayTrue(r)
      /\ req[r].at = "check" /\ req[r].at \in Holding /\ req[r].session \in Session /\ a = Owner[req[r].session]
      /\ UNCHANGED <<tables, holder>> /\ req[r].deadline \in Nat
  BY OwnAccount DEF WindowsFollowLocks, TypeOK, CheckCode, Holding, Running, ReqState
<1>2. req[r].effect = "none" /\ ~req[r].stamps /\ req[r].seen <= now
  BY <1>1 DEF EffectFits, ReadsStayTrue
<1>3. CASE /\ CanGuess(a, now)
           /\ req' = [req EXCEPT ![r] = [@ EXCEPT !.at = "window", !.effect = "consume",
                                                  !.deadline = Earlier(req[r].deadline, CodeEnd(a))]]
  <2> DEFINE end == Earlier(req[r].deadline, CodeEnd(a))
             p == [req[r] EXCEPT !.at = "window", !.effect = "consume", !.deadline = end]
  <2>1. end \in Nat /\ end <= CodeEnd(a)
    BY <1>1, Ends, EarlierIs
  <2>2. req' = [req EXCEPT ![r] = p]
    BY <1>1, <1>3 DEF TypeOK
  <2> HIDE DEF end
  <2>3. /\ p \in ReqState /\ p.at = "window" /\ p.effect = "consume" /\ p.session = req[r].session
        /\ p.seen = req[r].seen /\ p.stamps = req[r].stamps /\ p.kind = req[r].kind /\ p.deadline = end
    BY <1>1, <2>1 DEF ReqState, Running
  <2> HIDE DEF p
  <2>4. code[a].live /\ code[a].guesses < MaxGuesses
    BY <1>3 DEF CanGuess
  <2> HIDE DEF a
  <2> QED BY <1>1, <1>2, <2>1, <2>2, <2>3, <2>4, Prepares
<1>4. CASE CanGuess(a, now) /\ req' = [req EXCEPT ![r] = [@ EXCEPT !.at = "commit", !.effect = "guess"]]
  <2> DEFINE p == [req[r] EXCEPT !.at = "commit", !.effect = "guess"]
  <2>1. /\ p \in ReqState /\ p.at = "commit" /\ p.effect = "guess" /\ p.session = req[r].session
        /\ p.seen = req[r].seen /\ p.stamps = req[r].stamps /\ p.kind = req[r].kind
    BY <1>1 DEF ReqState, Running
  <2>2. req' = [req EXCEPT ![r] = p]
    BY <1>1, <1>4 DEF TypeOK
  <2>3. code[a].guesses < MaxGuesses
    BY <1>4 DEF CanGuess
  <2> HIDE DEF a, p
  <2> QED BY <1>1, <1>2, <2>1, <2>2, <2>3, Prepares
<1>5. CASE Goto(r, "commit")
  <2> DEFINE p == [req[r] EXCEPT !.at = "commit"]
  <2>1. /\ p \in ReqState /\ p.at = "commit" /\ p.effect = req[r].effect /\ p.session = req[r].session
        /\ p.seen = req[r].seen /\ p.stamps = req[r].stamps /\ p.kind = req[r].kind
    BY <1>1 DEF ReqState, Running
  <2>2. req' = [req EXCEPT ![r] = p]
    BY <1>1, <1>5 DEF TypeOK, Goto
  <2> HIDE DEF a, p
  <2> QED BY <1>1, <1>2, <2>1, <2>2, Prepares
<1> QED BY <1>3, <1>4, <1>5 DEF CheckCode

\* A new code, or none within the minute.
LEMMA IssueCodeStands ==
  ASSUME WindowsFollowLocks, NEW r \in Request, req[r].kind = "issue", IssueCode(r)
  PROVE  WindowsFollowLocks'
<1> DEFINE a == AccountOf(r)
<1>1. /\ TypeOK /\ req[r] \in ReqState /\ slots \subseteq Request /\ EffectFits(r) /\ ReadsStayTrue(r)
      /\ req[r].at = "issue" /\ req[r].at \in Holding /\ req[r].session \in Session /\ a = Owner[req[r].session]
      /\ req[r].deadline \in Nat /\ now \in Time /\ now \in Nat
  BY OwnAccount, NumbersAssumption DEF WindowsFollowLocks, TypeOK, IssueCode, Holding, Running, ReqState, Time
<1>2. req[r].effect = "none" /\ ~req[r].stamps /\ req[r].seen <= now
  BY <1>1 DEF EffectFits, ReadsStayTrue
<1>3. CASE Goto(r, "commit") /\ UNCHANGED <<tables, holder, slots>>
  <2> DEFINE p == [req[r] EXCEPT !.at = "commit"]
  <2>1. /\ p \in ReqState /\ p.at = "commit" /\ p.effect = req[r].effect /\ p.session = req[r].session
        /\ p.seen = req[r].seen /\ p.stamps = req[r].stamps /\ p.kind = req[r].kind
    BY <1>1 DEF ReqState, Running
  <2>2. req' = [req EXCEPT ![r] = p]
    BY <1>1, <1>3 DEF TypeOK, Goto
  <2> HIDE DEF a, p
  <2> QED BY <1>1, <1>2, <1>3, <2>1, <2>2, Prepares
<1>4. CASE Refuse(r)
  BY <1>1, <1>4, EndStands DEF Refuse, Done
<1>5. CASE /\ code[a].id < MaxCodes
           /\ req' = [req EXCEPT ![r] = [@ EXCEPT !.at = "commit", !.effect = "issue", !.seen = now,
                                                  !.deadline = Earlier(req[r].deadline, SessionEnd(req[r].session))]]
           /\ UNCHANGED <<tables, holder, slots>>
  <2> DEFINE end == Earlier(req[r].deadline, SessionEnd(req[r].session))
             p == [req[r] EXCEPT !.at = "commit", !.effect = "issue", !.seen = now, !.deadline = end]
  <2>1. end \in Nat
    BY <1>1, Ends, EarlierIs
  <2>2. req' = [req EXCEPT ![r] = p]
    BY <1>1, <1>5 DEF TypeOK
  <2> HIDE DEF end
  <2>3. /\ p \in ReqState /\ p.at = "commit" /\ p.effect = "issue" /\ p.session = req[r].session
        /\ p.seen = now /\ p.stamps = req[r].stamps /\ p.kind = req[r].kind
    BY <1>1, <2>1 DEF ReqState, Running
  <2>4. code[a].id < MaxCodes /\ UNCHANGED <<tables, holder>> /\ slots' \subseteq Request /\ p.seen <= now
    BY <1>1, <1>5, <2>3
  <2> HIDE DEF a, p
  <2> QED BY <1>1, <1>2, <2>2, <2>3, <2>4, Prepares
<1> QED BY <1>3, <1>4, <1>5 DEF IssueCode

\* The session is read again, and this read decides what the commit stamps.
LEMMA OpenWindowStands ==
  ASSUME WindowsFollowLocks, NEW r \in Request, OpenWindow(r)
  PROVE  WindowsFollowLocks'
<1> DEFINE s == req[r].session
<1>1. /\ TypeOK /\ req[r] \in ReqState /\ slots \subseteq Request /\ EffectFits(r) /\ ReadsStayTrue(r)
      /\ req[r].at = "window" /\ req[r].at \in Holding /\ s \in Session
      /\ req[r].deadline \in Nat /\ now \in Time /\ now \in Nat
  BY OwnAccount, NumbersAssumption DEF WindowsFollowLocks, TypeOK, OpenWindow, Holding, Running, ReqState, Time
<1>2. /\ req[r].effect \in {"password", "consume"}
      /\ req[r].kind = (IF req[r].effect \in {"consume", "guess"} THEN "code" ELSE req[r].effect)
  BY <1>1 DEF EffectFits
<1>3. CASE Refuse(r)
  BY <1>1, <1>3, EndStands DEF Refuse, Done
<1>4. CASE /\ Active(s)
           /\ req' = [req EXCEPT ![r] = [@ EXCEPT !.at = "commit", !.seen = now, !.stamps = ~IsOpen(s, now),
                                                  !.deadline = Earlier(req[r].deadline, SessionEnd(s))]]
           /\ UNCHANGED <<tables, holder, slots>>
  <2> DEFINE end == Earlier(req[r].deadline, SessionEnd(s))
             opens == ~IsOpen(s, now)
             p == [req[r] EXCEPT !.at = "commit", !.seen = now, !.stamps = opens, !.deadline = end]
  <2>1. end \in Nat /\ end <= SessionEnd(s) /\ end <= req[r].deadline /\ opens \in BOOLEAN
    BY <1>1, Ends, EarlierIs
  <2>2. req' = [req EXCEPT ![r] = p]
    BY <1>1, <1>4 DEF TypeOK
  <2>3. (opens <=> ~IsOpen(s, now)) /\ s \notin revoked /\ (stamp[s] = Never \/ stamp[s] <= now)
    BY <1>1, <1>4 DEF Active, WindowsFollowLocks
  <2> HIDE DEF end, opens
  <2>4. /\ p \in ReqState /\ p.at = "commit" /\ p.effect = req[r].effect /\ p.session = s /\ s = req[r].session
        /\ p.seen = now /\ p.stamps = opens /\ p.kind = req[r].kind /\ p.deadline = end
    BY <1>1, <2>1 DEF ReqState, Running
  <2>5. p.effect = "consume" => /\ code[Owner[s]].live /\ code[Owner[s]].guesses < MaxGuesses
                                /\ p.deadline <= CodeEnd(Owner[s])
    <3>1. /\ req[r].effect = "consume" => /\ code[Owner[s]].live /\ code[Owner[s]].guesses < MaxGuesses
                                          /\ req[r].deadline <= CodeEnd(Owner[s])
      BY <1>1 DEF ReadsStayTrue
    <3>2. CodeEnd(Owner[s]) \in Nat
      BY <1>1, Ends
    <3> HIDE DEF s, p
    <3> QED BY <1>1, <2>1, <2>4, <3>1, <3>2
  <2>6. UNCHANGED <<tables, holder>> /\ slots' \subseteq Request /\ p.seen <= now
    BY <1>1, <1>4, <2>4
  <2>7. /\ s \notin revoked /\ p.deadline <= SessionEnd(s) /\ (p.stamps <=> ~IsOpen(s, p.seen))
        /\ stamp[s] = Never \/ stamp[s] <= p.seen
    BY <2>1, <2>3, <2>4
  <2> HIDE DEF s, p
  <2> QED BY <1>1, <1>2, <2>2, <2>4, <2>5, <2>6, <2>7, Prepares
<1> QED BY <1>3, <1>4 DEF OpenWindow

\* What the commit writes into the code of its account is a code.
LEMMA NewCodeIs ==
  ASSUME WindowsFollowLocks, NEW r \in Request, req[r].at = "commit"
  PROVE  NewCode(r) \in Code
<1> DEFINE a == AccountOf(r)
<1>1. /\ TypeOK /\ req[r] \in ReqState /\ code[a] \in Code /\ ReadsStayTrue(r) /\ a = Owner[req[r].session]
      /\ req[r].seen \in Time
  BY OwnAccount DEF WindowsFollowLocks, TypeOK, ReqState
<1>2. PICK c \in Code : c = code[a]
  BY <1>1
<1>3. (req[r].effect = "guess" => c.guesses < MaxGuesses) /\ (req[r].effect = "issue" => c.id < MaxCodes)
  BY <1>1, <1>2 DEF ReadsStayTrue
<1>4. c.guesses \in 0..MaxGuesses /\ c.id \in 0..MaxCodes /\ MaxGuesses \in Nat /\ MaxCodes \in Nat
  BY NumbersAssumption DEF Code
<1>5. [c EXCEPT !.live = FALSE] \in Code
  BY DEF Code
<1>6. req[r].effect = "guess" => [c EXCEPT !.guesses = @ + 1] \in Code
  BY <1>3, <1>4 DEF Code
<1>7. req[r].effect = "issue" => [id |-> c.id + 1, issued |-> req[r].seen, guesses |-> 0, live |-> TRUE] \in Code
  BY <1>1, <1>3, <1>4 DEF Code
<1> QED BY <1>2, <1>5, <1>6, <1>7 DEF NewCode

\* The commit writes the session and the code of rows that no other request has.
LEMMA CommitStands ==
  ASSUME WindowsFollowLocks, NEW r \in Request, Commit(r)
  PROVE  WindowsFollowLocks'
<1> DEFINE s == req[r].session
           a == AccountOf(r)
<1>1. /\ TypeOK /\ LocksMatchProgress /\ req[r] \in ReqState /\ slots \subseteq Request /\ EffectFits(r)
      /\ req[r].at = "commit" /\ s \in Session /\ a \in Account /\ now \in Time /\ now \in Nat
      /\ HoldsRows(r) /\ a = Owner[s] /\ req[r].kind \in Kind
  BY OwnAccount, NumbersAssumption
  DEF WindowsFollowLocks, TypeOK, Commit, HoldsRows, Running, ReqState, Time
<1>2. CASE Refuse(r)
  BY <1>1, <1>2, EndStands DEF Refuse, Done
<1>3. CASE /\ now < req[r].deadline
           /\ stamp' = IF req[r].stamps THEN [stamp EXCEPT ![req[r].session] = now] ELSE stamp
           /\ code' = [code EXCEPT ![AccountOf(r)] = NewCode(r)]
           /\ Answer(r)
           /\ Release(r)
           /\ UNCHANGED <<idle, revoked, slots, now>>
  <2>1. /\ stamp' \in [Session -> Time \cup {Never}]
        /\ \A z \in Session : stamp'[z] = stamp[z] \/ (z = s /\ stamp'[z] = now)
    BY <1>1, <1>3 DEF TypeOK
  <2>2. code' \in [Account -> Code] /\ \A b \in Account \ {a} : code'[b] = code[b]
    BY <1>1, <1>3, NewCodeIs DEF TypeOK
  <2>3. /\ req' \in [Request -> ReqState] /\ \A q \in Request \ {r} : req'[q] = req[q]
        /\ req'[r].at \in {"readback", "accepted", "changed"} /\ req'[r].session = s /\ req'[r].seen = 0
        /\ \/ req'[r].at # "readback" /\ req'[r].effect = "none" /\ ~req'[r].stamps
           \/ /\ req'[r].at = "readback" /\ req'[r].effect = req[r].effect /\ req'[r].stamps = req[r].stamps
              /\ req'[r].kind = req[r].kind
    <3>1. CASE req[r].kind \in {"password", "code"}
      <4> DEFINE d == NoDeadline
                 p == [req[r] EXCEPT !.at = "readback", !.limits = 0, !.seen = 0, !.deadline = d]
      <4>0. d \in Nat /\ 0 \in Time
        BY NumbersAssumption DEF NoDeadline, Time
      <4> HIDE DEF d
      <4>1. p \in ReqState
        <5>1. ASSUME NEW x \in ReqState
              PROVE  [x EXCEPT !.at = "readback", !.limits = 0, !.seen = 0, !.deadline = d] \in ReqState
          <6>1. 0 \in 0..2 /\ "readback" \in Running
            BY DEF Running
          <6> QED BY <4>0, <6>1 DEF ReqState
        <5> QED BY <1>1, <5>1
      <4>2. req' = [req EXCEPT ![r] = p]
        BY <1>1, <1>3, <3>1 DEF Answer, TypeOK, d
      <4>3. /\ p.at = "readback" /\ p.session = s /\ p.seen = 0 /\ p.effect = req[r].effect
            /\ p.stamps = req[r].stamps /\ p.kind = req[r].kind
        BY <1>1 DEF ReqState
      <4> HIDE DEF p
      <4> QED BY <1>1, <4>1, <4>2, <4>3, OwnRecord
    <3>2. CASE req[r].kind \in {"issue", "change"}
      <4>1. PICK result \in {"accepted", "changed"} : End(r, result)
        BY <1>3, <3>2 DEF Answer
      <4> DEFINE p == Blank(result, req[r].kind, req[r].session)
      <4>2. p \in ReqState
        BY <1>1, NumbersAssumption DEF Blank, ReqState, Time, NoDeadline, Done
      <4>3. req' = [req EXCEPT ![r] = p]
        BY <1>1, <4>1 DEF End, TypeOK
      <4>4. p.at = result /\ p.session = s /\ p.seen = 0 /\ p.effect = "none" /\ ~p.stamps
        BY DEF Blank
      <4> HIDE DEF p
      <4> QED BY <1>1, <4>1, <4>2, <4>3, <4>4, OwnRecord
    <3> QED BY <1>1, <3>1, <3>2 DEF Kind
  <2>4. \A q \in Request \ {r} : EffectFits(q)' /\ ReadsStayTrue(q)' /\ HoldsRows(q)' = HoldsRows(q)
                                 /\ AccountOf(q)' = AccountOf(q)
    <3>1. TAKE q \in Request \ {r}
    <3>2. q \in Request /\ q # r /\ req'[q] = req[q] /\ now' \in Nat /\ now <= now'
      BY <1>1, <1>3, <2>3
    <3>3. ASSUME HoldsRows(q)
          PROVE  LET z == req[q].session IN
                 /\ stamp'[z] = stamp[z] /\ idle'[z] = idle[z] /\ (z \in revoked' <=> z \in revoked)
                 /\ code'[Owner[z]] = code[Owner[z]]
      <4>1. AccountOf(q) # a /\ req[q].session # s /\ req[q].session \in Session /\ Owner[req[q].session] = AccountOf(q)
            /\ AccountOf(q) \in Account
        BY <1>1, <3>2, <3>3, Exclusion, OwnAccount
      <4> QED BY <1>3, <2>1, <2>2, <4>1
    <3> QED BY <3>2, <3>3, OthersStand
  <2>5. EffectFits(r)'
    BY <1>1, <2>3 DEF EffectFits
  <2>6. ReadsStayTrue(r)'
    BY <1>1, <1>3, <2>3 DEF ReadsStayTrue
  <2>7. AccountOf(r)' = AccountOf(r) /\ (HoldsRows(r)' <=> req'[r].at \in Holding) /\ req'[r].at \notin Holding
    BY <2>3 DEF AccountOf, HoldsRows, Holding, Running
  <2>8. holder' \in [Account -> Request \cup {Nobody}] /\ LocksMatchProgress'
    BY <1>1, <1>3, <2>4, <2>7, LocksStand
  <2>9. TypeOK'
    BY <1>1, <1>3, <2>1, <2>2, <2>3, <2>8 DEF TypeOK
  <2>10. \A z \in Session : stamp'[z] = Never \/ stamp'[z] <= now'
    BY <1>1, <1>3, <2>1 DEF WindowsFollowLocks
  <2>11. \A q \in Request : EffectFits(q)' /\ ReadsStayTrue(q)'
    BY <2>4, <2>5, <2>6
  <2> QED BY <2>8, <2>9, <2>10, <2>11 DEF WindowsFollowLocks
<1> QED BY <1>2, <1>3 DEF Commit

-----------------------------------------------------------------------------
(* What the sessions do meanwhile, and the clock.                          *)

\* A change of sessions and codes that waits for the rows of a request does not reach what it has read.
LEMMA MeanwhileStands ==
  ASSUME WindowsFollowLocks, UNCHANGED <<stamp, holder, slots, req>>,
         now' \in Time, now <= now',
         idle' \in [Session -> 1..AbsoluteExpiry], revoked' \subseteq Session, code' \in [Account -> Code],
         \A q \in Request : HoldsRows(q) => LET s == req[q].session IN
           /\ idle'[s] = idle[s] /\ (s \in revoked' <=> s \in revoked) /\ code'[Owner[s]] = code[Owner[s]]
  PROVE  WindowsFollowLocks'
<1>1. /\ TypeOK /\ LocksMatchProgress /\ now \in Nat /\ now' \in Nat
      /\ stamp \in [Session -> Time \cup {Never}] /\ \A s \in Session : stamp[s] \in Nat \cup {Never}
  BY NumbersAssumption DEF WindowsFollowLocks, TypeOK, Time
<1>2. \A q \in Request : EffectFits(q)' /\ ReadsStayTrue(q)' /\ HoldsRows(q)' = HoldsRows(q)
                         /\ AccountOf(q)' = AccountOf(q)
  BY <1>1, OthersStand
<1>3. TypeOK' /\ LocksMatchProgress'
  BY <1>1, <1>2 DEF TypeOK, LocksMatchProgress
<1>4. \A s \in Session : stamp'[s] = Never \/ stamp'[s] <= now'
  BY <1>1 DEF WindowsFollowLocks
<1> QED BY <1>2, <1>3, <1>4 DEF WindowsFollowLocks

\* A logout waits for the row of its session, a refresh and a recovery for that of the account.
LEMMA SessionsStand ==
  ASSUME WindowsFollowLocks,
         \/ \E s \in Session : Logout(s) \/ Refresh(s)
         \/ \E a \in Account : Recover(a)
         \/ Tick
  PROVE  WindowsFollowLocks'
<1>1. /\ TypeOK /\ LocksMatchProgress /\ now \in Time /\ now \in Nat /\ MaxTime \in Nat
      /\ idle \in [Session -> 1..AbsoluteExpiry] /\ revoked \subseteq Session /\ code \in [Account -> Code]
  BY NumbersAssumption DEF WindowsFollowLocks, TypeOK, Time
<1>2. \A q \in Request : /\ req[q].session \in Session /\ Owner[req[q].session] = AccountOf(q) /\ AccountOf(q) \in Account
                         /\ HoldsRows(q) => holder[AccountOf(q)] = q /\ q # Nobody
  BY <1>1, OwnAccount, NamesAssumption DEF LocksMatchProgress
<1>3. ASSUME NEW s \in Session, Logout(s)  PROVE WindowsFollowLocks'
  <2>1. \A q \in Request : HoldsRows(q) => req[q].session # s
    BY <1>2, <1>3 DEF Logout
  <2> QED BY <1>1, <1>2, <1>3, <2>1, MeanwhileStands DEF Logout
<1>4. ASSUME NEW s \in Session, Refresh(s)  PROVE WindowsFollowLocks'
  <2>1. \A q \in Request : HoldsRows(q) => req[q].session # s
    BY <1>2, <1>4 DEF Refresh
  <2>2. Earlier(now + IdleLifetime, AbsoluteExpiry) \in 1..AbsoluteExpiry
    BY <1>1, NumbersAssumption DEF Earlier
  <2> QED BY <1>1, <1>2, <1>4, <2>1, <2>2, MeanwhileStands DEF Refresh
<1>5. ASSUME NEW a \in Account, Recover(a)  PROVE WindowsFollowLocks'
  <2>1. \A q \in Request : HoldsRows(q) => AccountOf(q) # a
    BY <1>2, <1>5 DEF Recover
  <2>2. code' \in [Account -> Code] /\ \A b \in Account \ {a} : code'[b] = code[b]
    <3>1. code[a] \in Code /\ [code[a] EXCEPT !.live = FALSE] \in Code
      BY <1>1 DEF Code
    <3>2. code' = [code EXCEPT ![a] = [code[a] EXCEPT !.live = FALSE]]
      BY <1>1, <1>5 DEF Recover
    <3> QED BY <1>1, <3>1, <3>2
  <2>3. revoked' = revoked \cup {s \in Session : Owner[s] = a} /\ UNCHANGED <<stamp, idle, holder, slots, req, now>>
    BY <1>5 DEF Recover
  <2> QED BY <1>1, <1>2, <2>1, <2>2, <2>3, MeanwhileStands
<1>6. CASE Tick
  BY <1>1, <1>6, MeanwhileStands DEF Tick, Time
<1> QED BY <1>3, <1>4, <1>5, <1>6

-----------------------------------------------------------------------------
(* The invariant.                                                          *)

LEMMA InitStands ==
  Init => WindowsFollowLocks
<1> SUFFICES ASSUME Init PROVE WindowsFollowLocks
  OBVIOUS
<1>1. /\ MaxCodes \in Nat /\ MaxTime \in Nat /\ MaxGuesses \in Nat /\ IdleLifetime \in Nat \ {0}
      /\ AbsoluteExpiry \in Nat \ {0} /\ CodeLifetime \in Nat
  BY NumbersAssumption
<1>2. PICK ask \in Asked : req = [r \in Request |-> Blank("idle", ask[r].kind, ask[r].session)]
  BY DEF Init
<1>3. \A r \in Request : ask[r].kind \in Kind /\ ask[r].session \in Session
  BY NamesAssumption DEF Kind
<1>4. \A r \in Request : req[r] \in ReqState /\ req[r].at = "idle" /\ req[r].seen = 0 /\ req[r].effect = "none"
                         /\ req[r].stamps = FALSE
  <2>1. NoDeadline \in Nat /\ 0 \in Time
    BY <1>1 DEF NoDeadline, Time
  <2> QED BY <1>2, <1>3, <2>1 DEF Blank, ReqState
<1>5. TypeOK
  <2>1. req \in [Request -> ReqState]
    BY <1>2, <1>4
  <2>2. idle \in [Session -> 1..AbsoluteExpiry] /\ stamp \in [Session -> Time \cup {Never}] /\ now \in Time
    BY <1>1 DEF Init, Time
  <2>3. code \in [Account -> Code]
    BY <1>1 DEF Init, Code, Time
  <2> QED BY <2>1, <2>2, <2>3 DEF Init, TypeOK
<1>6. LocksMatchProgress
  BY <1>4, NamesAssumption, OwnAccount, <1>5 DEF LocksMatchProgress, HoldsRows, Running, Init
<1>7. \A r \in Request : EffectFits(r) /\ ReadsStayTrue(r)
  BY <1>4 DEF EffectFits, ReadsStayTrue, Init
<1>8. \A s \in Session : stamp[s] = Never \/ stamp[s] <= now
  BY DEF Init
<1> QED BY <1>5, <1>6, <1>7, <1>8 DEF WindowsFollowLocks

LEMMA NextStands ==
  WindowsFollowLocks /\ [Next]_vars => WindowsFollowLocks'
<1> SUFFICES ASSUME WindowsFollowLocks, [Next]_vars PROVE WindowsFollowLocks'
  OBVIOUS
<1>1. ASSUME NEW r \in Request, Step(r)  PROVE WindowsFollowLocks'
  <2>1. CASE Transaction(r)
    BY <2>1, EarlyStatements, CommitStands DEF Transaction
  <2>2. CASE ReauthenticateWithPassword(r)
    BY <2>2, EarlyStatements, LockStands, VerifyStands, OpenWindowStands DEF ReauthenticateWithPassword
  <2>3. CASE ReauthenticateWithCode(r)
    BY <2>3, EarlyStatements, LockStands, CheckCodeStands, OpenWindowStands DEF ReauthenticateWithCode
  <2>4. CASE RequestReauthenticationCode(r)
    BY <2>4, EarlyStatements, LockStands, IssueCodeStands DEF RequestReauthenticationCode
  <2>5. CASE GuardedChange(r)
    BY <2>5, LockStands DEF GuardedChange
  <2> QED BY <1>1, <2>1, <2>2, <2>3, <2>4, <2>5 DEF Step
<1>2. ASSUME NEW r \in Request, Begin(r) \/ Fail(r)  PROVE WindowsFollowLocks'
  BY <1>2, EarlyStatements
<1>3. CASE UNCHANGED vars
  <2>1. /\ TypeOK /\ now \in Time /\ now \in Nat /\ idle \in [Session -> 1..AbsoluteExpiry] /\ revoked \subseteq Session
        /\ code \in [Account -> Code]
    BY NumbersAssumption DEF WindowsFollowLocks, TypeOK, Time
  <2> QED BY <1>3, <2>1, MeanwhileStands DEF vars
<1> QED BY <1>1, <1>2, <1>3, SessionsStand DEF Next

\* The invariant the properties rest on: whoever has prepared a commit still has the rows it read,
\* and its deadline is no later than the end of what it relies on.
THEOREM Invariance == Spec => []WindowsFollowLocks
<1>1. Init => WindowsFollowLocks
  BY InitStands
<1>2. WindowsFollowLocks /\ [Next]_vars => WindowsFollowLocks'
  BY NextStands
<1> QED BY <1>1, <1>2, PTL DEF Spec

-----------------------------------------------------------------------------
(* The slots, and who waits for whom.                                      *)

\* A step of r that neither enters nor leaves the hash keeps the slots.
LEMMA SlotsKept ==
  ASSUME SlotsMatchHashing, NEW r \in Request, UNCHANGED slots, \A q \in Request \ {r} : req'[q] = req[q],
         req[r].at # "verify", req'[r].at # "verify"
  PROVE  SlotsMatchHashing'
  BY DEF SlotsMatchHashing

\* Where the steps of r may take it.
LEMMA StepsOfOne ==
  ASSUME TypeOK, NEW r \in Request
  PROVE  /\ \A at : Goto(r, at) => req'[r].at = at
         /\ \A result : End(r, result) => req'[r].at = result
         /\ \A at : Goto(r, at) \/ End(r, at) => \A q \in Request \ {r} : req'[q] = req[q]
<1>1. req \in [Request -> ReqState] /\ \A at : [req[r] EXCEPT !.at = at].at = at
  BY DEF TypeOK, ReqState
<1>2. ASSUME NEW at, Goto(r, at)
      PROVE  req'[r].at = at /\ \A q \in Request \ {r} : req'[q] = req[q]
  BY <1>1, <1>2 DEF Goto
<1>3. ASSUME NEW result, End(r, result)
      PROVE  req'[r].at = result /\ \A q \in Request \ {r} : req'[q] = req[q]
  BY <1>1, <1>3 DEF End, Blank
<1> QED BY <1>2, <1>3

\* The slots are taken and given back with the hash.
LEMMA SlotsStand ==
  ASSUME WindowsFollowLocks, SlotsMatchHashing, [Next]_vars
  PROVE  SlotsMatchHashing'
<1>1. TypeOK /\ req \in [Request -> ReqState] /\ \A r \in Request : req[r] \in ReqState /\ req[r].kind \in Kind
  BY DEF WindowsFollowLocks, TypeOK, ReqState
<1>2. ASSUME NEW r \in Request, Begin(r) \/ Connect(r) \/ TakeSecondConnection(r) \/ ReadBack(r)
      PROVE  SlotsMatchHashing'
  BY <1>1, <1>2, StepsOfOne, SlotsKept DEF Begin, Connect, TakeSecondConnection, ReadBack
<1>3. ASSUME NEW r \in Request, Refuse(r), req[r].at # "verify"
      PROVE  SlotsMatchHashing'
  BY <1>1, <1>3, StepsOfOne, SlotsKept DEF Refuse
<1>4. ASSUME NEW r \in Request, NEW at \in {"limit", "commit", "window", "slot", "check", "issue", "readback"},
             NEW p, p.at = at, req' = [req EXCEPT ![r] = p], UNCHANGED slots, req[r].at # "verify"
      PROVE  SlotsMatchHashing'
  BY <1>1, <1>4, SlotsKept
<1>5. ASSUME NEW r \in Request, Lock(r)  PROVE SlotsMatchHashing'
  <2>1. CASE Refuse(r)
    BY <1>3, <1>5, <2>1 DEF Lock
  <2>2. CASE /\ req' = [req EXCEPT ![r] = [@ EXCEPT !.at = "limit", !.limits = Limits(req[r].kind),
                                                    !.seen = now]]
             /\ UNCHANGED slots
    <3>1. ASSUME NEW n PROVE [req[r] EXCEPT !.at = "limit", !.limits = n, !.seen = now].at = "limit"
      BY <1>1 DEF ReqState
    <3> QED BY <1>1, <1>4, <1>5, <2>2, <3>1 DEF Lock
  <2>3. CASE Admit(r)
    <3> DEFINE end == Earlier(req[r].deadline, ExpiresAt(req[r].session))
               p == [req[r] EXCEPT !.at = "commit", !.effect = "change", !.deadline = end]
    <3>1. p.at = "commit"
      BY <1>1 DEF ReqState
    <3>2. req' = [req EXCEPT ![r] = p] /\ UNCHANGED slots /\ req[r].at # "verify"
      BY <1>1, <1>5, <2>3 DEF Lock, Admit
    <3> HIDE DEF p
    <3> QED BY <1>4, <3>1, <3>2
  <2> QED BY <1>5, <2>1, <2>2, <2>3 DEF Lock
<1>6. ASSUME NEW r \in Request, req[r].kind # "change", CountLimit(r)  PROVE SlotsMatchHashing'
  <2> DEFINE at == IF req[r].limits > 1 THEN "limit" ELSE AfterLimits(req[r].kind)
  <2>1. at \in {"limit", "slot", "check", "issue"}
    BY <1>1, <1>6 DEF AfterLimits, Kind
  <2>2. ASSUME NEW n PROVE [req[r] EXCEPT !.limits = n, !.at = at].at = at
    BY <1>1 DEF ReqState
  <2>3. CASE ~Refuse(r)
    <3>1. req' = [req EXCEPT ![r] = [req[r] EXCEPT !.limits = req[r].limits - 1, !.at = at]] /\ UNCHANGED slots
      BY <1>1, <1>6, <2>3 DEF CountLimit
    <3> HIDE DEF at
    <3> QED BY <1>4, <1>6, <2>1, <2>2, <3>1 DEF CountLimit
  <2> QED BY <1>3, <1>6, <2>3 DEF CountLimit
<1>7. ASSUME NEW r \in Request, TakeSlot(r)  PROVE SlotsMatchHashing'
  BY <1>1, <1>7, StepsOfOne DEF TakeSlot, SlotsMatchHashing
<1>8. ASSUME NEW r \in Request, Verify(r)  PROVE SlotsMatchHashing'
  <2>1. req'[r].at # "verify" /\ \A q \in Request \ {r} : req'[q] = req[q]
    <3>1. CASE End(r, "refused")
      BY <1>1, <3>1, StepsOfOne
    <3>2. CASE req' = [req EXCEPT ![r] = [@ EXCEPT !.at = "window", !.effect = "password"]]
      <4>1. [req[r] EXCEPT !.at = "window", !.effect = "password"].at = "window"
        BY <1>1 DEF ReqState
      <4> QED BY <1>1, <3>2, <4>1
    <3> QED BY <1>8, <3>1, <3>2 DEF Verify
  <2> QED BY <1>8, <2>1 DEF Verify, SlotsMatchHashing
<1>9. ASSUME NEW r \in Request, Fail(r)  PROVE SlotsMatchHashing'
  BY <1>1, <1>9, StepsOfOne DEF Fail, SlotsMatchHashing
<1>10. ASSUME NEW r \in Request, CheckCode(r)  PROVE SlotsMatchHashing'
  <2>1. ASSUME NEW d PROVE [req[r] EXCEPT !.at = "window", !.effect = "consume", !.deadline = d].at = "window"
    BY <1>1 DEF ReqState
  <2>2. [req[r] EXCEPT !.at = "commit", !.effect = "guess"].at = "commit"
    BY <1>1 DEF ReqState
  <2>3. CASE Goto(r, "commit")
    BY <1>1, <1>10, <2>3, StepsOfOne, SlotsKept DEF CheckCode
  <2>4. CASE req' = [req EXCEPT ![r] = [@ EXCEPT !.at = "commit", !.effect = "guess"]]
    BY <1>1, <1>4, <1>10, <2>2, <2>4 DEF CheckCode
  <2>5. CASE req' = [req EXCEPT ![r] = [@ EXCEPT !.at = "window", !.effect = "consume",
                                                 !.deadline = Earlier(req[r].deadline, CodeEnd(AccountOf(r)))]]
    BY <1>1, <1>4, <1>10, <2>1, <2>5 DEF CheckCode
  <2> QED BY <1>10, <2>3, <2>4, <2>5 DEF CheckCode
<1>11. ASSUME NEW r \in Request, IssueCode(r)  PROVE SlotsMatchHashing'
  <2>1. CASE Refuse(r)
    BY <1>3, <1>11, <2>1 DEF IssueCode
  <2>2. CASE Goto(r, "commit") /\ UNCHANGED slots
    BY <1>1, <1>11, <2>2, StepsOfOne, SlotsKept DEF IssueCode
  <2>3. CASE /\ UNCHANGED slots
             /\ req' = [req EXCEPT ![r] = [@ EXCEPT !.at = "commit", !.effect = "issue", !.seen = now,
                                                    !.deadline = Earlier(req[r].deadline, SessionEnd(req[r].session))]]
    <3> DEFINE d == Earlier(req[r].deadline, SessionEnd(req[r].session))
               p == [req[r] EXCEPT !.at = "commit", !.effect = "issue", !.seen = now, !.deadline = d]
    <3>1. req' = [req EXCEPT ![r] = p] /\ UNCHANGED slots
      BY <1>1, <2>3
    <3> HIDE DEF d
    <3>2. p.at = "commit"
      BY <1>1 DEF ReqState
    <3> HIDE DEF p
    <3> QED BY <1>4, <1>11, <3>1, <3>2 DEF IssueCode
  <2> QED BY <1>11, <2>1, <2>2, <2>3 DEF IssueCode
<1>12. ASSUME NEW r \in Request, OpenWindow(r)  PROVE SlotsMatchHashing'
  <2>1. CASE Refuse(r)
    BY <1>3, <1>12, <2>1 DEF OpenWindow
  <2>2. CASE ~Refuse(r)
    <3> DEFINE d == Earlier(req[r].deadline, SessionEnd(req[r].session))
               b == ~IsOpen(req[r].session, now)
               p == [req[r] EXCEPT !.at = "commit", !.seen = now, !.stamps = b, !.deadline = d]
    <3>1. req' = [req EXCEPT ![r] = p] /\ UNCHANGED slots
      BY <1>1, <1>12, <2>2 DEF OpenWindow
    <3> HIDE DEF d, b
    <3>2. p.at = "commit"
      BY <1>1 DEF ReqState
    <3> HIDE DEF p
    <3> QED BY <1>4, <1>12, <3>1, <3>2 DEF OpenWindow
  <2> QED BY <2>1, <2>2
<1>13. ASSUME NEW r \in Request, Commit(r)  PROVE SlotsMatchHashing'
  <2>1. CASE Refuse(r)
    BY <1>3, <1>13, <2>1 DEF Commit
  <2>2. CASE Answer(r) /\ UNCHANGED slots
    <3>1. CASE req[r].kind \in {"password", "code"}
      <4> DEFINE d == NoDeadline
                 p == [req[r] EXCEPT !.at = "readback", !.limits = 0, !.seen = 0, !.deadline = d]
      <4>1. req' = [req EXCEPT ![r] = p]
        BY <1>1, <2>2, <3>1 DEF Answer
      <4> HIDE DEF d
      <4>2. p.at = "readback"
        BY <1>1 DEF ReqState
      <4> HIDE DEF p
      <4> QED BY <1>4, <1>13, <2>2, <4>1, <4>2 DEF Commit
    <3>2. CASE req[r].kind \in {"issue", "change"}
      BY <1>1, <1>13, <2>2, <3>2, StepsOfOne, SlotsKept DEF Answer, Commit
    <3> QED BY <1>1, <3>1, <3>2 DEF Kind
  <2> QED BY <1>13, <2>1, <2>2 DEF Commit
<1>14. ASSUME NEW r \in Request, Step(r)  PROVE SlotsMatchHashing'
  BY <1>14, <1>2, <1>5, <1>6, <1>7, <1>8, <1>10, <1>11, <1>12, <1>13
  DEF Step, Transaction, ReauthenticateWithPassword, ReauthenticateWithCode, RequestReauthenticationCode, GuardedChange
<1>15. CASE \/ \E s \in Session : Logout(s) \/ Refresh(s)
            \/ \E a \in Account : Recover(a)
            \/ Tick \/ UNCHANGED vars
  BY <1>15 DEF Logout, Refresh, Recover, Tick, vars, SlotsMatchHashing
<1> QED BY <1>2, <1>9, <1>14, <1>15 DEF Next

\* Whoever has what others wait for can go on: the rows wait for a slot at most, and a slot for nothing.
LEMMA NoRing == WindowsFollowLocks /\ SlotsMatchHashing => StuckOnlyWithoutConnections
<1> SUFFICES ASSUME WindowsFollowLocks, SlotsMatchHashing, FreeConnection, NEW r \in Request, req[r].at \in Running
             PROVE  \E q \in Request : req[q].at \in Running /\ ~Waits(q)
  BY DEF StuckOnlyWithoutConnections
<1>1. ASSUME NEW q \in Request, req[q].at = "slot"
      PROVE  \E u \in Request : req[u].at \in Running /\ ~Waits(u)
  <2>1. CASE slots = {}
    <3>1. Cardinality(slots) = 0 /\ HashSlots \in Nat \ {0}
      BY <2>1, FS_EmptySet, NumbersAssumption
    <3>2. ~Waits(q)
      BY <1>1, <3>1 DEF Waits
    <3> QED BY <1>1, <3>2 DEF Running
  <2>2. CASE slots # {}
    <3>1. PICK u \in slots : u \in Request /\ req[u].at = "verify"
      BY <2>2 DEF WindowsFollowLocks, TypeOK, SlotsMatchHashing
    <3> QED BY <3>1 DEF Waits, Running
  <2> QED BY <2>1, <2>2
<1>2. ASSUME NEW q \in Request, req[q].at \in Running \ {"lock"}
      PROVE  \E u \in Request : req[u].at \in Running /\ ~Waits(u)
  BY <1>1, <1>2 DEF Waits
<1>3. CASE req[r].at = "lock" /\ Waits(r)
  <2>1. holder[AccountOf(r)] \in Request
    BY <1>3, OwnAccount DEF Waits, WindowsFollowLocks, TypeOK
  <2>2. PICK h \in Request : h = holder[AccountOf(r)]
    BY <2>1
  <2>3. AccountOf(h) = AccountOf(r) /\ HoldsRows(h)
    BY <2>2, OwnAccount DEF WindowsFollowLocks, LocksMatchProgress
  <2> QED BY <1>2, <2>3 DEF HoldsRows
<1> QED BY <1>2, <1>3

\* For any number of requests, connections and slots: the slots are those of the requests that hash, and
\* while the pool has a connection left some request can take its next step.
THEOREM InvarianceOfAll == Spec => []ReauthenticationInv
<1>1. Init => SlotsMatchHashing
  <2> SUFFICES ASSUME Init, NEW r \in Request PROVE ~(r \in slots) /\ req[r].at # "verify"
    BY DEF SlotsMatchHashing
  <2> QED BY DEF Init, Blank
<1>2. WindowsFollowLocks /\ SlotsMatchHashing /\ [Next]_vars => SlotsMatchHashing'
  BY SlotsStand
<1>3. WindowsFollowLocks /\ SlotsMatchHashing => ReauthenticationInv
  BY NoRing DEF ReauthenticationInv
<1> QED BY <1>1, <1>2, <1>3, Invariance, PTL DEF Spec

-----------------------------------------------------------------------------
(* What a step may never do.                                               *)

\* r commits what it has prepared.
Applies(r) ==
  /\ req[r].at = "commit" /\ now < req[r].deadline
  /\ stamp' = IF req[r].stamps THEN [stamp EXCEPT ![req[r].session] = now] ELSE stamp
  /\ code' = [code EXCEPT ![AccountOf(r)] = NewCode(r)]

\* The steps of q after which its commit is done.
CommitOf(q) == req[q].at = "commit" /\ req'[q].at \in {"readback", "accepted", "changed"}

\* A step that is no commit stamps nothing, and no request is done with its commit.
LEMMA OnlyCommits ==
  ASSUME WindowsFollowLocks, [Next]_vars
  PROVE  \/ \E r \in Request : Applies(r) /\ \A q \in Request : CommitOf(q) <=> q = r
         \/ /\ UNCHANGED stamp /\ \A q \in Request : ~CommitOf(q)
            /\ UNCHANGED code \/ \E a \in Account : code' = [code EXCEPT ![a].live = FALSE]
<1>1. req \in [Request -> ReqState]
  BY DEF WindowsFollowLocks, TypeOK
<1>2. ASSUME NEW r \in Request, NEW result, End(r, result)
      PROVE  req'[r].at = result /\ \A q \in Request \ {r} : req'[q] = req[q]
  BY <1>1, <1>2 DEF End, Blank
<1>3. ASSUME NEW r \in Request, UNCHANGED <<stamp, code>>, req[r].at # "commit",
             \A q \in Request \ {r} : req'[q] = req[q]
      PROVE  UNCHANGED stamp /\ (\A q \in Request : ~CommitOf(q)) /\ UNCHANGED code
  BY <1>3 DEF CommitOf
<1>4. ASSUME NEW r \in Request, Refuse(r) \/ Fail(r)
      PROVE  UNCHANGED stamp /\ (\A q \in Request : ~CommitOf(q)) /\ UNCHANGED code
  BY <1>2, <1>4 DEF Refuse, Fail, CommitOf, tables
<1>5. ASSUME NEW r \in Request, Commit(r), ~Refuse(r)
      PROVE  Applies(r) /\ \A q \in Request : CommitOf(q) <=> q = r
  <2>1. /\ \A q \in Request \ {r} : req'[q] = req[q]
        /\ req'[r].at \in {"readback", "accepted", "changed"}
    <3>1. req[r] \in ReqState /\ req[r].kind \in Kind /\ Answer(r)
      BY <1>1, <1>5 DEF ReqState, Commit
    <3>2. CASE req[r].kind \in {"password", "code"}
      <4> DEFINE d == NoDeadline
                 p == [req[r] EXCEPT !.at = "readback", !.limits = 0, !.seen = 0, !.deadline = d]
      <4>1. req' = [req EXCEPT ![r] = p]
        BY <1>1, <3>1, <3>2 DEF Answer, d
      <4>2. p.at = "readback"
        BY <3>1 DEF ReqState
      <4> HIDE DEF p
      <4> QED BY <1>1, <4>1, <4>2
    <3>3. CASE req[r].kind \in {"issue", "change"}
      BY <1>2, <3>1, <3>3 DEF Answer
    <3> QED BY <3>1, <3>2, <3>3 DEF Kind
  <2> QED BY <1>5, <2>1 DEF Commit, Applies, CommitOf
<1>6. ASSUME NEW r \in Request, Begin(r) \/ Step(r), ~Commit(r)
      PROVE  UNCHANGED stamp /\ (\A q \in Request : ~CommitOf(q)) /\ UNCHANGED code
  <2>1. CASE Begin(r) \/ Connect(r) \/ ReadBack(r)
    BY <1>1, <1>2, <1>3, <2>1 DEF Begin, Connect, ReadBack, Goto, tables
  <2>2. CASE Lock(r)
    BY <1>1, <1>3, <1>4, <2>2 DEF Lock, Admit, tables
  <2>3. CASE TakeSecondConnection(r) \/ CountLimit(r) \/ TakeSlot(r)
    BY <1>1, <1>3, <1>4, <2>3 DEF TakeSecondConnection, CountLimit, TakeSlot, Goto, tables
  <2>4. CASE Verify(r) \/ CheckCode(r)
    BY <1>1, <1>2, <1>3, <2>4 DEF Verify, CheckCode, Goto, tables
  <2>5. CASE IssueCode(r) \/ OpenWindow(r)
    BY <1>1, <1>3, <1>4, <2>5 DEF IssueCode, OpenWindow, Goto, tables
  <2> QED BY <1>6, <2>1, <2>2, <2>3, <2>4, <2>5
      DEF Step, Transaction, ReauthenticateWithPassword, ReauthenticateWithCode, RequestReauthenticationCode,
          GuardedChange
<1>7. CASE \/ \E s \in Session : Logout(s) \/ Refresh(s)
           \/ \E a \in Account : Recover(a)
           \/ Tick \/ UNCHANGED vars
  BY <1>7 DEF Logout, Refresh, Recover, Tick, vars, CommitOf
<1> QED BY <1>4, <1>5, <1>6, <1>7 DEF Next

\* What the commit of a proof finds: its session and its code have not ended, and the window is stamped
\* exactly if it was closed when the proof was complete.
LEMMA CommitInTime ==
  ASSUME WindowsFollowLocks, NEW r \in Request, Applies(r), req[r].effect \in {"password", "consume"}
  PROVE  LET s == req[r].session IN
         /\ Active(s) /\ (req[r].effect = "consume" => now < CodeEnd(Owner[s]))
         /\ req[r].stamps => ~IsOpen(s, now) /\ stamp'[s] = now
         /\ ~req[r].stamps => IsOpen(s, req[r].seen)
<1> DEFINE s == req[r].session
<1>1. /\ TypeOK /\ ReadsStayTrue(r) /\ req[r].at = "commit" /\ now < req[r].deadline /\ s \in Session
      /\ now \in Nat /\ req[r].seen \in Nat /\ req[r].deadline \in Nat /\ stamp \in [Session -> Time \cup {Never}]
      /\ stamp[s] \in Nat \cup {Never} /\ SessionEnd(s) \in Nat /\ CodeEnd(Owner[s]) \in Nat
      /\ (stamp[s] # Never => ExpiresAt(s) \in Nat)
  BY OwnAccount, Ends, NumbersAssumption DEF WindowsFollowLocks, TypeOK, ReqState, Time, Applies
<1>2. /\ s \notin revoked /\ req[r].deadline <= SessionEnd(s) /\ (req[r].stamps <=> ~IsOpen(s, req[r].seen))
      /\ stamp[s] = Never \/ stamp[s] <= req[r].seen
  BY <1>1 DEF ReadsStayTrue
<1>3. req[r].seen <= now /\ (req[r].effect = "consume" => req[r].deadline <= CodeEnd(Owner[s]))
  BY <1>1 DEF ReadsStayTrue
<1>4. Active(s) /\ (req[r].effect = "consume" => now < CodeEnd(Owner[s]))
  BY <1>1, <1>2, <1>3 DEF Active
<1>5. req[r].stamps => ~IsOpen(s, now)
  BY <1>1, <1>2, <1>3 DEF IsOpen
<1>6. req[r].stamps => stamp'[s] = now
  BY <1>1 DEF Applies
<1> QED BY <1>2, <1>4, <1>5, <1>6

\* WindowsOpenInTime: for any number of sessions and requests, an open window never moves, and opens
\* only for a session that has not ended, by a proof whose code has not ended.
THEOREM WindowsInTime == Spec => WindowsOpenInTime
<1>1. WindowsFollowLocks /\ [Next]_vars =>
        /\ \A s \in Session : stamp'[s] # stamp[s] =>
             /\ ~IsOpen(s, now) /\ Active(s)
             /\ \E r \in Request :
                  /\ req[r].session = s /\ Commits(r, {"password", "consume"})
                  /\ req[r].effect = "consume" => now < CodeEnd(Owner[s])
        /\ \A r \in Request : Commits(r, {"password", "consume"}) =>
             LET s == req[r].session IN stamp'[s] = now \/ IsOpen(s, req[r].seen)
  <2> SUFFICES ASSUME WindowsFollowLocks, [Next]_vars
               PROVE  /\ \A s \in Session : stamp'[s] # stamp[s] =>
                           /\ ~IsOpen(s, now) /\ Active(s)
                           /\ \E r \in Request :
                                /\ req[r].session = s /\ Commits(r, {"password", "consume"})
                                /\ req[r].effect = "consume" => now < CodeEnd(Owner[s])
                      /\ \A r \in Request : Commits(r, {"password", "consume"}) =>
                           LET s == req[r].session IN stamp'[s] = now \/ IsOpen(s, req[r].seen)
    OBVIOUS
  <2>1. stamp \in [Session -> Time \cup {Never}] /\ \A r \in Request : EffectFits(r)
    BY DEF WindowsFollowLocks, TypeOK
  <2>2. CASE \E r \in Request : Applies(r) /\ \A q \in Request : CommitOf(q) <=> q = r
    <3>1. PICK r \in Request : Applies(r) /\ \A q \in Request : CommitOf(q) <=> q = r
      BY <2>2
    <3>2. req[r].stamps => req[r].effect \in {"password", "consume"}
      BY <2>1 DEF EffectFits
    <3>3. \A s \in Session : stamp'[s] # stamp[s] => req[r].stamps /\ s = req[r].session
      BY <2>1, <3>1 DEF Applies
    <3>4. \A q \in Request : Commits(q, {"password", "consume"}) => q = r /\ req[r].effect \in {"password", "consume"}
      BY <3>1 DEF Commits, CommitOf
    <3>5. req[r].effect \in {"password", "consume"} => Commits(r, {"password", "consume"})
      BY <3>1 DEF Commits, CommitOf
    <3>6. req[r].effect \in {"password", "consume"} =>
            LET s == req[r].session IN
            /\ Active(s) /\ (req[r].effect = "consume" => now < CodeEnd(Owner[s]))
            /\ req[r].stamps => ~IsOpen(s, now) /\ stamp'[s] = now
            /\ ~req[r].stamps => IsOpen(s, req[r].seen)
      BY <3>1, CommitInTime
    <3> QED BY <3>2, <3>3, <3>4, <3>5, <3>6
  <2>3. CASE UNCHANGED stamp /\ \A q \in Request : ~CommitOf(q)
    BY <2>3 DEF Commits, CommitOf
  <2> QED BY <2>2, <2>3, OnlyCommits
<1> QED BY <1>1, Invariance, PTL DEF Spec, WindowsOpenInTime

\* ChangesInsideTheWindow: for any number of sessions and requests, a guarded change is
\* committed inside the window it was admitted in.
THEOREM ChangesInTime == Spec => ChangesInsideTheWindow
<1>1. WindowsFollowLocks /\ [Next]_vars =>
        \A r \in Request : Commits(r, {"change"}) => Active(req[r].session) /\ IsOpen(req[r].session, now)
  <2> SUFFICES ASSUME WindowsFollowLocks, [Next]_vars, NEW r \in Request, Commits(r, {"change"})
               PROVE  Active(req[r].session) /\ IsOpen(req[r].session, now)
    OBVIOUS
  <2> DEFINE s == req[r].session
  <2>1. CommitOf(r) /\ req[r].effect = "change" /\ req[r].at = "commit"
    BY DEF Commits, CommitOf
  <2>2. now < req[r].deadline
    BY <2>1, OnlyCommits DEF Applies
  <2>3. /\ TypeOK /\ ReadsStayTrue(r) /\ s \in Session /\ now \in Nat /\ req[r].deadline \in Nat
        /\ stamp[s] # Never => stamp[s] <= now
    BY OwnAccount, NumbersAssumption DEF WindowsFollowLocks, TypeOK, ReqState, Time
  <2>4. s \notin revoked /\ stamp[s] # Never /\ req[r].deadline <= ExpiresAt(s)
    BY <2>1, <2>3 DEF ReadsStayTrue
  <2>5. ExpiresAt(s) \in Nat /\ SessionEnd(s) \in Nat /\ ExpiresAt(s) <= SessionEnd(s)
    BY <2>3, <2>4, Ends
  <2> QED BY <2>2, <2>3, <2>4, <2>5 DEF Active, IsOpen
<1> QED BY <1>1, Invariance, PTL DEF Spec, ChangesInsideTheWindow

\* CodesAreSpent: for any number of sessions and requests of an account, a code is accepted once, while
\* it is current, and is never current again.
THEOREM CodesSpentOnce == Spec => CodesAreSpent
<1>1. WindowsFollowLocks /\ [Next]_vars =>
        /\ \A r \in Request : Commits(r, {"consume"}) =>
             LET c == code[AccountOf(r)] IN
             c.live /\ c.guesses < MaxGuesses /\ code'[AccountOf(r)] = [c EXCEPT !.live = FALSE]
        /\ \A a \in Account : code'[a].id = code[a].id =>
             /\ code'[a].live => code[a].live
             /\ code'[a].guesses >= code[a].guesses
  <2> SUFFICES ASSUME WindowsFollowLocks, [Next]_vars
               PROVE  /\ \A r \in Request : Commits(r, {"consume"}) =>
                           LET c == code[AccountOf(r)] IN
                           c.live /\ c.guesses < MaxGuesses /\ code'[AccountOf(r)] = [c EXCEPT !.live = FALSE]
                      /\ \A a \in Account : code'[a].id = code[a].id =>
                           /\ code'[a].live => code[a].live
                           /\ code'[a].guesses >= code[a].guesses
    OBVIOUS
  <2>1. code \in [Account -> Code] /\ \A a \in Account : code[a] \in Code /\ code[a].guesses \in Nat /\ code[a].id \in Nat
    BY NumbersAssumption DEF WindowsFollowLocks, TypeOK, Code
  <2>2. CASE \E r \in Request : Applies(r) /\ \A q \in Request : CommitOf(q) <=> q = r
    <3>1. PICK r \in Request : Applies(r) /\ \A q \in Request : CommitOf(q) <=> q = r
      BY <2>2
    <3> DEFINE a == AccountOf(r)
    <3>2. a \in Account /\ code' = [code EXCEPT ![a] = NewCode(r)] /\ a = Owner[req[r].session]
      BY <3>1, OwnAccount DEF WindowsFollowLocks, Applies
    <3>3. code'[a] = NewCode(r) /\ \A b \in Account \ {a} : code'[b] = code[b]
      BY <2>1, <3>2
    <3>4. req[r].effect = "consume" => code[a].live /\ code[a].guesses < MaxGuesses
      BY <3>1, <3>2 DEF WindowsFollowLocks, ReadsStayTrue, Applies
    <3>5. req[r].effect = "consume" => NewCode(r) = [code[a] EXCEPT !.live = FALSE]
      BY DEF NewCode
    <3>6. NewCode(r).id = code[a].id => (NewCode(r).live => code[a].live) /\ NewCode(r).guesses >= code[a].guesses
      <4>1. PICK c \in Code : c = code[a] /\ c.guesses \in Nat /\ c.id \in Nat
        BY <2>1, <3>2
      <4> QED BY <4>1 DEF NewCode, Code
    <3>7. ASSUME NEW q \in Request, Commits(q, {"consume"})
          PROVE  q = r /\ req[r].effect = "consume"
      BY <3>1, <3>7 DEF Commits, CommitOf
    <3>8. ASSUME NEW b \in Account, code'[b].id = code[b].id
          PROVE  (code'[b].live => code[b].live) /\ code'[b].guesses >= code[b].guesses
      <4>1. CASE b = a
        BY <3>3, <3>6, <3>8, <4>1
      <4>2. CASE b # a
        BY <2>1, <3>3, <3>8, <4>2
      <4> QED BY <4>1, <4>2
    <3>9. \A q \in Request : Commits(q, {"consume"}) =>
            LET c == code[AccountOf(q)] IN
            c.live /\ c.guesses < MaxGuesses /\ code'[AccountOf(q)] = [c EXCEPT !.live = FALSE]
      BY <3>3, <3>4, <3>5, <3>7
    <3> QED BY <3>8, <3>9
  <2>3. CASE /\ \A q \in Request : ~CommitOf(q)
             /\ UNCHANGED code \/ \E a \in Account : code' = [code EXCEPT ![a].live = FALSE]
    <3>1. ASSUME NEW a \in Account, code' = [code EXCEPT ![a].live = FALSE], NEW b \in Account
          PROVE  (code'[b].live => code[b].live) /\ code'[b].guesses >= code[b].guesses
      BY <2>1, <3>1 DEF Code
    <3> QED BY <2>1, <2>3, <3>1 DEF Commits, CommitOf
  <2> QED BY <2>2, <2>3, OnlyCommits
<1> QED BY <1>1, Invariance, PTL DEF Spec, CodesAreSpent
=============================================================================
