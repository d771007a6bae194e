------------------------ MODULE SessionRefreshProofs ------------------------
(* Theorems about SessionRefresh, for every value of its constants.        *)
EXTENDS SessionRefresh, TLAPS

LEMMA InitInv == Init => RefreshInv
<1> SUFFICES ASSUME Init PROVE RefreshInv
  OBVIOUS
<1>1. TypeOK
  <2>1. IdleLifetime \in 1..AbsoluteLifetime /\ 0 \in 0..AbsoluteLifetime /\ 0 \in 0..MaxTime
    BY TimesAssumption
  <2> QED BY <2>1 DEF Init, TypeOK, ReqState, Token
<1>2. LocksMatchProgress
  BY NamesAssumption DEF Init, LocksMatchProgress, HoldsAccount, HoldsSession
<1>3. FactsHold
  BY NamesAssumption DEF Init, FactsHold, Facts, HoldsAccount, Rotators, Known
<1>4. TokensAreTraceable /\ SingleUse /\ ReplayEndsSession
  BY NamesAssumption DEF Init, TokensAreTraceable, SingleUse, ReplayEndsSession, Rotators, Known, Token
<1> QED BY <1>1, <1>2, <1>3, <1>4 DEF RefreshInv

\* A step of request r alone: the tables stay, r is not done, and does not get to
\* a statement that it knows too little for.
LEMMA RequestMoves ==
  ASSUME RefreshInv, NEW r \in Request, req' \in [Request -> ReqState],
         \A q \in Request \ {r} : req'[q] = req[q],
         r \notin Rotators, r \notin Rotators', Facts(r)', req'[r].at # "replayed",
         UNCHANGED <<tables, held>>
  PROVE  FactsHold' /\ TokensAreTraceable' /\ SingleUse' /\ ReplayEndsSession'
<1> USE DEF tables, Known, StillCurrent, Rotators, HoldsAccount
<1>1. FactsHold'
  <2> SUFFICES ASSUME NEW q \in Request PROVE Facts(q)'
    BY DEF FactsHold
  <2>1. CASE q = r
    BY <2>1
  <2>2. CASE q # r
    <3>1. Facts(q) /\ req'[q] = req[q]
      BY <2>2 DEF RefreshInv, FactsHold
    <3> QED BY <3>1 DEF Facts
  <2> QED BY <2>1, <2>2
<1>2. TokensAreTraceable'
  BY DEF RefreshInv, TokensAreTraceable
<1>3. SingleUse'
  BY DEF RefreshInv, SingleUse
<1>4. ReplayEndsSession'
  BY DEF RefreshInv, ReplayEndsSession
<1> QED BY <1>1, <1>2, <1>3, <1>4

\* A refused or failed request gives back its locks and changes nothing else.
LEMMA GivesUp ==
  ASSUME RefreshInv, NEW r \in Request, req[r].at \in Running, NEW end \in {"refused", "failed"},
         req' = [req EXCEPT ![r].at = end], Release(r), UNCHANGED <<tables, held, now>>
  PROVE  RefreshInv'
<1>1. TypeOK'
  BY DEF RefreshInv, TypeOK, ReqState, Release, tables, Done
<1>2. LocksMatchProgress'
  BY NamesAssumption DEF RefreshInv, TypeOK, ReqState, LocksMatchProgress, HoldsAccount, HoldsSession, Release
<1>3. /\ req' \in [Request -> ReqState] /\ req'[r].at = end
      /\ \A q \in Request \ {r} : req'[q] = req[q]
  BY <1>1 DEF RefreshInv, TypeOK, ReqState
<1>4. r \notin Rotators /\ r \notin Rotators' /\ Facts(r)'
  BY <1>3 DEF RefreshInv, FactsHold, Facts, Running, Rotators, HoldsAccount, Known, tables
<1>5. FactsHold' /\ TokensAreTraceable' /\ SingleUse' /\ ReplayEndsSession'
  BY <1>3, <1>4, RequestMoves
<1> QED BY <1>1, <1>2, <1>5 DEF RefreshInv

\* A request that ends its transaction gives back its locks, and only those.
LEMMA ReleasesLocks ==
  ASSUME RefreshInv, NEW r \in Request, Release(r), \A q \in Request \ {r} : req'[q] = req[q],
         req'[r].at \notin {"lockSession", "rotate", "commitRotation", "commitReplay"}
  PROVE  LocksMatchProgress'
<1> SUFFICES ASSUME NEW q \in Request
             PROVE  /\ accountLock' = q <=> HoldsAccount(q)'
                    /\ \A s \in Session : sessionLock'[s] = q <=> HoldsSession(q)' /\ req'[q].session = s
  BY DEF LocksMatchProgress
<1>1. CASE q = r
  BY <1>1, NamesAssumption DEF Release, HoldsAccount, HoldsSession
<1>2. CASE q # r
  <2>1. /\ accountLock = q <=> HoldsAccount(q)
        /\ \A s \in Session : sessionLock[s] = q <=> HoldsSession(q) /\ req[q].session = s
        /\ req'[q] = req[q]
    BY <1>2 DEF RefreshInv, LocksMatchProgress
  <2>2. (accountLock' = q <=> accountLock = q) /\ (HoldsAccount(q)' <=> HoldsAccount(q))
    BY <1>2, <2>1, NamesAssumption DEF Release, HoldsAccount
  <2>3. \A s \in Session : sessionLock'[s] = q <=> sessionLock[s] = q
    BY <1>2, NamesAssumption DEF Release
  <2>4. HoldsSession(q)' <=> HoldsSession(q)
    BY <2>1 DEF HoldsSession
  <2> QED BY <2>1, <2>2, <2>3, <2>4
<1> QED BY <1>1, <1>2

\* A statement that moves request r on: it keeps its token and what it knows.
LEMMA KeepsRunning ==
  ASSUME RefreshInv, NEW r \in Request, NEW row \in ReqState, req' = [req EXCEPT ![r] = row],
         r \notin Rotators, row.at \in {"idle"} \cup Running, Facts(r)',
         UNCHANGED <<tables, held, now>>
  PROVE  FactsHold' /\ TokensAreTraceable' /\ SingleUse' /\ ReplayEndsSession'
<1>1. /\ req' \in [Request -> ReqState] /\ req'[r] = row
      /\ \A q \in Request \ {r} : req'[q] = req[q]
  BY DEF RefreshInv, TypeOK
<1>2. r \notin Rotators' /\ req'[r].at # "replayed"
  BY <1>1 DEF Rotators, Running
<1> QED BY <1>1, <1>2, RequestMoves

\* The sessions in R end, and no transaction is about to rotate one of them.
LEMMA Revoked ==
  ASSUME RefreshInv, NEW R \in SUBSET Session, revoked' = revoked \cup R,
         \A r \in Request : req[r].at = "commitRotation" => req[r].session \notin R,
         retired' \in BOOLEAN,
         UNCHANGED <<current, idleUntil, rotated, locks, req, held, now>>
  PROVE  RefreshInv'
<1>1. TypeOK'
  BY DEF RefreshInv, TypeOK, locks
<1>2. LocksMatchProgress'
  BY DEF RefreshInv, LocksMatchProgress, HoldsAccount, HoldsSession, locks
<1>3. FactsHold'
  BY DEF RefreshInv, FactsHold, Facts, HoldsAccount, Rotators, Known, StillCurrent
<1>4. TokensAreTraceable' /\ SingleUse' /\ ReplayEndsSession'
  BY DEF RefreshInv, TokensAreTraceable, SingleUse, ReplayEndsSession, Rotators, Known
<1> QED BY <1>1, <1>2, <1>3, <1>4 DEF RefreshInv

-----------------------------------------------------------------------------
(* Every step keeps the inductive invariant.                               *)

LEMMA Inductive ==
  ASSUME RefreshInv, [Next]_vars
  PROVE  RefreshInv'
<1> USE NamesAssumption
<1>1. ASSUME NEW r \in Request, NEW t \in held \cup {NoToken}, Present(r, t) PROVE RefreshInv'
  <2> DEFINE row == [req[r] EXCEPT !.at = "find", !.token = t]
  <2>1. row \in ReqState /\ req' = [req EXCEPT ![r] = row] /\ row.at = "find"
    <3>1. req \in [Request -> ReqState] /\ req[r] \in ReqState
      BY DEF RefreshInv, TypeOK
    <3>2. t \in Token \cup {NoToken}
      BY DEF RefreshInv, TypeOK
    <3>3. row \in ReqState
      BY <3>1, <3>2 DEF ReqState, Running
    <3>4. row.at = "find"
      BY <3>1 DEF ReqState
    <3>5. req' = [req EXCEPT ![r] = row]
      BY <1>1, <3>1 DEF Present, ReqState
    <3> QED BY <3>3, <3>4, <3>5
  <2>2. TypeOK'
    BY <1>1, <2>1 DEF Present, RefreshInv, TypeOK, tables, locks
  <2>3. LocksMatchProgress'
    BY <1>1 DEF Present, RefreshInv, TypeOK, ReqState, LocksMatchProgress, HoldsAccount, HoldsSession, locks
  <2>4. r \notin Rotators /\ Facts(r)'
    <3>1. req'[r].at = "find" /\ r \notin Rotators
      BY <1>1, <2>1 DEF Present, RefreshInv, TypeOK, Rotators
    <3>2. r \notin held /\ \A s \in Session : ~Known(r, s)
      BY <3>1 DEF RefreshInv, FactsHold, Facts
    <3> QED BY <1>1, <3>1, <3>2 DEF Present, Facts, HoldsAccount, Rotators, Known, tables
  <2> HIDE DEF row
  <2>5. FactsHold' /\ TokensAreTraceable' /\ SingleUse' /\ ReplayEndsSession'
    BY <1>1, <2>1, <2>4, KeepsRunning DEF Present, Running
  <2> QED BY <2>2, <2>3, <2>5 DEF RefreshInv
<1>2. ASSUME NEW r \in Request, FindRefreshSession(r) PROVE RefreshInv'
  <2>1. CASE Refuse(r)
    BY <1>2, <2>1, GivesUp DEF FindRefreshSession, Refuse, Running
  <2>2. ASSUME NEW s \in Session, Known(req[r].token, s),
               req' = [req EXCEPT ![r] = [@ EXCEPT !.at = "lockAccount", !.session = s]],
               UNCHANGED <<tables, locks, held, now>>
        PROVE  RefreshInv'
    <3> DEFINE row == [req[r] EXCEPT !.at = "lockAccount", !.session = s]
    <3>1. row \in ReqState /\ req' = [req EXCEPT ![r] = row] /\ row.at = "lockAccount"
      BY <2>2 DEF RefreshInv, TypeOK, ReqState, Running
    <3>2. TypeOK'
      BY <2>2, <3>1 DEF RefreshInv, TypeOK, tables, locks
    <3>3. /\ row.session = s /\ row.token = req[r].token
          /\ req[r].at = "find" /\ req'[r] = row
      BY <1>2, <3>1 DEF FindRefreshSession, RefreshInv, TypeOK, ReqState
    <3> HIDE DEF row
    <3>4. \A q \in Request \ {r} : req'[q] = req[q]
      BY <3>1 DEF RefreshInv, TypeOK
    <3>5. LocksMatchProgress'
      <4>1. accountLock # r /\ \A u \in Session : sessionLock[u] # r
        BY <3>3 DEF RefreshInv, LocksMatchProgress, HoldsAccount, HoldsSession
      <4>2. UNCHANGED <<accountLock, sessionLock>>
        BY <2>2 DEF locks
      <4> QED BY <3>1, <3>3, <3>4, <4>1, <4>2 DEF RefreshInv, LocksMatchProgress, HoldsAccount, HoldsSession
    <3>6. r \notin Rotators /\ Facts(r)'
      <4>1. r \notin Rotators
        BY <3>3 DEF Rotators
      <4>2. r \notin held /\ \A u \in Session : ~Known(r, u)
        BY <4>1 DEF RefreshInv, FactsHold, Facts
      <4>3. UNCHANGED <<current, rotated, held, revoked>>
        BY <2>2 DEF tables
      <4> QED BY <2>2, <3>1, <3>3, <4>1, <4>2, <4>3 DEF Facts, HoldsAccount, Rotators, Known
    <3>7. FactsHold' /\ TokensAreTraceable' /\ SingleUse' /\ ReplayEndsSession'
      BY <2>2, <3>1, <3>6, KeepsRunning DEF Running
    <3> QED BY <3>2, <3>5, <3>7 DEF RefreshInv
  <2> QED BY <1>2, <2>1, <2>2 DEF FindRefreshSession
<1>3. ASSUME NEW r \in Request, LockRefreshAccount(r) PROVE RefreshInv'
  <2>1. CASE Refuse(r)
    BY <1>3, <2>1, GivesUp DEF LockRefreshAccount, Refuse, Running
  <2>2. CASE /\ accountLock' = r
             /\ Goto(r, "lockSession")
             /\ UNCHANGED <<tables, sessionLock, held, now>>
    <3> DEFINE row == [req[r] EXCEPT !.at = "lockSession"]
    <3>1. row \in ReqState /\ req' = [req EXCEPT ![r] = row] /\ row.at = "lockSession"
      BY <2>2 DEF RefreshInv, TypeOK, ReqState, Running, Goto
    <3>2. TypeOK'
      BY <2>2, <3>1 DEF RefreshInv, TypeOK, tables
    <3>3. LocksMatchProgress'
      BY <1>3, <2>2 DEF LockRefreshAccount, Goto, RefreshInv, TypeOK, ReqState, LocksMatchProgress,
                        HoldsAccount, HoldsSession
    <3>4. r \notin Rotators /\ Facts(r)'
      BY <1>3, <2>2, <3>1 DEF LockRefreshAccount, RefreshInv, TypeOK, ReqState, FactsHold, Facts,
                              HoldsAccount, Rotators, Known, StillCurrent, tables
    <3> HIDE DEF row
    <3>5. FactsHold' /\ TokensAreTraceable' /\ SingleUse' /\ ReplayEndsSession'
      BY <2>2, <3>1, <3>4, KeepsRunning DEF Running
    <3> QED BY <3>2, <3>3, <3>5 DEF RefreshInv
  <2> QED BY <1>3, <2>1, <2>2 DEF LockRefreshAccount
<1>4. ASSUME NEW r \in Request, LockRefreshSession(r) PROVE RefreshInv'
  <2> DEFINE s == req[r].session
  <2>1. CASE Refuse(r)
    BY <1>4, <2>1, GivesUp DEF LockRefreshSession, Refuse, Running
  <2>2. CASE /\ sessionLock' = [sessionLock EXCEPT ![s] = r]
             /\ Goto(r, IF StillCurrent(r) THEN "rotate" ELSE "commitReplay")
             /\ UNCHANGED <<tables, accountLock, held, now>>
    <3> DEFINE row == [req[r] EXCEPT !.at = IF StillCurrent(r) THEN "rotate" ELSE "commitReplay"]
    <3>1. /\ row \in ReqState /\ req' = [req EXCEPT ![r] = row]
          /\ row.at \in {"rotate", "commitReplay"}
      BY <2>2 DEF RefreshInv, TypeOK, ReqState, Running, Goto
    <3>2. TypeOK'
      BY <2>2, <3>1 DEF RefreshInv, TypeOK, tables
    <3>3. s \in Session /\ (StillCurrent(r) \/ <<req[r].token, s>> \in rotated)
      BY <1>4 DEF LockRefreshSession, RefreshInv, FactsHold, Facts, HoldsAccount, Known, StillCurrent
    <3>4. LocksMatchProgress'
      BY <1>4, <2>2, <3>3 DEF LockRefreshSession, Goto, RefreshInv, TypeOK, ReqState, LocksMatchProgress,
                              HoldsAccount, HoldsSession
    <3>5. r \notin Rotators /\ Facts(r)'
      BY <1>4, <2>2, <3>1, <3>3
         DEF LockRefreshSession, RefreshInv, TypeOK, ReqState, FactsHold, Facts, HoldsAccount, Rotators,
             Known, StillCurrent, tables
    <3> HIDE DEF row
    <3>6. FactsHold' /\ TokensAreTraceable' /\ SingleUse' /\ ReplayEndsSession'
      BY <2>2, <3>1, <3>5, KeepsRunning DEF Running
    <3> QED BY <3>2, <3>4, <3>6 DEF RefreshInv
  <2> QED BY <1>4, <2>1, <2>2 DEF LockRefreshSession
<1>5. ASSUME NEW r \in Request, RotateCurrentRefreshToken(r) PROVE RefreshInv'
  <2>1. CASE Refuse(r)
    BY <1>5, <2>1, GivesUp DEF RotateCurrentRefreshToken, Refuse, Running
  <2>2. CASE /\ Usable(req[r].session) /\ StillCurrent(r)
             /\ req' = [req EXCEPT ![r] = [@ EXCEPT !.at = "commitRotation", !.idle = IdleExpiry]]
             /\ UNCHANGED <<tables, locks, held, now>>
    <3> DEFINE row == [req[r] EXCEPT !.at = "commitRotation", !.idle = IdleExpiry]
    <3>1. IdleExpiry \in 0..AbsoluteLifetime /\ IdleExpiry > 0
      BY TimesAssumption DEF IdleExpiry, RefreshInv, TypeOK
    <3>2. row \in ReqState /\ req' = [req EXCEPT ![r] = row] /\ row.at = "commitRotation"
      BY <2>2, <3>1 DEF RefreshInv, TypeOK, ReqState, Running
    <3>3. TypeOK'
      BY <2>2, <3>2 DEF RefreshInv, TypeOK, tables, locks
    <3>4. LocksMatchProgress'
      BY <1>5, <2>2 DEF RotateCurrentRefreshToken, RefreshInv, TypeOK, ReqState, LocksMatchProgress,
                        HoldsAccount, HoldsSession, locks
    <3>5. r \notin Rotators /\ Facts(r)'
      BY <1>5, <2>2, <3>1, <3>2
         DEF RotateCurrentRefreshToken, RefreshInv, TypeOK, ReqState, FactsHold, Facts, HoldsAccount,
             Rotators, Known, StillCurrent, Usable, tables
    <3> HIDE DEF row
    <3>6. FactsHold' /\ TokensAreTraceable' /\ SingleUse' /\ ReplayEndsSession'
      BY <2>2, <3>2, <3>5, KeepsRunning DEF Running
    <3> QED BY <3>3, <3>4, <3>6 DEF RefreshInv
  <2> QED BY <1>5, <2>1, <2>2 DEF RotateCurrentRefreshToken
<1>6. ASSUME NEW r \in Request, Fail(r) PROVE RefreshInv'
  BY <1>6, GivesUp DEF Fail, Goto
<1>7. ASSUME NEW s \in Session, LogoutCurrentSession(s) PROVE RefreshInv'
  <2>1. \A r \in Request : req[r].at = "commitRotation" => req[r].session \notin {s}
    BY <1>7 DEF LogoutCurrentSession, RefreshInv, LocksMatchProgress, HoldsSession
  <2> QED BY <1>7, <2>1, Revoked DEF LogoutCurrentSession, RefreshInv, TypeOK
<1>8. ASSUME accountLock = NoRequest, retired' \in BOOLEAN, revoked' = Session,
             UNCHANGED <<current, idleUntil, rotated, locks, req, held, now>>
      PROVE  RefreshInv'
  <2>1. \A r \in Request : req[r].at # "commitRotation"
    BY <1>8 DEF RefreshInv, LocksMatchProgress, HoldsAccount
  <2>2. revoked' = revoked \cup Session
    BY <1>8 DEF RefreshInv, TypeOK
  <2> QED BY <1>8, <2>1, <2>2, Revoked
<1>9. CASE Tick \/ UNCHANGED vars
  <2>1. now' \in 0..MaxTime /\ UNCHANGED <<tables, locks, req, held>>
    BY <1>9, TimesAssumption DEF Tick, vars, RefreshInv, TypeOK
  <2>2. TypeOK' /\ LocksMatchProgress'
    BY <2>1 DEF RefreshInv, TypeOK, LocksMatchProgress, HoldsAccount, HoldsSession, tables, locks
  <2>3. FactsHold' /\ TokensAreTraceable' /\ SingleUse' /\ ReplayEndsSession'
    BY <2>1 DEF RefreshInv, FactsHold, Facts, HoldsAccount, Rotators, Known, StillCurrent,
                TokensAreTraceable, SingleUse, ReplayEndsSession, tables
  <2> QED BY <2>2, <2>3 DEF RefreshInv
<1>10. ASSUME NEW r \in Request, CommitReplay(r) PROVE RefreshInv'
  <2> DEFINE s == req[r].session
  <2>1. /\ s \in Session /\ accountLock = r /\ sessionLock[s] = r
        /\ <<req[r].token, s>> \in rotated
        /\ r \notin held /\ \A u \in Session : ~Known(r, u)
    BY <1>10 DEF CommitReplay, RefreshInv, LocksMatchProgress, FactsHold, Facts, HoldsAccount,
                 HoldsSession, Rotators
  <2>2. /\ req[r].at = "commitReplay" /\ req'[r] = [req[r] EXCEPT !.at = "replayed"]
        /\ req' \in [Request -> ReqState]
        /\ \A q \in Request \ {r} : req'[q] = req[q]
        /\ revoked' = revoked \cup {s}
        /\ UNCHANGED <<retired, current, idleUntil, rotated, held, now>>
    BY <1>10 DEF CommitReplay, Goto, RefreshInv, TypeOK, ReqState, Done
  <2>3. req'[r].at = "replayed" /\ req'[r].session = s /\ req'[r].token = req[r].token
    BY <2>2 DEF RefreshInv, TypeOK, ReqState
  <2>4. TypeOK'
    BY <1>10, <2>1, <2>2 DEF CommitReplay, Release, RefreshInv, TypeOK
  <2>5. LocksMatchProgress'
    BY <1>10, <2>2, <2>3, ReleasesLocks DEF CommitReplay
  <2>6. FactsHold'
    <3> SUFFICES ASSUME NEW q \in Request PROVE Facts(q)'
      BY DEF FactsHold
    <3>1. CASE q = r
      BY <2>1, <2>2, <2>3, <3>1 DEF Facts, HoldsAccount, Rotators, Known
    <3>2. CASE q # r
      <4>1. req[q].at = "commitRotation" => req[q].session # s
        BY <2>1, <3>2 DEF RefreshInv, LocksMatchProgress, HoldsAccount
      <4>2. Facts(q) /\ req'[q] = req[q]
        BY <2>2, <3>2 DEF RefreshInv, FactsHold
      <4> QED BY <2>2, <4>1, <4>2 DEF Facts, HoldsAccount, Rotators, Known, StillCurrent
    <3> QED BY <3>1, <3>2
  <2>7. TokensAreTraceable'
    BY <2>2 DEF RefreshInv, TokensAreTraceable, Known
  <2>8. SingleUse' /\ ReplayEndsSession'
    <3>1. Rotators' = Rotators /\ r \notin Rotators
      BY <2>2, <2>3 DEF Rotators
    <3>2. SingleUse'
      BY <2>2, <3>1 DEF RefreshInv, SingleUse, Rotators
    <3>3. ReplayEndsSession'
      BY <2>2, <2>3 DEF RefreshInv, ReplayEndsSession
    <3> QED BY <3>2, <3>3
  <2> QED BY <2>4, <2>5, <2>6, <2>7, <2>8 DEF RefreshInv
<1>11. ASSUME NEW r \in Request, CommitRotation(r) PROVE RefreshInv'
  <2> DEFINE s == req[r].session
             t == req[r].token
  <2>1. /\ s \in Session /\ accountLock = r /\ sessionLock[s] = r
        /\ current[s] = t /\ t \in Token /\ s \notin revoked
        /\ r \notin held /\ \A u \in Session : ~Known(r, u)
    <3>1. req[r].at = "commitRotation" /\ r \notin Rotators /\ HoldsAccount(r) /\ HoldsSession(r)
      BY <1>11 DEF CommitRotation, Rotators, HoldsAccount, HoldsSession
    <3>2. Facts(r)
      BY DEF RefreshInv, FactsHold
    <3>3. s \in Session /\ current[s] = t /\ s \notin revoked
      BY <3>1, <3>2 DEF Facts, StillCurrent
    <3>4. accountLock = r /\ sessionLock[s] = r
      BY <3>1, <3>3 DEF RefreshInv, LocksMatchProgress
    <3>5. t \in Token
      BY <3>3 DEF RefreshInv, TypeOK
    <3>6. r \notin held /\ \A u \in Session : ~Known(r, u)
      BY <3>1, <3>2 DEF Facts
    <3> QED BY <3>3, <3>4, <3>5, <3>6
  <2>2. /\ req[r].at = "commitRotation" /\ req'[r] = [req[r] EXCEPT !.at = "respond"]
        /\ req' \in [Request -> ReqState]
        /\ \A q \in Request \ {r} : req'[q] = req[q]
        /\ current' = [current EXCEPT ![s] = r]
        /\ rotated' = rotated \cup {<<t, s>>}
        /\ UNCHANGED <<retired, revoked, held, now>>
    BY <1>11 DEF CommitRotation, Goto, RefreshInv, TypeOK, ReqState, Done
  <2>3. req'[r].at = "respond" /\ req'[r].session = s /\ req'[r].token = t
    BY <2>2 DEF RefreshInv, TypeOK, ReqState
  <2>4. TypeOK'
    <3>1. req[r].idle \in 1..AbsoluteLifetime
      <4>1. req[r].idle > 0
        BY <2>2 DEF RefreshInv, FactsHold, Facts
      <4>2. req[r].idle \in 0..AbsoluteLifetime
        BY DEF RefreshInv, TypeOK, ReqState
      <4> QED BY <4>1, <4>2, TimesAssumption
    <3> QED BY <1>11, <2>1, <2>2, <3>1 DEF CommitRotation, Release, RefreshInv, TypeOK, Token
  <2>5. LocksMatchProgress'
    BY <1>11, <2>2, <2>3, ReleasesLocks DEF CommitRotation
  <2> HIDE DEF s, t
  <2>6. /\ Rotators' = Rotators \cup {r}
        /\ r \notin Rotators
        /\ \A x \in Token, u \in Session :
             Known(x, u)' <=> Known(x, u) \/ (x = r /\ u = s)
    <3>1. r \notin Rotators /\ Rotators' = Rotators \cup {r}
      BY <2>2, <2>3 DEF Rotators
    <3>2. \A x \in Token, u \in Session : Known(x, u)' <=> Known(x, u) \/ (x = r /\ u = s)
      <4> SUFFICES ASSUME NEW x \in Token, NEW u \in Session
                   PROVE  Known(x, u)' <=> Known(x, u) \/ (x = r /\ u = s)
        OBVIOUS
      <4>1. current'[u] = IF u = s THEN r ELSE current[u]
        BY <2>1, <2>2 DEF RefreshInv, TypeOK
      <4>2. <<x, u>> \in rotated' <=> <<x, u>> \in rotated \/ (x = t /\ u = s)
        BY <2>2
      <4> QED BY <2>1, <4>1, <4>2 DEF Known
    <3> QED BY <3>1, <3>2
  <2>7. FactsHold'
    <3> SUFFICES ASSUME NEW q \in Request PROVE Facts(q)'
      BY DEF FactsHold
    <3>1. CASE q = r
      BY <2>1, <2>2, <2>3, <3>1 DEF Facts, HoldsAccount, Rotators, Known, RefreshInv, TypeOK
    <3>2. CASE q # r
      <4>1. ~HoldsAccount(q)
        BY <2>1, <3>2 DEF RefreshInv, LocksMatchProgress
      <4>2. Facts(q) /\ req'[q] = req[q]
        BY <2>2, <3>2 DEF RefreshInv, FactsHold
      <4>3. req[q].at \notin {"lockSession", "rotate", "commitRotation", "commitReplay"}
        BY <4>1 DEF HoldsAccount
      <4>4. q \in Rotators' <=> q \in Rotators
        BY <3>2, <4>2, <2>6
      <4>5. /\ q \in held' <=> q \in held
            /\ rotated \subseteq rotated' /\ \A u \in Session : Known(q, u)' <=> Known(q, u)
        BY <2>2, <2>6, <3>2 DEF Token
      <4>6. req[q].at = "lockAccount" => /\ req[q].session \in Session
                                         /\ Known(req[q].token, req[q].session)'
        <5> SUFFICES ASSUME req[q].at = "lockAccount"
                     PROVE  req[q].session \in Session /\ Known(req[q].token, req[q].session)'
          OBVIOUS
        <5>1. req[q].session \in Session /\ Known(req[q].token, req[q].session)
          BY <4>2 DEF Facts
        <5>2. req[q].token \in Token
          BY <5>1 DEF Known, RefreshInv, TypeOK
        <5>3. /\ req'[q] = req[q]
              /\ Known(req[q].token, req[q].session) => \A x \in Token, u \in Session :
                   x = req[q].token /\ u = req[q].session => Known(x, u)'
          BY <2>6, <4>2
        <5> QED BY <5>1, <5>2, <5>3 DEF Known
      <4> QED BY <4>2, <4>3, <4>4, <4>5, <4>6 DEF Facts, HoldsAccount
    <3> QED BY <3>1, <3>2
  <2>8. TokensAreTraceable'
    BY <2>1, <2>2 DEF RefreshInv, TypeOK, TokensAreTraceable, Known, Token
  <2>9. SingleUse'
    <3>1. \A q \in Rotators : req[q].token # t
      <4> SUFFICES ASSUME NEW q \in Rotators, req[q].token = t PROVE FALSE
        OBVIOUS
      <4>1. q \in Request /\ <<t, req[q].session>> \in rotated
        BY DEF RefreshInv, FactsHold, Facts, Rotators
      <4>2. req[q].session \in Session
        BY <4>1 DEF RefreshInv, TypeOK
      <4>3. req[q].session = s
        BY <2>1, <4>1, <4>2 DEF RefreshInv, TokensAreTraceable, Known
      <4> QED BY <2>1, <4>1, <4>3 DEF RefreshInv, TokensAreTraceable
    <3>2. \A q \in Rotators : q \in Request /\ q # r /\ req'[q] = req[q]
      BY <2>2, <2>6 DEF Rotators
    <3> QED BY <2>3, <2>6, <3>1, <3>2 DEF RefreshInv, SingleUse
  <2>10. ReplayEndsSession'
    BY <2>2, <2>3 DEF RefreshInv, ReplayEndsSession
  <2> QED BY <2>4, <2>5, <2>7, <2>8, <2>9, <2>10 DEF RefreshInv
<1>12. ASSUME NEW r \in Request, Respond(r) PROVE RefreshInv'
  <2>1. PICK end \in {"granted", "lost"} :
          /\ req' = [req EXCEPT ![r].at = end]
          /\ held' \in {held, held \cup {r}}
    BY <1>12 DEF Respond
  <2>2. /\ req[r].at = "respond" /\ req'[r].at = end
        /\ req'[r].session = req[r].session /\ req'[r].token = req[r].token
        /\ \A q \in Request \ {r} : req'[q] = req[q]
        /\ UNCHANGED <<tables, locks, now>>
    BY <1>12, <2>1 DEF Respond, RefreshInv, TypeOK, ReqState
  <2>3. TypeOK'
    BY <2>1, <2>2 DEF RefreshInv, TypeOK, ReqState, Done, Token, tables, locks
  <2>4. LocksMatchProgress'
    BY <2>2 DEF RefreshInv, LocksMatchProgress, HoldsAccount, HoldsSession, locks
  <2>5. r \in Rotators /\ \E s \in Session : Known(r, s)
    BY <2>2 DEF Rotators, RefreshInv, FactsHold, Facts
  <2>6. FactsHold'
    <3> SUFFICES ASSUME NEW q \in Request PROVE Facts(q)'
      BY DEF FactsHold
    <3>1. CASE q = r
      BY <2>2, <2>5, <3>1 DEF RefreshInv, FactsHold, Facts, HoldsAccount, Rotators, Known, tables
    <3>2. CASE q # r
      BY <2>1, <2>2, <3>2 DEF RefreshInv, FactsHold, Facts, HoldsAccount, Rotators, Known, StillCurrent, tables
    <3> QED BY <3>1, <3>2
  <2>7. TokensAreTraceable'
    BY <2>1, <2>2, <2>5 DEF RefreshInv, TokensAreTraceable, Known, tables
  <2>8. SingleUse' /\ ReplayEndsSession'
    BY <2>2 DEF RefreshInv, SingleUse, ReplayEndsSession, Rotators, tables
  <2> QED BY <2>3, <2>4, <2>6, <2>7, <2>8 DEF RefreshInv
<1> QED
  <2>1. ASSUME NEW s \in Session, LogoutAllSessions(s) PROVE RefreshInv'
    BY <1>8, <2>1 DEF LogoutAllSessions, RefreshInv, TypeOK
  <2>2. ASSUME NEW retire \in BOOLEAN, RecoverAccount(retire) PROVE RefreshInv'
    BY <1>8, <2>2 DEF RecoverAccount
  <2> QED BY <1>1, <1>2, <1>3, <1>4, <1>5, <1>6, <1>7, <1>9, <1>10, <1>11, <1>12, <2>1, <2>2
          DEF Next, Refresh, Statement, Revocations

-----------------------------------------------------------------------------
(* The invariants of every behaviour.                                      *)

\* The inductive invariant: every request knows, at each of its statements, what
\* the rows that it has locked still say, whatever the others have done since.
THEOREM RefreshInvariance == Spec => []RefreshInv
<1>1. Init => RefreshInv
  BY InitInv
<1>2. RefreshInv /\ [Next]_vars => RefreshInv'
  BY Inductive
<1> QED BY <1>1, <1>2, PTL DEF Spec

\* A refresh token is exchanged at most once, however many requests present it
\* at the same time: the row lock and the comparison under it decide.
THEOREM TokensAreSingleUse == Spec => []SingleUse
<1>1. RefreshInv => SingleUse
  BY DEF RefreshInv
<1> QED BY <1>1, RefreshInvariance, PTL

\* A token that was ever handed out leads to its session, and to no other.
THEOREM TokensStayTraceable == Spec => []TokensAreTraceable
<1>1. RefreshInv => TokensAreTraceable
  BY DEF RefreshInv
<1> QED BY <1>1, RefreshInvariance, PTL

\* The revocation that a replay causes is committed although the caller is
\* answered with an error, and nothing takes it back.
THEOREM ReplaysEndSessions == Spec => []ReplayEndsSession
<1>1. RefreshInv => ReplayEndsSession
  BY DEF RefreshInv
<1> QED BY <1>1, RefreshInvariance, PTL

\* No request locks a session without the account above it, so that two
\* transactions never wait for each other's rows.
THEOREM LocksAreOrdered == Spec => []LockOrder
<1>1. RefreshInv => LockOrder
  <2> SUFFICES ASSUME RefreshInv, NEW s \in Session, sessionLock[s] # NoRequest
               PROVE  accountLock = sessionLock[s]
    BY DEF LockOrder
  <2>1. sessionLock[s] \in Request
    BY DEF RefreshInv, TypeOK
  <2>2. HoldsSession(sessionLock[s])
    BY <2>1 DEF RefreshInv, LocksMatchProgress
  <2> QED BY <2>1, <2>2 DEF RefreshInv, LocksMatchProgress, HoldsSession, HoldsAccount
<1> QED BY <1>1, RefreshInvariance, PTL

\* No request waits in a ring: one that waits for the account has no lock yet, and who has the
\* account never waits for a session.
THEOREM RefreshesWaitInNoRing == Spec => []NoRingOfWaits
<1>1. RefreshInv => NoRingOfWaits
  <2> SUFFICES ASSUME RefreshInv PROVE NoRingOfWaits
    OBVIOUS
  <2>1. ASSUME NEW r \in Request, req[r].at = "lockSession"
        PROVE  sessionLock[req[r].session] = NoRequest
    <3> DEFINE s == req[r].session
               q == sessionLock[s]
    <3>1. accountLock = r /\ s \in Session
      BY <2>1 DEF RefreshInv, LocksMatchProgress, FactsHold, Facts, HoldsAccount
    <3> SUFFICES ASSUME q # NoRequest PROVE FALSE
      OBVIOUS
    <3>2. q \in Request
      BY <3>1 DEF RefreshInv, TypeOK
    <3>3. HoldsSession(q)
      BY <3>1, <3>2 DEF RefreshInv, LocksMatchProgress
    <3>4. accountLock = q
      BY <3>2, <3>3 DEF RefreshInv, LocksMatchProgress, HoldsSession, HoldsAccount
    <3> QED BY <2>1, <3>1, <3>3, <3>4 DEF HoldsSession
  <2>2. ASSUME NEW r \in Request, Waits(r)
        PROVE  req[r].at = "lockAccount" /\ GoesOn(accountLock)
    <3>1. req[r].at = "lockAccount" /\ accountLock # NoRequest
      BY <2>1, <2>2 DEF Waits
    <3>2. accountLock \in Request
      BY <3>1 DEF RefreshInv, TypeOK
    <3>3. HoldsAccount(accountLock)
      BY <3>2 DEF RefreshInv, LocksMatchProgress
    <3>4. ~Waits(accountLock)
      BY <2>1, <3>2, <3>3 DEF Waits, HoldsAccount
    <3> QED BY <3>1, <3>3, <3>4 DEF GoesOn, HoldsAccount, Running
  <2> QED BY <2>2 DEF NoRingOfWaits
<1> QED BY <1>1, RefreshInvariance, PTL

\* A revoked session never gets another token and never comes back: a rotation
\* that is under way when its session is revoked loses, or was first.
THEOREM RevocationIsFinal == Spec => NoTokenAfterRevocation
<1>1. ASSUME RefreshInv, Next PROVE \A s \in revoked : current'[s] = current[s] /\ s \in revoked'
  <2> SUFFICES ASSUME NEW s \in revoked PROVE current'[s] = current[s] /\ s \in revoked'
    OBVIOUS
  <2>1. s \in Session
    BY <1>1 DEF RefreshInv, TypeOK
  <2>2. ASSUME NEW r \in Request, CommitRotation(r) PROVE current'[s] = current[s] /\ s \in revoked'
    <3>1. req[r].session \notin revoked
      BY <1>1, <2>2 DEF CommitRotation, RefreshInv, FactsHold, Facts
    <3> QED BY <1>1, <2>1, <2>2, <3>1 DEF CommitRotation, RefreshInv, TypeOK
  <2>3. ASSUME NEW r \in Request, Refuse(r) PROVE UNCHANGED <<current, revoked>>
    BY <2>3 DEF Refuse, tables
  <2>4. ASSUME NEW r \in Request, Refresh(r), ~CommitRotation(r)
        PROVE  current' = current /\ revoked \subseteq revoked'
    <3>1. ASSUME NEW t \in held \cup {NoToken}, Present(r, t) PROVE UNCHANGED <<current, revoked>>
      BY <3>1 DEF Present, tables
    <3>2. CASE FindRefreshSession(r) \/ LockRefreshAccount(r) \/ LockRefreshSession(r)
      BY <2>3, <3>2 DEF FindRefreshSession, LockRefreshAccount, LockRefreshSession, tables
    <3>3. CASE RotateCurrentRefreshToken(r) \/ Respond(r) \/ Fail(r)
      BY <2>3, <3>3 DEF RotateCurrentRefreshToken, Respond, Fail, tables
    <3>4. CASE CommitReplay(r)
      BY <3>4 DEF CommitReplay
    <3> QED BY <2>4, <3>1, <3>2, <3>3, <3>4 DEF Refresh, Statement
  <2>5. CASE Revocations
    BY <1>1, <2>1, <2>5 DEF Revocations, LogoutCurrentSession, LogoutAllSessions, RecoverAccount
  <2>6. CASE Tick
    BY <2>6 DEF Tick, tables
  <2> QED BY <1>1, <2>2, <2>4, <2>5, <2>6 DEF Next
<1>2. RefreshInv /\ [Next]_vars => [\A s \in revoked : current'[s] = current[s] /\ s \in revoked']_vars
  BY <1>1
<1> QED BY <1>2, RefreshInvariance, PTL DEF Spec, NoTokenAfterRevocation

-----------------------------------------------------------------------------
(* Rotation implements the chain of tokens.                                *)

\* A step of request r changes at most what it presents and what it is answered.
LEMMA MovesOf ==
  ASSUME TypeOK, NEW r \in Request, req' \in [Request -> ReqState],
         \A q \in Request \ {r} : req'[q] = req[q]
  PROVE  /\ Offered' = [Offered EXCEPT ![r] = req'[r].token]
         /\ Answers' = [Answers EXCEPT ![r] = Answer(r)']
<1>1. \A q \in Request \ {r} : Answer(q)' = Answer(q)
  <2> SUFFICES ASSUME NEW q \in Request, q # r PROVE Answer(q)' = Answer(q)
    OBVIOUS
  <2>1. req'[q] = req[q]
    OBVIOUS
  <2> QED BY <2>1 DEF Answer, Rotators
<1>2. Answers' = [Answers EXCEPT ![r] = Answer(r)']
  <2>1. Answers' = [q \in Request |-> IF q = r THEN Answer(r)' ELSE Answer(q)]
    BY <1>1, Zenon DEF Answers
  <2> QED BY <2>1, Zenon DEF Answers
<1> QED BY <1>2 DEF Offered

\* What a request is answered, by the statement that it is at.
LEMMA AnswerAt ==
  ASSUME NEW r \in Request
  PROVE  /\ req[r].at = "idle" => Answer(r) = "none"
         /\ req[r].at \in Running => Answer(r) = "pending"
         /\ req[r].at \in {"respond", "granted", "lost"} => Answer(r) = "granted"
         /\ req[r].at = "replayed" => Answer(r) = "replayed"
         /\ req[r].at \in {"refused", "failed"} => Answer(r) = "refused"
<1> USE DEF Answer, Running, Rotators
<1> QED OBVIOUS

LEMMA AnswerAtNext ==
  ASSUME NEW r \in Request
  PROVE  /\ req'[r].at \in Running => Answer(r)' = "pending"
         /\ req'[r].at \in {"respond", "granted", "lost"} => Answer(r)' = "granted"
         /\ req'[r].at = "replayed" => Answer(r)' = "replayed"
         /\ req'[r].at \in {"refused", "failed"} => Answer(r)' = "refused"
<1> USE DEF Answer, Running, Rotators
<1> QED OBVIOUS

LEMMA StepsOfTheChain ==
  ASSUME RefreshInv, RefreshInv', [Next]_vars
  PROVE  [Chain!Next]_Chain!vars
<1> USE DEF Chain!vars
<1>1. TypeOK /\ req' \in [Request -> ReqState] /\ Answers = [r \in Request |-> Answer(r)]
  BY DEF RefreshInv, TypeOK, Answers
<1>2. ASSUME NEW r \in Request, req[r].at \in Running, NEW end \in {"refused", "failed"},
             req' = [req EXCEPT ![r].at = end], UNCHANGED tables
      PROVE  Chain!Refuse(r)
  <2>1. /\ req'[r].at = end /\ req'[r].token = req[r].token
        /\ \A q \in Request \ {r} : req'[q] = req[q]
    BY <1>2 DEF RefreshInv, TypeOK, ReqState
  <2>2. Offered' = [Offered EXCEPT ![r] = req[r].token] /\ Answers' = [Answers EXCEPT ![r] = "refused"]
    BY <1>1, <2>1, MovesOf, AnswerAtNext
  <2>3. Answers[r] = "pending" /\ Offered' = Offered
    BY <1>1, <1>2, <2>2, AnswerAt DEF Offered
  <2> QED BY <1>2, <2>2, <2>3 DEF Chain!Refuse, tables
<1>3. ASSUME NEW r \in Request, Answer(r) = Answer(r)', req'[r].token = req[r].token,
             \A q \in Request \ {r} : req'[q] = req[q], UNCHANGED tables
      PROVE  UNCHANGED Chain!vars
  <2>1. Offered' = [Offered EXCEPT ![r] = req[r].token] /\ Answers' = [Answers EXCEPT ![r] = Answer(r)]
    BY <1>1, <1>3, MovesOf
  <2>2. Offered' = Offered /\ Answers' = Answers
    BY <1>1, <2>1 DEF Offered
  <2> QED BY <1>3, <2>2 DEF tables
<1>4. ASSUME NEW r \in Request, req[r].at \in Running, req'[r].at \in Running,
             req'[r].token = req[r].token, \A q \in Request \ {r} : req'[q] = req[q], UNCHANGED tables
      PROVE  UNCHANGED Chain!vars
  BY <1>3, <1>4, AnswerAt, AnswerAtNext
<1>5. ASSUME NEW r \in Request, Refuse(r), req[r].at \in Running PROVE Chain!Refuse(r)
  BY <1>2, <1>5 DEF Refuse
<1>6. ASSUME NEW r \in Request, NEW t \in held \cup {NoToken}, Present(r, t) PROVE Chain!Offer(r, t)
  <2>1. /\ req'[r].at = "find" /\ req'[r].token = t /\ req[r].at = "idle"
        /\ \A q \in Request \ {r} : req'[q] = req[q]
    BY <1>6 DEF Present, RefreshInv, TypeOK, ReqState
  <2>2. Offered' = [Offered EXCEPT ![r] = t] /\ Answers' = [Answers EXCEPT ![r] = "pending"]
    BY <1>1, <2>1, MovesOf, AnswerAtNext DEF Running
  <2>3. Answers[r] = "none"
    BY <1>1, <2>1, AnswerAt
  <2> QED BY <1>6, <2>2, <2>3 DEF Chain!Offer, Present, tables
<1>7. ASSUME NEW r \in Request, CommitRotation(r) PROVE Chain!Grant(r, req[r].session)
  <2>1. /\ req'[r].at = "respond" /\ req'[r].token = req[r].token /\ req[r].at = "commitRotation"
        /\ \A q \in Request \ {r} : req'[q] = req[q]
    BY <1>7 DEF CommitRotation, Goto, RefreshInv, TypeOK, ReqState
  <2>2. Offered' = [Offered EXCEPT ![r] = req[r].token] /\ Answers' = [Answers EXCEPT ![r] = "granted"]
    BY <1>1, <2>1, MovesOf, AnswerAtNext
  <2>3. Answers[r] = "pending" /\ Offered' = Offered /\ Offered[r] = req[r].token
    BY <1>1, <2>1, <2>2, AnswerAt DEF Offered, Running
  <2>4. StillCurrent(r) /\ req[r].session \notin revoked
    BY <2>1 DEF RefreshInv, FactsHold, Facts
  <2> QED BY <1>7, <2>2, <2>3, <2>4 DEF Chain!Grant, CommitRotation, StillCurrent
<1>8. ASSUME NEW r \in Request, CommitReplay(r) PROVE Chain!Replay(r, req[r].session)
  <2>1. /\ req'[r].at = "replayed" /\ req'[r].token = req[r].token /\ req[r].at = "commitReplay"
        /\ \A q \in Request \ {r} : req'[q] = req[q]
    BY <1>8 DEF CommitReplay, Goto, RefreshInv, TypeOK, ReqState
  <2>2. Offered' = [Offered EXCEPT ![r] = req[r].token] /\ Answers' = [Answers EXCEPT ![r] = "replayed"]
    BY <1>1, <2>1, MovesOf, AnswerAtNext
  <2>3. Answers[r] = "pending" /\ Offered' = Offered /\ Offered[r] = req[r].token
    BY <1>1, <2>1, <2>2, AnswerAt DEF Offered, Running
  <2>4. <<req[r].token, req[r].session>> \in rotated
    BY <2>1 DEF RefreshInv, FactsHold, Facts
  <2> QED BY <1>8, <2>2, <2>3, <2>4 DEF Chain!Replay, CommitReplay
<1>9. ASSUME NEW r \in Request, Statement(r), ~Refuse(r), ~CommitRotation(r), ~CommitReplay(r)
      PROVE  UNCHANGED Chain!vars
  <2>0. ASSUME NEW step \in Running, Goto(r, step)
        PROVE  /\ req[r].at \in Running /\ req'[r].at \in Running /\ req'[r].token = req[r].token
               /\ \A q \in Request \ {r} : req'[q] = req[q]
    BY <2>0 DEF Goto, RefreshInv, TypeOK, ReqState
  <2>1. CASE Respond(r)
    <3>1. /\ req[r].at = "respond" /\ req'[r].at \in {"granted", "lost"}
          /\ req'[r].token = req[r].token /\ \A q \in Request \ {r} : req'[q] = req[q]
      BY <2>1 DEF Respond, RefreshInv, TypeOK, ReqState
    <3>2. UNCHANGED tables
      BY <2>1 DEF Respond
    <3> QED BY <1>3, <3>1, <3>2, AnswerAt, AnswerAtNext
  <2>2. CASE FindRefreshSession(r) \/ LockRefreshAccount(r)
    <3>1. /\ req[r].at \in Running /\ req'[r].at \in Running /\ req'[r].token = req[r].token
          /\ \A q \in Request \ {r} : req'[q] = req[q]
      <4>1. CASE FindRefreshSession(r)
        <5>1. PICK s \in Session : req' = [req EXCEPT ![r] = [@ EXCEPT !.at = "lockAccount", !.session = s]]
          BY <1>9, <4>1 DEF FindRefreshSession
        <5>2. req \in [Request -> ReqState] /\ req[r].at = "find"
          BY <4>1 DEF FindRefreshSession, RefreshInv, TypeOK
        <5>3. req'[r] = [req[r] EXCEPT !.at = "lockAccount", !.session = s] /\ \A q \in Request \ {r} : req'[q] = req[q]
          BY <5>1, <5>2
        <5> QED BY <5>2, <5>3 DEF Running, ReqState
      <4>2. CASE LockRefreshAccount(r)
        <5>1. Goto(r, "lockSession")
          BY <1>9, <4>2 DEF LockRefreshAccount
        <5> QED BY <2>0, <5>1 DEF Running
      <4> QED BY <2>2, <4>1, <4>2
    <3>2. UNCHANGED tables
      BY <1>9, <2>2 DEF FindRefreshSession, LockRefreshAccount, tables
    <3> QED BY <1>4, <3>1, <3>2
  <2>3. CASE LockRefreshSession(r) \/ RotateCurrentRefreshToken(r)
    <3>1. /\ req[r].at \in Running /\ req'[r].at \in Running /\ req'[r].token = req[r].token
          /\ \A q \in Request \ {r} : req'[q] = req[q]
      <4>1. CASE LockRefreshSession(r)
        <5>1. \E step \in {"rotate", "commitReplay"} : Goto(r, step)
          BY <1>9, <4>1 DEF LockRefreshSession
        <5> QED BY <2>0, <5>1 DEF Running
      <4>2. CASE RotateCurrentRefreshToken(r)
        <5>1. req' = [req EXCEPT ![r] = [@ EXCEPT !.at = "commitRotation", !.idle = IdleExpiry]]
          BY <1>9, <4>2 DEF RotateCurrentRefreshToken
        <5>2. req \in [Request -> ReqState] /\ req[r].at = "rotate"
          BY <4>2 DEF RotateCurrentRefreshToken, RefreshInv, TypeOK
        <5>3. req'[r] = [req[r] EXCEPT !.at = "commitRotation", !.idle = IdleExpiry] /\ \A q \in Request \ {r} : req'[q] = req[q]
          BY <5>1, <5>2
        <5> QED BY <5>2, <5>3 DEF Running, ReqState
      <4> QED BY <2>3, <4>1, <4>2
    <3>2. UNCHANGED tables
      BY <1>9, <2>3 DEF LockRefreshSession, RotateCurrentRefreshToken, tables
    <3> QED BY <1>4, <3>1, <3>2
  <2> QED BY <1>9, <2>1, <2>2, <2>3 DEF Statement
<1>10. ASSUME NEW R \in SUBSET Session, revoked' = revoked \cup R, UNCHANGED <<current, rotated, req>>
       PROVE  Chain!End(R)
  <2>1. Offered' = Offered /\ Answers' = Answers
    BY <1>10 DEF Offered, Answers, Answer, Rotators
  <2> QED BY <1>10, <2>1 DEF Chain!End
<1>11. CASE Tick \/ UNCHANGED vars
  <2>1. UNCHANGED <<req, current, rotated, revoked>>
    BY <1>11 DEF Tick, vars, tables
  <2>2. Offered' = Offered /\ Answers' = Answers
    BY <2>1 DEF Offered, Answers, Answer, Rotators
  <2> QED BY <2>1, <2>2
<1>12. CASE Revocations
  <2>1. PICK R \in SUBSET Session : revoked' = revoked \cup R
    BY <1>12 DEF Revocations, LogoutCurrentSession, LogoutAllSessions, RecoverAccount, RefreshInv, TypeOK
  <2>2. UNCHANGED <<current, rotated, req>>
    BY <1>12 DEF Revocations, LogoutCurrentSession, LogoutAllSessions, RecoverAccount
  <2> QED BY <1>10, <2>1, <2>2 DEF Chain!Next
<1>13. ASSUME NEW r \in Request, Refresh(r) PROVE [Chain!Next]_Chain!vars
  <2>1. ASSUME NEW t \in held \cup {NoToken}, Present(r, t) PROVE Chain!Next
    <3>1. t \in Token \cup {NoToken}
      BY <2>1 DEF RefreshInv, TypeOK
    <3> QED BY <1>6, <2>1, <3>1 DEF Chain!Next, Token, Chain!Token
  <2>2. CASE CommitRotation(r) \/ CommitReplay(r)
    <3>1. req[r].session \in Session
      BY <2>2 DEF CommitRotation, CommitReplay, RefreshInv, FactsHold, Facts, HoldsAccount
    <3> QED BY <1>7, <1>8, <2>2, <3>1 DEF Chain!Next
  <2>3. CASE Statement(r) /\ Refuse(r)
    <3>1. req'[r].at = "refused"
      BY <2>3 DEF Refuse, RefreshInv, TypeOK, ReqState
    <3>2. ~Respond(r)
      BY <3>1 DEF Respond, RefreshInv, TypeOK, ReqState
    <3>3. req[r].at \in Running
      BY <2>3, <3>2 DEF Statement, FindRefreshSession, LockRefreshAccount, LockRefreshSession,
                        RotateCurrentRefreshToken, CommitRotation, CommitReplay, Running
    <3> QED BY <1>5, <2>3, <3>3 DEF Chain!Next
  <2>4. CASE Statement(r) /\ ~Refuse(r) /\ ~CommitRotation(r) /\ ~CommitReplay(r)
    BY <1>9, <2>4
  <2>5. CASE Fail(r)
    BY <1>2, <2>5 DEF Fail, Goto, Chain!Next
  <2> QED BY <1>13, <2>1, <2>2, <2>3, <2>4, <2>5 DEF Refresh
<1> QED BY <1>11, <1>12, <1>13 DEF Next

\* Statements, locks, failures, races and lost answers add nothing to what the
\* chain promises: every step of a rotation is a step of the chain or none.
THEOREM RotationImplementsChain == Spec => ImplementsChain
<1>1. Init => Chain!Init
  <2> SUFFICES ASSUME Init PROVE Chain!Init
    OBVIOUS
  <2>1. \A r \in Request : req[r].token = NoToken /\ Answer(r) = "none"
    BY AnswerAt DEF Init
  <2>2. Offered = [r \in Request |-> NoToken] /\ Answers = [r \in Request |-> "none"]
    BY <2>1 DEF Offered, Answers
  <2> QED BY <2>2 DEF Init, Chain!Init
<1>2. RefreshInv /\ RefreshInv' /\ [Next]_vars => [Chain!Next]_Chain!vars
  BY StepsOfTheChain
<1> QED BY <1>1, <1>2, RefreshInvariance, PTL DEF Spec, ImplementsChain, Chain!Spec

=============================================================================
