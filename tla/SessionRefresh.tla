--------------------------- MODULE SessionRefresh ---------------------------
(***************************************************************************)
(* The rotation of refresh tokens (SessionRefreshRepository.Rotate), one   *)
(* SQL statement at a time, for the sessions of one account.  Requests     *)
(* race each other and the operations that revoke sessions; each one runs  *)
(* in a READ COMMITTED transaction, so that its first lookup reads what is *)
(* committed and everything it decides on is read again under row locks.   *)
(* A request may fail at any statement, and the client may lose the answer *)
(* of one that committed.                                                  *)
(*                                                                         *)
(* A token is named by the login or the request that drew it, so that two  *)
(* tokens are never equal: they are 256 random bits.                       *)
(***************************************************************************)
EXTENDS Integers, FiniteSets

CONSTANTS
  Session,           \* sessions, each also the name of its first token
  Request,           \* refresh requests, each also the name of the token it draws
  NoToken,           \* a token that no session has
  NoRequest,         \* the holder of a lock that is free
  IdleLifetime,      \* 30 days
  AbsoluteLifetime,  \* 90 days
  MaxTime            \* bound of the model: the clock stops here

ASSUME NamesAssumption ==
  /\ Session \cap Request = {}
  /\ NoToken \notin Session \cup Request
  /\ NoRequest \notin Request

ASSUME TimesAssumption ==
  /\ {IdleLifetime, AbsoluteLifetime} \subseteq Nat \ {0}
  /\ IdleLifetime <= AbsoluteLifetime
  /\ MaxTime \in Nat

VARIABLES
  retired,      \* retired_at of the account
  current,      \* refresh_token_hash of each session
  idleUntil,    \* idle_expires_at of each session
  revoked,      \* the sessions with a revoked_at
  rotated,      \* identity_rotated_refresh_tokens
  accountLock,  \* the request that holds the account row
  sessionLock,  \* for each session, the request that holds its row
  req,          \* the progress of each request
  held,         \* the tokens that the client has received
  now           \* the clock of the database

tables == <<retired, current, idleUntil, revoked, rotated>>
locks == <<accountLock, sessionLock>>
vars == <<tables, locks, req, held, now>>

Token == Session \cup Request

\* Statements that a request still has to run, and the ways it can have ended.
Running == {"find", "lockAccount", "lockSession", "rotate", "commitRotation", "commitReplay"}
Done == {"granted", "lost", "replayed", "refused", "failed"}

ReqState == [at: {"idle", "respond"} \cup Running \cup Done, token: Token \cup {NoToken},
             session: Session \cup {NoToken}, idle: 0..AbsoluteLifetime]

TypeOK ==
  /\ retired \in BOOLEAN
  /\ current \in [Session -> Token]
  /\ idleUntil \in [Session -> 1..AbsoluteLifetime]
  /\ revoked \subseteq Session
  /\ rotated \subseteq Token \X Session
  /\ accountLock \in Request \cup {NoRequest}
  /\ sessionLock \in [Session -> Request \cup {NoRequest}]
  /\ req \in [Request -> ReqState]
  /\ held \subseteq Token
  /\ now \in 0..MaxTime

Init ==
  /\ retired = FALSE
  /\ current = [s \in Session |-> s]
  /\ idleUntil = [s \in Session |-> IdleLifetime]
  /\ revoked = {}
  /\ rotated = {}
  /\ accountLock = NoRequest
  /\ sessionLock = [s \in Session |-> NoRequest]
  /\ req = [r \in Request |-> [at |-> "idle", token |-> NoToken, session |-> NoToken, idle |-> 0]]
  /\ held = Session
  /\ now = 0

\* Every session was created at time 0 and its absolute expiry never moves.
Unexpired(s) == now < idleUntil[s] /\ now < AbsoluteLifetime

\* Bug: the revocation of the session is not looked at.
UsableBug(s) == Unexpired(s)

Usable(s) == s \notin revoked /\ Unexpired(s)

ActiveSession(s) == ~retired /\ Usable(s)

Known(t, s) == current[s] = t \/ <<t, s>> \in rotated

\* Rollback or commit: the transaction of r gives its row locks back.
Release(r) ==
  /\ accountLock' = IF accountLock = r THEN NoRequest ELSE accountLock
  /\ sessionLock' = [s \in Session |-> IF sessionLock[s] = r THEN NoRequest ELSE sessionLock[s]]

\* Bug: an early return that leaves the transaction open.
RefuseBug(r) ==
  /\ req' = [req EXCEPT ![r].at = "refused"]
  /\ UNCHANGED <<tables, locks, held, now>>

\* Every early return of Rotate: ErrUnauthenticated, and the deferred rollback.
Refuse(r) ==
  /\ req' = [req EXCEPT ![r].at = "refused"]
  /\ Release(r)
  /\ UNCHANGED <<tables, held, now>>

Goto(r, statement) ==
  /\ req[r].at \in Running
  /\ req' = [req EXCEPT ![r].at = statement]

-----------------------------------------------------------------------------
(* The statements of a refresh request.                                    *)

Present(r, t) ==
  /\ req[r].at = "idle"
  /\ req' = [req EXCEPT ![r] = [@ EXCEPT !.at = "find", !.token = t]]
  /\ UNCHANGED <<tables, locks, held, now>>

\* FindRefreshSession: no lock, in the history as well as in the sessions.
FindRefreshSession(r) ==
  /\ req[r].at = "find"
  /\ \/ /\ \A s \in Session : ~Known(req[r].token, s)
        /\ Refuse(r)
     \/ \E s \in Session :
          /\ Known(req[r].token, s)
          /\ req' = [req EXCEPT ![r] = [@ EXCEPT !.at = "lockAccount", !.session = s]]
          /\ UNCHANGED <<tables, locks, held, now>>

\* GetActiveAccountForUpdate waits for the row and then looks at it again.
LockRefreshAccount(r) ==
  /\ req[r].at = "lockAccount"
  /\ accountLock = NoRequest
  /\ \/ /\ retired
        /\ Refuse(r)
     \/ /\ ~retired
        /\ accountLock' = r
        /\ Goto(r, "lockSession")
        /\ UNCHANGED <<tables, sessionLock, held, now>>

\* The token is still the one of the session: compared under the row lock, and
\* again in the update.  The primary key of the history would refuse a token a
\* third time; TokensAreTraceable says that it never has to.
StillCurrent(r) == current[req[r].session] = req[r].token

\* GetRefreshSessionForUpdate reads the token hash again under the row lock.
LockRefreshSession(r) ==
  LET s == req[r].session IN
  /\ req[r].at = "lockSession"
  /\ sessionLock[s] = NoRequest
  /\ \/ /\ ~ActiveSession(s)
        /\ Refuse(r)
     \/ /\ ActiveSession(s)
        /\ sessionLock' = [sessionLock EXCEPT ![s] = r]
        /\ Goto(r, IF StillCurrent(r) THEN "rotate" ELSE "commitReplay")
        /\ UNCHANGED <<tables, accountLock, held, now>>

Smaller(x, y) == IF x < y THEN x ELSE y

IdleExpiry == IF now + IdleLifetime < AbsoluteLifetime THEN now + IdleLifetime ELSE AbsoluteLifetime

\* RotateCurrentRefreshToken checks the session again, at its own time.
RotateCurrentRefreshToken(r) ==
  LET usable == Usable(req[r].session) /\ StillCurrent(r) IN
  /\ req[r].at = "rotate"
  /\ \/ /\ ~usable
        /\ Refuse(r)
     \/ /\ usable
        /\ req' = [req EXCEPT ![r] = [@ EXCEPT !.at = "commitRotation", !.idle = IdleExpiry]]
        /\ UNCHANGED <<tables, locks, held, now>>

\* Bug: the token that was exchanged is not recorded.
CommitRotationBug(r) ==
  LET s == req[r].session IN
  /\ req[r].at = "commitRotation"
  /\ current' = [current EXCEPT ![s] = r]
  /\ idleUntil' = [idleUntil EXCEPT ![s] = req[r].idle]
  /\ Goto(r, "respond")
  /\ Release(r)
  /\ UNCHANGED <<retired, revoked, rotated, held, now>>

\* The history row and the session row become visible together.
CommitRotation(r) ==
  LET s == req[r].session IN
  /\ req[r].at = "commitRotation"
  /\ current' = [current EXCEPT ![s] = r]
  /\ idleUntil' = [idleUntil EXCEPT ![s] = req[r].idle]
  /\ rotated' = rotated \cup {<<req[r].token, s>>}
  /\ Goto(r, "respond")
  /\ Release(r)
  /\ UNCHANGED <<retired, revoked, held, now>>

\* Bug: the transaction that found a replay is rolled back with its answer.
CommitReplayBug(r) ==
  /\ req[r].at = "commitReplay"
  /\ Goto(r, "replayed")
  /\ Release(r)
  /\ UNCHANGED <<tables, held, now>>

\* RevokeRefreshSession and its commit: the caller still gets the same refusal.
CommitReplay(r) ==
  /\ req[r].at = "commitReplay"
  /\ revoked' = revoked \cup {req[r].session}
  /\ Goto(r, "replayed")
  /\ Release(r)
  /\ UNCHANGED <<retired, current, idleUntil, rotated, held, now>>

\* The answer is the only copy of the new token.
Respond(r) ==
  /\ req[r].at = "respond"
  /\ \/ /\ req' = [req EXCEPT ![r].at = "granted"]
        /\ held' = held \cup {r}
     \/ /\ req' = [req EXCEPT ![r].at = "lost"]
        /\ UNCHANGED held
  /\ UNCHANGED <<tables, locks, now>>

\* A deadline, a cancelled request, a database error or a crash rolls back.
Fail(r) ==
  /\ Goto(r, "failed")
  /\ Release(r)
  /\ UNCHANGED <<tables, held, now>>

-----------------------------------------------------------------------------
(* Other operations on the sessions of the account, and time.              *)

\* RevokeCurrentSession is one statement that waits for the session row only.
LogoutCurrentSession(s) ==
  /\ sessionLock[s] = NoRequest
  /\ ActiveSession(s)
  /\ revoked' = revoked \cup {s}
  /\ UNCHANGED <<retired, current, idleUntil, rotated, locks, req, held, now>>

\* RevokeAll: the caller's session must be active, under the lock of the account.
LogoutAllSessions(s) ==
  /\ accountLock = NoRequest
  /\ ActiveSession(s)
  /\ revoked' = Session
  /\ UNCHANGED <<retired, current, idleUntil, rotated, locks, req, held, now>>

\* A password reset revokes every session; a claim also retires the account.
RecoverAccount(retire) ==
  /\ accountLock = NoRequest
  /\ ~retired
  /\ retired' = retire
  /\ revoked' = Session
  /\ UNCHANGED <<current, idleUntil, rotated, locks, req, held, now>>

Tick ==
  /\ now < MaxTime
  /\ now' = now + 1
  /\ UNCHANGED <<tables, locks, req, held>>

-----------------------------------------------------------------------------
Statement(r) ==
  \/ FindRefreshSession(r)
  \/ LockRefreshAccount(r)
  \/ LockRefreshSession(r)
  \/ RotateCurrentRefreshToken(r)
  \/ CommitRotation(r)
  \/ CommitReplay(r)
  \/ Respond(r)

Refresh(r) ==
  \/ \E t \in held \cup {NoToken} : Present(r, t)
  \/ Statement(r)
  \/ Fail(r)

Revocations ==
  \/ \E s \in Session : LogoutCurrentSession(s) \/ LogoutAllSessions(s)
  \/ \E retire \in BOOLEAN : RecoverAccount(retire)

Next == (\E r \in Request : Refresh(r)) \/ Revocations \/ Tick

Spec == Init /\ [][Next]_vars

\* While any open transaction has a statement to run, the database goes on with one of them.
FairSpec == Spec /\ WF_vars(\E r \in Request : Statement(r))

-----------------------------------------------------------------------------
(* What must hold.                                                         *)

\* The requests whose transaction exchanged the token that they presented.
Rotators == {r \in Request : req[r].at \in {"respond", "granted", "lost"}}

\* Two requests never both exchange one token, however they interleave.
SingleUse == \A q, r \in Rotators : req[q].token = req[r].token => q = r

\* Every token that the client was ever given still identifies its session: as
\* the current token or in the history, never both, and never two sessions.
\* Without this a replayed token could pass for an unknown one.
TokensAreTraceable ==
  /\ \A t \in held : \E s \in Session : Known(t, s)
  /\ \A t \in Token, s, u \in Session : Known(t, s) /\ Known(t, u) => s = u
  /\ \A t \in Token, s \in Session : ~(current[s] = t /\ <<t, s>> \in rotated)

\* Once a request is answered as a replay, its session is over and stays over.
ReplayEndsSession == \A r \in Request : req[r].at = "replayed" => req[r].session \in revoked

\* A transaction holds the session row only under the account row, so that the
\* operations that lock the account first never wait for each other in a cycle.
LockOrder == \A s \in Session : sessionLock[s] # NoRequest => accountLock = sessionLock[s]

\* A revoked session gets no new token, although its revocation and a rotation
\* of it may have been under way together.
NoTokenAfterRevocation == [][\A s \in revoked : current'[s] = current[s] /\ s \in revoked']_vars

\* A request has no step only while another one has the row that it wants to lock.
Waits(r) ==
  \/ req[r].at = "lockAccount" /\ accountLock # NoRequest
  \/ req[r].at = "lockSession" /\ sessionLock[req[r].session] # NoRequest

GoesOn(r) == req[r].at \in Running /\ ~Waits(r)

\* No ring of waiting requests closes: whoever waits has nothing yet and waits for the account,
\* whose holder goes on.
NoRingOfWaits ==
  \A r \in Request : Waits(r) => req[r].at = "lockAccount" /\ GoesOn(accountLock)

\* Every refresh is answered or fails: no request waits for a lock forever.
EveryRefreshEnds ==
  /\ [](NoRingOfWaits /\ \A r \in Request : GoesOn(r) => ENABLED Statement(r))
  /\ \A r \in Request : req[r].at \in Running ~> req[r].at \in Done

-----------------------------------------------------------------------------
(* The abstract chain of tokens.                                           *)

Answer(r) ==
  CASE req[r].at = "idle" -> "none"
    [] req[r].at \in Running -> "pending"
    [] r \in Rotators -> "granted"
    [] req[r].at = "replayed" -> "replayed"
    [] req[r].at \in {"refused", "failed"} -> "refused"

Offered == [r \in Request |-> req[r].token]
Answers == [r \in Request |-> Answer(r)]

Chain == INSTANCE TokenChain WITH
  offered <- Offered, answer <- Answers, spent <- rotated, ended <- revoked

\* Rotation with its statements, locks and failures implements the chain.
ImplementsChain == Chain!Spec

-----------------------------------------------------------------------------
(* The inductive invariant: what a request knows at each of its statements. *)

HoldsAccount(r) == req[r].at \in {"lockSession", "rotate", "commitRotation", "commitReplay"}
HoldsSession(r) == req[r].at \in {"rotate", "commitRotation", "commitReplay"}

\* A request has the locks of the statements that it is past, and no others.
LocksMatchProgress ==
  \A r \in Request :
    /\ accountLock = r <=> HoldsAccount(r)
    /\ \A s \in Session : sessionLock[s] = r <=> HoldsSession(r) /\ req[r].session = s

\* What was found stays true: a token never leaves its session, and a session row
\* that is locked neither changes its token nor is revoked by others.
Facts(r) ==
  /\ req[r].at = "lockAccount" \/ HoldsAccount(r) =>
       req[r].session \in Session /\ Known(req[r].token, req[r].session)
  /\ req[r].at = "commitRotation" => /\ StillCurrent(r)
                                     /\ req[r].session \notin revoked
                                     /\ req[r].idle > 0
  /\ req[r].at = "commitReplay" => <<req[r].token, req[r].session>> \in rotated
  /\ r \in Rotators => /\ <<req[r].token, req[r].session>> \in rotated
                       /\ \E s \in Session : Known(r, s)
  /\ r \notin Rotators => r \notin held /\ \A s \in Session : ~Known(r, s)

FactsHold == \A r \in Request : Facts(r)

RefreshInv ==
  /\ TypeOK
  /\ LocksMatchProgress
  /\ FactsHold
  /\ TokensAreTraceable
  /\ SingleUse
  /\ ReplayEndsSession

=============================================================================
