-------------------------- MODULE Reauthentication --------------------------
(***************************************************************************)
(* The window in which a session may do sensitive things, and the two ways *)
(* to open it that need no provider: the password                          *)
(* (PasswordReauthenticationService) and a code by email                   *)
(* (CodeReauthenticationService, which also issues the code).  The guard   *)
(* RequireReauthentication admits a change only inside the window.         *)
(*                                                                         *)
(* A request runs in one transaction, with one connection of the pool, and *)
(* with the row of its account and of its session locked from its first    *)
(* read on.  Its rate limits are counted through a second connection, and  *)
(* its password is hashed in one of a few slots, while it holds all that.  *)
(* What it writes is applied by its commit, where deferred triggers check  *)
(* the deadline and stamp the session.  Sessions are logged out, refreshed *)
(* and recovered meanwhile, where the row locks let them.                  *)
(***************************************************************************)
EXTENDS Integers, FiniteSets

CONSTANTS
  Account, Session,
  Owner,             \* the account of each session
  Request, Nobody,
  Never,             \* reauthenticated_at IS NULL
  PoolSize,          \* connections of the pool
  HashSlots,         \* 2 in the code
  Window,            \* 10 minutes
  CodeLifetime,      \* 10 minutes
  Minute,            \* the time between two codes
  MaxGuesses,        \* 5 in the code
  IdleLifetime,      \* 30 days, from each refresh
  AbsoluteExpiry,    \* the end of every session
  Asked,             \* bound of the model: what the requests ask, and for which session
  MaxCodes,          \* bound of the model: codes issued to an account
  MaxTime            \* bound of the model: the clock stops here

ASSUME NamesAssumption ==
  /\ Owner \in [Session -> Account] /\ Nobody \notin Request
  /\ Asked \subseteq [Request -> [kind : {"password", "code", "issue", "change"}, session : Session]]
ASSUME NumbersAssumption ==
  /\ {PoolSize, HashSlots, Window, CodeLifetime, MaxGuesses, IdleLifetime, AbsoluteExpiry} \subseteq Nat \ {0}
  /\ Minute \in Nat /\ MaxCodes \in Nat /\ MaxTime \in Nat /\ Never \notin Nat

VARIABLES
  stamp,    \* reauthenticated_at of each session
  idle,     \* idle_expires_at of each session
  revoked,  \* sessions that were logged out or revoked
  code,     \* the last re-authentication code of each account: live, if it is current
  holder,   \* the request that has the rows of each account and of its own session locked
  slots,    \* the requests that are hashing
  req,      \* each request: its step and what it has read and decided
  now       \* the clock of the database

vars == <<stamp, idle, revoked, code, holder, slots, req, now>>
tables == <<stamp, idle, revoked, code, now>>

Time == 0..MaxTime
NoDeadline == AbsoluteExpiry + MaxTime + CodeLifetime
Kind == {"password", "code", "issue", "change"}
Running == {"connect", "lock", "limit", "count", "slot", "verify", "check", "issue", "window",
            "commit", "readback"}
Done == {"answered", "accepted", "changed", "refused", "unavailable"}

Code == [id : 0..MaxCodes, issued : Time, guesses : 0..MaxGuesses, live : BOOLEAN]
\* A request that has read nothing yet, or that keeps nothing of what it has read.
Blank(at, kind, session) ==
  [at |-> at, kind |-> kind, session |-> session, limits |-> 0, seen |-> 0, deadline |-> NoDeadline,
   effect |-> "none", stamps |-> FALSE]

ReqState == [at : {"idle"} \cup Running \cup Done, kind : Kind, session : Session,
             limits : 0..2, seen : Time, deadline : Nat,
             effect : {"none", "password", "consume", "guess", "issue", "change"}, stamps : BOOLEAN]

TypeOK ==
  /\ stamp \in [Session -> Time \cup {Never}]
  /\ idle \in [Session -> 1..AbsoluteExpiry]
  /\ revoked \subseteq Session
  /\ code \in [Account -> Code]
  /\ holder \in [Account -> Request \cup {Nobody}]
  /\ slots \subseteq Request
  /\ req \in [Request -> ReqState]
  /\ now \in Time

\* A session has a closed window (it is older than the windows) or one from its login.
\* An account has had no code, or has one.
Init ==
  /\ stamp \in [Session -> {Never, 0}]
  /\ idle = [s \in Session |-> IF IdleLifetime < AbsoluteExpiry THEN IdleLifetime ELSE AbsoluteExpiry]
  /\ revoked = {}
  /\ \E id \in {0, 1} \cap 0..MaxCodes :
       code = [a \in Account |-> [id |-> id, issued |-> 0, guesses |-> 0, live |-> id = 1]]
  /\ holder = [a \in Account |-> Nobody]
  /\ slots = {}
  /\ req \in {[r \in Request |-> Blank("idle", ask[r].kind, ask[r].session)] : ask \in Asked}
  /\ now = 0

-----------------------------------------------------------------------------
(* The window of a session, and the code of an account.                    *)

Earlier(t, u) == IF t < u THEN t ELSE u

\* sessionReauthenticationDeadline: the earlier of the two expiries.
SessionEnd(s) == Earlier(idle[s], AbsoluteExpiry)
Active(s) == s \notin revoked /\ now < SessionEnd(s)

ExpiresAt(s) == Earlier(stamp[s] + Window, SessionEnd(s))
IsOpen(s, t) == stamp[s] # Never /\ stamp[s] <= t /\ t < ExpiresAt(s)

AccountOf(r) == Owner[req[r].session]

CodeEnd(a) == code[a].issued + CodeLifetime
CanGuess(a, t) == code[a].live /\ code[a].guesses < MaxGuesses /\ t < CodeEnd(a)

-----------------------------------------------------------------------------
(* The pool.  A request that counts holds two connections.                 *)

Connections(r) ==
  IF req[r].at = "count" THEN 2
  ELSE IF req[r].at \in Running \ {"connect", "readback"} THEN 1 ELSE 0

FreeConnection == Cardinality({u \in Request \X {1, 2} : u[2] <= Connections(u[1])}) < PoolSize

Goto(r, at) == req' = [req EXCEPT ![r].at = at]
End(r, result) == req' = [req EXCEPT ![r] = Blank(result, @.kind, @.session)]

\* Commit or rollback: the locks of r end with its transaction.
Release(r) == holder' = [a \in Account |-> IF holder[a] = r THEN Nobody ELSE holder[a]]

\* Bug: the transaction is left open.
RefuseBug(r) == End(r, "refused") /\ UNCHANGED <<tables, holder, slots>>

\* An error of the work, and the deferred rollback.
Refuse(r) ==
  /\ End(r, "refused")
  /\ Release(r)
  /\ UNCHANGED <<tables, slots>>

-----------------------------------------------------------------------------
(* The steps of a request.                                                 *)

Begin(r) ==
  /\ req[r].at = "idle"
  /\ Goto(r, "connect")
  /\ UNCHANGED <<tables, holder, slots>>

\* pool.Begin.
Connect(r) ==
  /\ req[r].at = "connect"
  /\ FreeConnection
  /\ Goto(r, "lock")
  /\ UNCHANGED <<tables, holder, slots>>

Limits(kind) == CASE kind \in {"password", "issue"} -> 1 [] kind = "code" -> 2 [] kind = "change" -> 0

\* Bug: the change is guarded when it starts and no more.
AdmitBug(r) ==
  /\ IsOpen(req[r].session, now)
  /\ req' = [req EXCEPT ![r] = [@ EXCEPT !.at = "commit", !.effect = "change"]]
  /\ holder' = [holder EXCEPT ![AccountOf(r)] = r]
  /\ UNCHANGED <<tables, slots>>

\* RequireReauthentication, of an open window: the change must commit before its end.
Admit(r) ==
  /\ IsOpen(req[r].session, now)
  /\ req' = [req EXCEPT ![r] = [@ EXCEPT !.at = "commit", !.effect = "change",
                                         !.deadline = Earlier(req[r].deadline, ExpiresAt(req[r].session))]]
  /\ holder' = [holder EXCEPT ![AccountOf(r)] = r]
  /\ UNCHANGED <<tables, slots>>

\* Bug: the row of the session is locked and that of its account is not.
LockBug(r) ==
  /\ req[r].at = "lock"
  /\ Active(req[r].session) /\ req[r].kind # "change"
  /\ req' = [req EXCEPT ![r] = [@ EXCEPT !.at = "limit", !.limits = Limits(req[r].kind), !.seen = now]]
  /\ UNCHANGED <<tables, holder, slots>>

\* LockSessionForReauthentication: the locks, and then the clock.
Lock(r) ==
  /\ req[r].at = "lock"
  /\ holder[AccountOf(r)] = Nobody
  /\ \/ ~Active(req[r].session) /\ Refuse(r)
     \/ /\ Active(req[r].session) /\ req[r].kind # "change"
        /\ req' = [req EXCEPT ![r] = [@ EXCEPT !.at = "limit", !.limits = Limits(req[r].kind), !.seen = now]]
        /\ holder' = [holder EXCEPT ![AccountOf(r)] = r]
        /\ UNCHANGED <<tables, slots>>
     \/ Active(req[r].session) /\ req[r].kind = "change" /\ Admit(r)
     \/ /\ Active(req[r].session) /\ req[r].kind = "change" /\ ~IsOpen(req[r].session, now)
        /\ Refuse(r)

\* The limits are counted in a transaction of their own, with a second connection.
TakeSecondConnection(r) ==
  /\ req[r].at = "limit"
  /\ FreeConnection
  /\ Goto(r, "count")
  /\ UNCHANGED <<tables, holder, slots>>

AfterLimits(kind) == CASE kind = "password" -> "slot" [] kind = "code" -> "check" [] kind = "issue" -> "issue"

CountLimit(r) ==
  /\ req[r].at = "count"
  /\ \/ Refuse(r)
     \/ /\ req' = [req EXCEPT ![r] = [@ EXCEPT !.limits = req[r].limits - 1,
                                               !.at = IF req[r].limits > 1 THEN "limit" ELSE AfterLimits(req[r].kind)]]
        /\ UNCHANGED <<tables, holder, slots>>

TakeSlot(r) ==
  /\ req[r].at = "slot"
  /\ Cardinality(slots) < HashSlots
  /\ slots' = slots \cup {r}
  /\ Goto(r, "verify")
  /\ UNCHANGED <<tables, holder>>

Verify(r) ==
  /\ req[r].at = "verify"
  /\ slots' = slots \ {r}
  /\ \/ /\ req' = [req EXCEPT ![r] = [@ EXCEPT !.at = "window", !.effect = "password"]]
        /\ UNCHANGED <<tables, holder>>
     \/ /\ End(r, "refused")
        /\ Release(r)
        /\ UNCHANGED tables

\* checkCode and ConsumeChallenge.  The code is checked with the clock of the first read,
\* and spent, or its wrong guess counted, with the clock of the statement.  A malformed code,
\* or one of an account whose email is not verified, is refused without a write, as is one that is over.
CheckCode(r) ==
  LET a == AccountOf(r) IN
  /\ req[r].at = "check"
  /\ \/ /\ CanGuess(a, req[r].seen) /\ CanGuess(a, now)
        /\ \/ req' = [req EXCEPT ![r] = [@ EXCEPT !.at = "window", !.effect = "consume",
                                                  !.deadline = Earlier(req[r].deadline, CodeEnd(a))]]
           \/ req' = [req EXCEPT ![r] = [@ EXCEPT !.at = "commit", !.effect = "guess"]]
     \/ Goto(r, "commit")
  /\ UNCHANGED <<tables, holder, slots>>

\* issue: nothing within a minute of the last code, else one that the budget may refuse.
IssueCode(r) ==
  LET a == AccountOf(r) IN
  /\ req[r].at = "issue"
  /\ \/ /\ code[a].id > 0 /\ req[r].seen < code[a].issued + Minute
        /\ Goto(r, "commit")
        /\ UNCHANGED <<tables, holder, slots>>
     \/ /\ code[a].id = 0 \/ req[r].seen >= code[a].issued + Minute
        /\ \/ Refuse(r)
           \/ /\ code[a].id < MaxCodes
              /\ req' = [req EXCEPT ![r] = [@ EXCEPT !.at = "commit", !.effect = "issue", !.seen = now,
                                                     !.deadline = Earlier(req[r].deadline, SessionEnd(req[r].session))]]
              /\ UNCHANGED <<tables, holder, slots>>

\* Bug: the window that was read before the limits and the hash decides.
OpenWindowBug(r) ==
  LET s == req[r].session IN
  /\ req[r].at = "window"
  /\ \/ ~Active(s) /\ Refuse(r)
     \/ /\ Active(s)
        /\ req' = [req EXCEPT ![r] = [@ EXCEPT !.at = "commit", !.seen = now,
                                               !.stamps = ~IsOpen(s, req[r].seen),
                                               !.deadline = Earlier(req[r].deadline, SessionEnd(s))]]
        /\ UNCHANGED <<tables, holder, slots>>

\* openWindow: the session is read again; a closed window is to be stamped by the commit,
\* and the commit must come before the session ends.
OpenWindow(r) ==
  LET s == req[r].session IN
  /\ req[r].at = "window"
  /\ \/ ~Active(s) /\ Refuse(r)
     \/ /\ Active(s)
        /\ req' = [req EXCEPT ![r] = [@ EXCEPT !.at = "commit", !.seen = now, !.stamps = ~IsOpen(s, now),
                                               !.deadline = Earlier(req[r].deadline, SessionEnd(s))]]
        /\ UNCHANGED <<tables, holder, slots>>

\* What the commit of r does to the code of its account.
NewCode(r) ==
  LET c == code[AccountOf(r)] IN
  CASE req[r].effect = "consume" -> [c EXCEPT !.live = FALSE]
    [] req[r].effect = "guess" -> [c EXCEPT !.guesses = @ + 1]
    [] req[r].effect = "issue" -> [id |-> c.id + 1, issued |-> req[r].seen, guesses |-> 0, live |-> TRUE]
    [] OTHER -> c

\* The answer, which for a proof waits for one more read.
Answer(r) ==
  CASE req[r].kind \in {"password", "code"} ->
         req' = [req EXCEPT ![r] = [@ EXCEPT !.at = "readback", !.limits = 0, !.seen = 0,
                                             !.deadline = NoDeadline]]
    [] req[r].kind = "issue" -> End(r, "accepted")
    [] req[r].kind = "change" -> End(r, "changed")

\* The deferred triggers of the commit check the deadline and stamp the session.
Commit(r) ==
  /\ req[r].at = "commit"
  /\ \/ now >= req[r].deadline /\ Refuse(r)
     \/ /\ now < req[r].deadline
        /\ stamp' = IF req[r].stamps THEN [stamp EXCEPT ![req[r].session] = now] ELSE stamp
        /\ code' = [code EXCEPT ![AccountOf(r)] = NewCode(r)]
        /\ Answer(r)
        /\ Release(r)
        /\ UNCHANGED <<idle, revoked, slots, now>>

\* GetSessionReauthentication on the pool, after the commit, for the end of the window.
ReadBack(r) ==
  /\ req[r].at = "readback"
  /\ FreeConnection
  /\ End(r, IF Active(req[r].session) /\ req[r].effect \in {"password", "consume"}
            THEN "answered" ELSE "refused")
  /\ UNCHANGED <<tables, holder, slots>>

\* Bug: a hash that fails keeps its slot.
FailBug(r) ==
  /\ req[r].at \in Running
  /\ End(r, "unavailable")
  /\ Release(r)
  /\ UNCHANGED <<tables, slots>>

\* The deadline of 5 seconds, a cancellation or a dependency ends the request.
Fail(r) ==
  /\ req[r].at \in Running
  /\ End(r, "unavailable")
  /\ Release(r)
  /\ slots' = slots \ {r}
  /\ UNCHANGED tables

-----------------------------------------------------------------------------
(* What else happens to the sessions and codes.                            *)

\* RevokeCurrentSession waits for the row of the session alone.
Logout(s) ==
  /\ Active(s)
  /\ \A r \in Request : holder[Owner[s]] = r => req[r].session # s
  /\ revoked' = revoked \cup {s}
  /\ UNCHANGED <<stamp, idle, code, holder, slots, req, now>>

\* A password reset revokes every session and code of an account.
Recover(a) ==
  /\ holder[a] = Nobody
  /\ revoked' = revoked \cup {s \in Session : Owner[s] = a}
  /\ code' = [code EXCEPT ![a].live = FALSE]
  /\ UNCHANGED <<stamp, idle, holder, slots, req, now>>

\* RotateCurrentRefreshToken: the session lives on, its window does not move.
Refresh(s) ==
  /\ Active(s) /\ holder[Owner[s]] = Nobody
  /\ idle' = [idle EXCEPT ![s] = Earlier(now + IdleLifetime, AbsoluteExpiry)]
  /\ UNCHANGED <<stamp, revoked, code, holder, slots, req, now>>

Tick ==
  /\ now < MaxTime
  /\ now' = now + 1
  /\ UNCHANGED <<stamp, idle, revoked, code, holder, slots, req>>

-----------------------------------------------------------------------------
\* The transaction around the work of a proof or a change, and the read after its commit.
Transaction(r) == Connect(r) \/ Commit(r) \/ ReadBack(r)

\* The work of each kind of request.
ReauthenticateWithPassword(r) ==
  /\ req[r].kind = "password"
  /\ Lock(r) \/ TakeSecondConnection(r) \/ CountLimit(r) \/ TakeSlot(r) \/ Verify(r) \/ OpenWindow(r)

ReauthenticateWithCode(r) ==
  /\ req[r].kind = "code"
  /\ Lock(r) \/ TakeSecondConnection(r) \/ CountLimit(r) \/ CheckCode(r) \/ OpenWindow(r)

RequestReauthenticationCode(r) ==
  /\ req[r].kind = "issue"
  /\ Lock(r) \/ TakeSecondConnection(r) \/ CountLimit(r) \/ IssueCode(r)

GuardedChange(r) == req[r].kind = "change" /\ Lock(r)

Step(r) ==
  \/ Transaction(r)
  \/ ReauthenticateWithPassword(r) \/ ReauthenticateWithCode(r) \/ RequestReauthenticationCode(r)
  \/ GuardedChange(r)

Next ==
  \/ \E r \in Request : Begin(r) \/ Step(r) \/ Fail(r)
  \/ \E s \in Session : Logout(s) \/ Refresh(s)
  \/ \E a \in Account : Recover(a)
  \/ Tick

\* The wait for a connection ends at the deadline of the request.
GiveUp(r) == req[r].at \in {"connect", "limit", "readback"} /\ Fail(r)

Spec == Init /\ [][Next]_vars /\ \A r \in Request : WF_vars(Step(r)) /\ WF_vars(GiveUp(r))

-----------------------------------------------------------------------------
(* What must hold.                                                         *)

\* A step that is the commit of what r has prepared.
Commits(r, effects) ==
  /\ req[r].at = "commit" /\ req[r].effect \in effects
  /\ req'[r].at \in {"readback", "accepted", "changed"}

\* Not even a retry or a refresh moves the end of a window that is open, and a window opens
\* only for the session that proved its owner, while that session, and the code that proves
\* it, have not ended: however long the limits, the hash and the commit took.  A proof that
\* is accepted opens a window, or found one that was open when the proof was complete, not
\* one that closed while the request was counted and hashed.
WindowsOpenInTime ==
  [][/\ \A s \in Session : stamp'[s] # stamp[s] =>
          /\ ~IsOpen(s, now) /\ Active(s)
          /\ \E r \in Request :
               /\ req[r].session = s /\ Commits(r, {"password", "consume"})
               /\ req[r].effect = "consume" => now < CodeEnd(Owner[s])
     /\ \A r \in Request : Commits(r, {"password", "consume"}) =>
          LET s == req[r].session IN stamp'[s] = now \/ IsOpen(s, req[r].seen)]_vars

\* A change that was admitted inside a window is committed inside it, or not at all.
ChangesInsideTheWindow ==
  [][\A r \in Request : Commits(r, {"change"}) => Active(req[r].session) /\ IsOpen(req[r].session, now)]_vars

\* Of all the sessions of an account, one spends a code, once: it was current and not yet
\* closed by wrong guesses, and a code that is spent, replaced or ended is never current again.
CodesAreSpent ==
  [][/\ \A r \in Request : Commits(r, {"consume"}) =>
          LET c == code[AccountOf(r)] IN
          c.live /\ c.guesses < MaxGuesses /\ code'[AccountOf(r)] = [c EXCEPT !.live = FALSE]
     /\ \A a \in Account : code'[a].id = code[a].id =>
          /\ code'[a].live => code[a].live
          /\ code'[a].guesses >= code[a].guesses]_vars

\* What a request waits for that others hold: a connection, its rows, or a slot.
Waits(r) ==
  \/ req[r].at \in {"connect", "limit", "readback"} /\ ~FreeConnection
  \/ req[r].at = "lock" /\ holder[AccountOf(r)] # Nobody
  \/ req[r].at = "slot" /\ Cardinality(slots) >= HashSlots

WaitsForOthers(r) == req[r].at \in Running => (ENABLED Step(r) <=> ~Waits(r))

\* Every request is answered: it waits for what others hold and for nothing else, for no early
\* return keeps a row, and the deadline of each breaks the ring of those that wait for a second
\* connection.
EveryReauthenticationEnds ==
  /\ [](\A r \in Request : WaitsForOthers(r))
  /\ \A r \in Request : req[r].at \in Running ~> req[r].at \in Done

-----------------------------------------------------------------------------
(* The invariant.                                                          *)

\* Requests hold connections, rows and slots while they wait for others: they are stuck only
\* when the pool has no connection left.
StuckOnlyWithoutConnections ==
  LET waiting == {r \in Request : req[r].at \in Running} IN
  waiting # {} /\ FreeConnection => \E r \in waiting : ~Waits(r)

\* A slot is held while its request hashes, and no longer, however that request ends.
SlotsMatchHashing == \A r \in Request : r \in slots <=> req[r].at = "verify"

HoldsRows(r) == req[r].at \in Running \ {"connect", "lock", "readback"}

\* A request has the rows of the account of its session, and of no other.
LocksMatchProgress ==
  /\ \A r \in Request : HoldsRows(r) <=> holder[AccountOf(r)] = r
  /\ \A a \in Account, r \in Request : holder[a] = r => a = AccountOf(r)

\* What a request of each kind can have prepared, and when.
EffectFits(r) ==
  LET q == req[r] IN
  /\ q.at \in {"limit", "count"} => q.limits \in 1..2
  /\ q.at \notin {"window", "commit", "readback"} => q.effect = "none" /\ ~q.stamps
  /\ q.at = "window" => q.effect \in {"password", "consume"} /\ ~q.stamps
  /\ q.effect # "none" => q.kind = (IF q.effect \in {"consume", "guess"} THEN "code" ELSE q.effect)
  /\ q.stamps => q.effect \in {"password", "consume"}

\* What a request has read under its locks about the code and the session is still so, and
\* the deadline of its commit is no later than the end of what it relies on.
ReadsStayTrue(r) ==
  LET q == req[r]
      s == q.session
      c == code[Owner[s]] IN
  /\ q.seen <= now
  /\ q.at \in {"window", "commit"} /\ q.effect = "consume" =>
       c.live /\ c.guesses < MaxGuesses /\ q.deadline <= CodeEnd(Owner[s])
  /\ q.at = "commit" /\ q.effect = "guess" => c.guesses < MaxGuesses
  /\ q.at = "commit" /\ q.effect = "issue" => c.id < MaxCodes
  /\ q.at = "commit" /\ q.effect \in {"password", "consume"} =>
       /\ s \notin revoked /\ q.deadline <= SessionEnd(s)
       /\ q.stamps <=> ~IsOpen(s, q.seen)
       /\ stamp[s] = Never \/ stamp[s] <= q.seen
  /\ q.at = "commit" /\ q.effect = "change" =>
       s \notin revoked /\ stamp[s] # Never /\ q.deadline <= ExpiresAt(s)

\* What the transactions keep: no window opens in the future, and each request relies on what it holds.
WindowsFollowLocks ==
  /\ TypeOK
  /\ LocksMatchProgress
  /\ \A r \in Request : EffectFits(r) /\ ReadsStayTrue(r)
  /\ \A s \in Session : stamp[s] = Never \/ stamp[s] <= now

\* Slots are held by the requests that hash and end with their transactions, and nobody waits for
\* ever for what another request holds.
ReauthenticationInv ==
  /\ WindowsFollowLocks
  /\ SlotsMatchHashing
  /\ StuckOnlyWithoutConnections
=============================================================================
