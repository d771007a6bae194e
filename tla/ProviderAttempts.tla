-------------------------- MODULE ProviderAttempts --------------------------
(***************************************************************************)
(* Provider login and provider reauthentication of the Identity service.   *)
(* An attempt is stored, the browser comes back with a state that one      *)
(* callback consumes, the provider is asked, the result is stored under a  *)
(* new handoff code, and the client exchanges attempt token and code for a *)
(* session, or for the reauthentication window of the session it has.      *)
(*                                                                         *)
(* Callbacks use one statement each, outside a transaction.  An exchange   *)
(* is a transaction at READ COMMITTED, a statement at a time: the claim    *)
(* locks the row of the attempt, the account is locked, the new account    *)
(* and link are not seen by others before the commit, and an insert waits  *)
(* for an uncommitted row with the same key.  A statement that waits is    *)
(* not enabled; it looks at the committed rows when it runs.               *)
(*                                                                         *)
(* A code is named by the callback that drew it; the account and the       *)
(* session that an exchange creates are named by the exchange.             *)
(***************************************************************************)
EXTENDS Integers, FiniteSets

CONSTANTS
  Attempt,      \* rows of the attempts, each with its attempt token and its state
  Callback,     \* callbacks, each also the handoff code that it draws
  Exchange,     \* calls of CreateProviderSession and CompleteProviderReauthentication
  Identity,     \* pairs of provider and provider subject
  Google,       \* those of Google; the others are of GitHub
  Email,        \* normalized email addresses
  Hosted,       \* those of Gmail, or of a Workspace domain that Google names in the hd claim
  None,         \* no row, no usable email, a code that no callback drew
  Lifetime,     \* 10 minutes
  MaxFailures,  \* 5 rejected handoffs for an attempt
  MaxTime       \* bound of the model: the clock stops here

ASSUME ConstantsAssumption ==
  /\ Google \subseteq Identity /\ Hosted \subseteq Email
  /\ None \notin Exchange \cup Callback \cup Identity \cup Email \cup Attempt
  /\ None \notin [attempt: Attempt, code: Callback, purpose: Exchange \cup {None}]
  /\ {Lifetime, MaxFailures} \subseteq Nat \ {0}
  /\ MaxTime \in Nat

VARIABLES
  attempt,   \* identity_provider_login_attempts
  callback,  \* the callbacks under way
  exchange,  \* the exchanges under way
  account,   \* the provider-only accounts of identity_accounts
  taken,     \* the emails of the other active accounts
  link,      \* identity_provider_links
  session,   \* the sessions that exchanges created
  now        \* the clock of the database

accounts == <<account, taken, link>>
vars == <<attempt, callback, exchange, accounts, session, now>>

\* The session is None for a login; otherwise the attempt reauthenticates it.
AttemptRow == [state: {"free", "stored", "purged"}, session: Exchange \cup {None},
               expires: 0..MaxTime + Lifetime, consumed: BOOLEAN, failed: BOOLEAN,
               code: Callback \cup {None}, identity: Identity \cup {None},
               email: Email \cup {None}, failures: 0..MaxFailures, claimed: BOOLEAN]

CallbackState == [at: {"idle", "verify", "record", "shown", "refused"},
                  attempt: Attempt \cup {None}, identity: Identity \cup {None},
                  email: Email \cup {None}]

\* The statement that an exchange runs next; those of Claiming hold the row of the attempt.
Claiming == {"find", "createAccount", "createLink", "commitSession", "commitUnavailable",
             "checkLink", "openWindow", "commitWindow"}
Running == {"lockSession", "claim", "count"} \cup Claiming
Spent == {"session", "window", "unavailable"}
Done == Spent \cup {"rejected", "failed"}

ExchangeState == [at: {"idle"} \cup Running \cup Done, attempt: Attempt \cup {None},
                  code: Callback \cup {None}, session: Exchange \cup {None},
                  account: Exchange \cup {None},
                  stamp: BOOLEAN]  \* RequestSessionReauthentication was called

\* ended: revoked, or past its idle or absolute expiry.
SessionRow == [state: {"free", "live", "ended"}, account: Exchange \cup {None},
               open: BOOLEAN]  \* the reauthentication window

TypeOK ==
  /\ attempt \in [Attempt -> AttemptRow]
  /\ callback \in [Callback -> CallbackState]
  /\ exchange \in [Exchange -> ExchangeState]
  /\ account \in [Exchange -> [state: {"free", "active", "retired"}, email: Email \cup {None}]]
  /\ taken \subseteq Email
  /\ link \in [Identity -> Exchange \cup {None}]
  /\ session \in [Exchange -> SessionRow]
  /\ now \in 0..MaxTime

NoAttempt(state) == [state |-> state, session |-> None, expires |-> 0, consumed |-> FALSE,
                     failed |-> FALSE, code |-> None, identity |-> None, email |-> None,
                     failures |-> 0, claimed |-> FALSE]

\* Calls that have not come, or have ended and left nothing to compare.
NoCallback(at) == [at |-> at, attempt |-> None, identity |-> None, email |-> None]
NoExchange(at) == [at |-> at, attempt |-> None, code |-> None, session |-> None,
                   account |-> None, stamp |-> FALSE]

Init ==
  /\ attempt = [a \in Attempt |-> NoAttempt("free")]
  /\ callback = [k \in Callback |-> NoCallback("idle")]
  /\ exchange = [x \in Exchange |-> NoExchange("idle")]
  /\ account = [x \in Exchange |-> [state |-> "free", email |-> None]]
  /\ taken = {}
  /\ link = [i \in Identity |-> None]
  /\ session = [x \in Exchange |-> [state |-> "free", account |-> None, open |-> FALSE]]
  /\ now = 0

-----------------------------------------------------------------------------
(* What transactions hold until they end.                                  *)

HoldsAttempt(x, a) == exchange[x].at \in Claiming /\ exchange[x].attempt = a

AttemptUnlocked(a) == \A x \in Exchange : ~HoldsAttempt(x, a)

\* An exchange that reauthenticates locks its session and the account of that.
HoldsSession(x, s) ==
  exchange[x].session = s /\ exchange[x].at \in {"claim"} \cup Claiming

HoldsAccount(x, n) ==
  \/ exchange[x].at = "commitSession" /\ exchange[x].account = n
  \/ \E s \in Exchange : HoldsSession(x, s) /\ session[s].account = n

AccountUnlocked(n) == \A x \in Exchange : ~HoldsAccount(x, n)

\* What the claim of x has returned; the row cannot change while x holds it.
ClaimedRow(x) == attempt[exchange[x].attempt]

\* The new account, and the new link, that exchange x has inserted and not committed.
InsertedAccount(x) == exchange[x].at \in {"createLink", "commitSession"} /\ exchange[x].account = x
InsertedLink(x) == exchange[x].at = "commitSession" /\ exchange[x].account = x

ActiveAccount(n) == account[n].state = "active"

\* Bug: only accounts of the same kind are compared.
EmailTakenBug(e) == \E n \in Exchange : ActiveAccount(n) /\ account[n].email = e

EmailTaken(e) == e \in taken \/ \E n \in Exchange : ActiveAccount(n) /\ account[n].email = e

\* No transaction in flight has inserted the email.
EmailSettled(e) == \A x \in Exchange : InsertedAccount(x) => ClaimedRow(x).email # e

ActiveSession(s) == session[s].state = "live" /\ ActiveAccount(session[s].account)

-----------------------------------------------------------------------------
(* What the providers prove.                                               *)

\* The code is exchanged or refused, the user is named or not, and the list of emails has
\* one that is primary.  It has none when the list cannot be read, too.
GitHubAnswer == [exchanged: BOOLEAN, user: (Identity \ Google) \cup {None},
                 primary: Email \cup {None}, verified: SUBSET Email]

\* valid: the ID token has the signature, issuer, audience and expiry that are asked for.
GoogleAnswer == [exchanged: BOOLEAN, valid: BOOLEAN, nonce: BOOLEAN, subject: Google \cup {None},
                 email: Email \cup {None}, verified: BOOLEAN]

\* An account is made only of an email that the provider calls verified.
UsableEmail(email, verified) == IF verified THEN email ELSE None

\* Only Google proves that the mailbox is still that of the user.
StartsVerified(i, email) == i \in Google /\ email \in Hosted

Refusal == [identity |-> None, email |-> None]

\* The user alone proves the identity: a known link can still log in without an email.
GitHubProof(answer) ==
  IF answer.exchanged /\ answer.user # None
  THEN [identity |-> answer.user,
        email |-> UsableEmail(answer.primary, answer.primary \in answer.verified)]
  ELSE Refusal

\* The nonce ties the ID token to the attempt.
GoogleProof(answer) ==
  IF answer.exchanged /\ answer.valid /\ answer.nonce /\ answer.subject # None
  THEN [identity |-> answer.subject, email |-> UsableEmail(answer.email, answer.verified)]
  ELSE Refusal

Proofs == {GitHubProof(answer) : answer \in GitHubAnswer} \cup {GoogleProof(answer) : answer \in GoogleAnswer}

-----------------------------------------------------------------------------
(* Attempts and callbacks.                                                 *)

Unexpired(a) == attempt[a].state = "stored" /\ now < attempt[a].expires

NewAttempt(s) == [NoAttempt("stored") EXCEPT !.session = s, !.expires = now + Lifetime]

StoreAttempt(a, s) ==
  /\ attempt[a].state = "free"
  /\ attempt' = [attempt EXCEPT ![a] = NewAttempt(s)]
  /\ UNCHANGED <<callback, exchange, accounts, session, now>>

StartProviderLogin(a) == StoreAttempt(a, None)

StartProviderReauthentication(a, s) ==
  /\ ActiveSession(s)
  /\ AccountUnlocked(session[s].account)
  /\ StoreAttempt(a, s)

\* One callback gets the proof of the attempt; to every other one the state is unknown.
ConsumeProviderState(k, a) ==
  /\ callback[k].at = "idle"
  /\ Unexpired(a) /\ ~attempt[a].consumed
  /\ attempt' = [attempt EXCEPT ![a].consumed = TRUE]
  /\ callback' = [callback EXCEPT ![k] = [@ EXCEPT !.at = "verify", !.attempt = a]]
  /\ UNCHANGED <<exchange, accounts, session, now>>

\* The provider of the attempt vouches for an identity, and for a usable email or none.
VerifyProviderIdentity(k, proof) ==
  /\ callback[k].at = "verify"
  /\ proof # Refusal
  /\ callback' = [callback EXCEPT ![k] = [@ EXCEPT !.at = "record", !.identity = proof.identity,
                                                   !.email = proof.email]]
  /\ UNCHANGED <<attempt, exchange, accounts, session, now>>

\* Denied, or not proved.  The failure is recorded, or lost with its error ignored.
FailProviderAttempt(k) ==
  LET a == callback[k].attempt IN
  /\ callback[k].at = "verify"
  /\ callback' = [callback EXCEPT ![k] = NoCallback("refused")]
  /\ \/ /\ attempt[a].state = "stored" /\ attempt[a].code = None
        /\ attempt' = [attempt EXCEPT ![a].failed = TRUE]
     \/ UNCHANGED attempt
  /\ UNCHANGED <<exchange, accounts, session, now>>

MayRecord(a) ==
  /\ Unexpired(a)
  /\ attempt[a].consumed /\ ~attempt[a].failed
  /\ attempt[a].code = None

RecordProviderResult(k) ==
  LET a == callback[k].attempt IN
  /\ callback[k].at = "record"
  /\ \/ /\ MayRecord(a)
        /\ attempt' = [attempt EXCEPT ![a] = [@ EXCEPT !.code = k, !.identity = callback[k].identity,
                                                       !.email = callback[k].email]]
        /\ callback' = [callback EXCEPT ![k] = [@ EXCEPT !.at = "shown", !.email = None]]
     \/ /\ ~MayRecord(a)
        /\ callback' = [callback EXCEPT ![k] = NoCallback("refused")]
        /\ UNCHANGED attempt
  /\ UNCHANGED <<exchange, accounts, session, now>>

\* A database error, or a process that stops between two statements.
CallbackDies(k) ==
  /\ callback[k].at \in {"verify", "record"}
  /\ callback' = [callback EXCEPT ![k] = NoCallback("refused")]
  /\ UNCHANGED <<attempt, exchange, accounts, session, now>>

-----------------------------------------------------------------------------
(* An exchange: its transaction up to the commit.                          *)

GoTo(x, step) == exchange' = [exchange EXCEPT ![x].at = step]

\* The transaction is rolled back and the call ends.
GiveUp(x) == exchange' = [exchange EXCEPT ![x] = NoExchange("failed")]

tables == <<attempt, accounts, session>>

Shown == {k \in Callback : callback[k].at = "shown"}

\* A client presents the token of an attempt with a code that it was shown, or with
\* a wrong one.
Present(x, a, k, s, step) ==
  /\ exchange[x].at = "idle"
  /\ attempt[a].state # "free"
  /\ k \in Shown \cup {None}
  /\ exchange' = [exchange EXCEPT ![x] = [@ EXCEPT !.at = step, !.attempt = a, !.code = k, !.session = s]]
  /\ UNCHANGED <<tables, callback, now>>

CreateProviderSession(x, a, k) == Present(x, a, k, None, "claim")

CompleteProviderReauthentication(x, a, k, s) ==
  session[s].state # "free" /\ Present(x, a, k, s, "lockSession")

LockSessionForReauthentication(x) ==
  LET s == exchange[x].session IN
  /\ exchange[x].at = "lockSession"
  /\ AccountUnlocked(session[s].account)
  /\ IF ActiveSession(s) THEN GoTo(x, "claim") ELSE GiveUp(x)
  /\ UNCHANGED <<tables, callback, now>>

\* Bugs: the code is not compared, the failures do not count, a claim can be repeated.
MatchesAnyCodeBug(x) ==
  LET a == exchange[x].attempt IN
  /\ Unexpired(a) /\ attempt[a].code # None
  /\ attempt[a].session = exchange[x].session
  /\ ~attempt[a].claimed
  /\ attempt[a].failures < MaxFailures

MatchesUncountedBug(x) ==
  LET a == exchange[x].attempt IN
  /\ Unexpired(a)
  /\ exchange[x].code # None /\ attempt[a].code = exchange[x].code
  /\ attempt[a].session = exchange[x].session
  /\ ~attempt[a].claimed

MatchesClaimedBug(x) ==
  LET a == exchange[x].attempt IN
  /\ Unexpired(a)
  /\ exchange[x].code # None /\ attempt[a].code = exchange[x].code
  /\ attempt[a].session = exchange[x].session
  /\ attempt[a].failures < MaxFailures

\* ClaimProviderLoginResult and ClaimProviderReauthenticationResult find the row.
Matches(x) ==
  LET a == exchange[x].attempt IN
  /\ Unexpired(a)
  /\ exchange[x].code # None /\ attempt[a].code = exchange[x].code
  /\ attempt[a].session = exchange[x].session
  /\ ~attempt[a].claimed
  /\ attempt[a].failures < MaxFailures

\* A claim waits for another claim of the row, and then looks at the row again.
Claim(x, step) ==
  /\ exchange[x].at = "claim"
  /\ Matches(x)
  /\ AttemptUnlocked(exchange[x].attempt)
  /\ GoTo(x, step)
  /\ UNCHANGED <<tables, callback, now>>

ClaimProviderResult(x) == exchange[x].session = None /\ Claim(x, "find")

ClaimProviderReauthenticationResult(x) == exchange[x].session # None /\ Claim(x, "checkLink")

\* The transaction is rolled back, with the locks on session and account.
RejectClaim(x) ==
  /\ exchange[x].at = "claim"
  /\ ~Matches(x)
  /\ exchange' = [exchange EXCEPT ![x] = [NoExchange("count") EXCEPT !.attempt = exchange[x].attempt]]
  /\ UNCHANGED <<tables, callback, now>>

Known(i) == link[i] # None /\ ActiveAccount(link[i])

\* The account of a retired owner is not found, and its link stays.
LockLinkedAccount(x) ==
  LET i == ClaimedRow(x).identity IN
  /\ exchange[x].at = "find"
  /\ \/ /\ Known(i)
        /\ AccountUnlocked(link[i])
        /\ exchange' = [exchange EXCEPT ![x] = [@ EXCEPT !.at = "commitSession", !.account = link[i]]]
     \/ /\ ~Known(i)
        /\ GoTo(x, IF ClaimedRow(x).email = None THEN "commitUnavailable" ELSE "createAccount")
  /\ UNCHANGED <<tables, callback, now>>

\* ON CONFLICT DO NOTHING waits for an insert of the same email that is in flight.
CreateProviderAccount(x) ==
  /\ exchange[x].at = "createAccount"
  /\ EmailSettled(ClaimedRow(x).email)
  /\ IF EmailTaken(ClaimedRow(x).email)
       THEN GoTo(x, "commitUnavailable")
       ELSE exchange' = [exchange EXCEPT ![x] = [@ EXCEPT !.at = "createLink", !.account = x]]
  /\ UNCHANGED <<tables, callback, now>>

\* The primary key of the links: a second link of the identity ends the transaction.
CreateProviderLink(x) ==
  LET i == ClaimedRow(x).identity IN
  /\ exchange[x].at = "createLink"
  /\ \A y \in Exchange : InsertedLink(y) => ClaimedRow(y).identity # i
  /\ IF link[i] = None THEN GoTo(x, "commitSession") ELSE GiveUp(x)
  /\ UNCHANGED <<tables, callback, now>>

\* Only the identity that is linked to the account of the session opens its window.
HasProviderLink(x) ==
  LET linked == link[ClaimedRow(x).identity] = session[exchange[x].session].account IN
  /\ exchange[x].at = "checkLink"
  /\ GoTo(x, IF linked THEN "openWindow" ELSE "commitUnavailable")
  /\ UNCHANGED <<tables, callback, now>>

\* An open window is kept; a closed one is to be stamped by the commit.
OpenWindow(x) ==
  LET s == exchange[x].session IN
  /\ exchange[x].at = "openWindow"
  /\ IF ActiveSession(s)
       THEN exchange' = [exchange EXCEPT ![x] = [@ EXCEPT !.at = "commitWindow", !.stamp = ~session[s].open]]
       ELSE GiveUp(x)
  /\ UNCHANGED <<tables, callback, now>>

-----------------------------------------------------------------------------
(* How an exchange ends.                                                   *)

Claimed(x) == attempt' = [attempt EXCEPT ![exchange[x].attempt].claimed = TRUE]

\* With the session the new account and its link are committed, if it has made them.
CommitSession(x) ==
  LET n == exchange[x].account IN
  /\ exchange[x].at = "commitSession"
  /\ Claimed(x)
  /\ IF n # x THEN UNCHANGED <<account, link>> ELSE
       /\ account' = [account EXCEPT ![x] = [state |-> "active", email |-> ClaimedRow(x).email]]
       /\ link' = [link EXCEPT ![ClaimedRow(x).identity] = x]
  /\ session' = [session EXCEPT ![x] = [state |-> "live", account |-> n, open |-> TRUE]]
  /\ GoTo(x, "session")
  /\ UNCHANGED <<callback, taken, now>>

\* No usable account: the result stays claimed, and nothing else is written.
CommitUnavailable(x) ==
  /\ exchange[x].at = "commitUnavailable"
  /\ Claimed(x)
  /\ GoTo(x, "unavailable")
  /\ UNCHANGED <<accounts, session, callback, now>>

\* The deferred check of the session's expiry runs in the COMMIT, before the stamp.
CommitWindow(x) ==
  LET s == exchange[x].session IN
  /\ exchange[x].at = "commitWindow"
  /\ \/ /\ session[s].state = "live"
        /\ Claimed(x)
        /\ session' = [session EXCEPT ![s].open = @ \/ exchange[x].stamp]
        /\ exchange' = [exchange EXCEPT ![x] = [@ EXCEPT !.at = "window", !.stamp = FALSE]]
     \/ /\ session[s].state = "ended"
        /\ GiveUp(x)
        /\ UNCHANGED <<attempt, session>>
  /\ UNCHANGED <<accounts, callback, now>>

Counts(a) == Unexpired(a) /\ ~attempt[a].claimed /\ attempt[a].failures < MaxFailures

\* After the rollback, and before the answer.  The statement waits for a claim that
\* holds a row it would count in; a row that has expired is passed over.
RecordProviderHandoffFailure(x) ==
  LET a == exchange[x].attempt IN
  /\ exchange[x].at = "count"
  /\ Counts(a) => AttemptUnlocked(a)
  /\ attempt' = IF Counts(a) THEN [attempt EXCEPT ![a].failures = @ + 1] ELSE attempt
  /\ GoTo(x, "rejected")
  /\ UNCHANGED <<accounts, session, callback, now>>

\* A limit, an error, a deadline or a stopped process: the transaction is rolled back.
Fail(x) ==
  /\ exchange[x].at \in Running
  /\ GiveUp(x)
  /\ UNCHANGED <<tables, callback, now>>

-----------------------------------------------------------------------------
(* The rest of the service, and time.                                      *)

\* Signup of a password account.
Signup(e) ==
  /\ EmailSettled(e) /\ ~EmailTaken(e)
  /\ taken' = taken \cup {e}
  /\ UNCHANGED <<attempt, callback, exchange, account, link, session, now>>

EmailVerified(n) == \E i \in Identity : link[i] = n /\ StartsVerified(i, account[n].email)

\* The owner of the mailbox replaces an account whose email is not verified: the old one
\* is retired, its sessions end, and a password account has the email.
ClaimAccount(n) ==
  /\ ActiveAccount(n)
  /\ ~EmailVerified(n)
  /\ AccountUnlocked(n)
  /\ account' = [account EXCEPT ![n].state = "retired"]
  /\ taken' = taken \cup {account[n].email}
  /\ session' = [s \in Exchange |-> IF session[s].account = n
                                    THEN [session[s] EXCEPT !.state = "ended", !.open = FALSE]
                                    ELSE session[s]]
  /\ UNCHANGED <<attempt, callback, exchange, link, now>>

EndSession(s) == session' = [session EXCEPT ![s] = [@ EXCEPT !.state = "ended", !.open = FALSE]]

Logout(s) ==
  /\ session[s].state = "live"
  /\ \A x \in Exchange : ~HoldsSession(x, s)
  /\ EndSession(s)
  /\ UNCHANGED <<attempt, callback, exchange, accounts, now>>

\* Expiries do not wait for locks.
SessionLapses(s) ==
  /\ session[s].state = "live"
  /\ EndSession(s)
  /\ UNCHANGED <<attempt, callback, exchange, accounts, now>>

WindowCloses(s) ==
  /\ session[s].state = "live" /\ session[s].open
  /\ session' = [session EXCEPT ![s].open = FALSE]
  /\ UNCHANGED <<attempt, callback, exchange, accounts, now>>

ExpiredAttempts == {a \in Attempt : attempt[a].state = "stored" /\ attempt[a].expires <= now}

\* One DELETE, that waits for the rows that a claim has locked.
PurgeExpired ==
  /\ ExpiredAttempts # {}
  /\ \A a \in ExpiredAttempts : AttemptUnlocked(a)
  /\ attempt' = [a \in Attempt |-> IF a \in ExpiredAttempts THEN NoAttempt("purged") ELSE attempt[a]]
  /\ UNCHANGED <<callback, exchange, accounts, session, now>>

Tick ==
  /\ now < MaxTime
  /\ now' = now + 1
  /\ UNCHANGED <<attempt, callback, exchange, accounts, session>>

CallbackStep(k) ==
  \/ \E a \in Attempt : ConsumeProviderState(k, a)
  \/ \E proof \in Proofs : VerifyProviderIdentity(k, proof)
  \/ FailProviderAttempt(k)
  \/ RecordProviderResult(k)
  \/ CallbackDies(k)

ExchangeStep(x) ==
  \/ \E a \in Attempt, k \in Callback \cup {None} :
       \/ CreateProviderSession(x, a, k)
       \/ \E s \in Exchange : CompleteProviderReauthentication(x, a, k, s)
  \/ LockSessionForReauthentication(x)
  \/ ClaimProviderResult(x) \/ ClaimProviderReauthenticationResult(x) \/ RejectClaim(x)
  \/ LockLinkedAccount(x)
  \/ CreateProviderAccount(x)
  \/ CreateProviderLink(x)
  \/ HasProviderLink(x)
  \/ OpenWindow(x)
  \/ CommitSession(x)
  \/ CommitUnavailable(x)
  \/ CommitWindow(x)
  \/ RecordProviderHandoffFailure(x)
  \/ Fail(x)

Environment ==
  \/ \E e \in Email : Signup(e)
  \/ \E x \in Exchange : ClaimAccount(x) \/ Logout(x) \/ SessionLapses(x) \/ WindowCloses(x)
  \/ PurgeExpired
  \/ Tick

Next ==
  \/ \E a \in Attempt : StartProviderLogin(a) \/ \E s \in Exchange : StartProviderReauthentication(a, s)
  \/ \E k \in Callback : CallbackStep(k)
  \/ \E x \in Exchange : ExchangeStep(x)
  \/ Environment

Spec == Init /\ [][Next]_vars

-----------------------------------------------------------------------------
(* Safety.                                                                 *)

\* Claims that race, fail half-way or meet a retired account leave no account that
\* nobody can sign in to, none that two identities sign in to, and no email that two
\* active accounts have (CreateProviderAccount of the repository).
AccountsStayLinked ==
  /\ \A n \in Exchange : account[n].state # "free" => \E i \in Identity : link[i] = n
  /\ \A i, j \in Identity : link[i] # None /\ link[i] = link[j] => i = j
  /\ \A i \in Identity : link[i] # None => account[link[i]].state # "free"
  /\ \A n, m \in Exchange : ActiveAccount(n) /\ ActiveAccount(m) /\ n # m => account[n].email # account[m].email
  /\ \A n \in Exchange : ActiveAccount(n) => account[n].email \notin taken

Rejected(a) == {x \in Exchange : exchange[x].at = "rejected" /\ exchange[x].attempt = a}

-----------------------------------------------------------------------------
(* The inductive invariant.                                                *)

\* An attempt is consumed for good, by one callback.
CallbacksFit ==
  \A k \in Callback :
    LET c == callback[k] IN
    /\ c.attempt # None <=> c.at \in {"verify", "record", "shown"}
    /\ c.attempt # None => attempt[c.attempt].consumed \/ attempt[c.attempt].state = "purged"
    /\ c.at \in {"record", "shown"} => c.identity # None
    /\ \A j \in Callback : c.attempt # None /\ callback[j].attempt = c.attempt => j = k

\* The result of an attempt is what the callback that shows its code has proved.
ResultsFit ==
  \A a \in Attempt :
    LET k == attempt[a].code IN
    /\ attempt[a].consumed => attempt[a].state = "stored"
    /\ k # None =>
         /\ attempt[a].consumed
         /\ callback[k].at = "shown" /\ callback[k].attempt = a
         /\ callback[k].identity = attempt[a].identity

\* Every exchange was presented a token that exists, and a session that does.
PresentedFits(x) ==
  LET e == exchange[x] IN
  /\ e.at \notin {"idle", "failed"} => e.attempt # None /\ attempt[e.attempt].state # "free"
  /\ e.session # None => session[e.session].state # "free"
  /\ e.at \in {"lockSession", "checkLink", "openWindow", "commitWindow", "window"} => e.session # None

\* What a claim has found stays so while it holds the row.
ClaimFits(x) ==
  exchange[x].at \in Claiming =>
    /\ exchange[x].code # None /\ ClaimedRow(x).code = exchange[x].code
    /\ ClaimedRow(x).session = exchange[x].session
    /\ ~ClaimedRow(x).claimed /\ ClaimedRow(x).failures < MaxFailures

SpentFits(x) ==
  LET k == exchange[x].code IN
  exchange[x].at \in Spent =>
    /\ k # None /\ callback[k].at = "shown" /\ callback[k].attempt = exchange[x].attempt
    /\ ClaimedRow(x).claimed \/ ClaimedRow(x).state = "purged"

\* What x has inserted can be committed: nobody else gets the email or the identity before.
InsertFits(x) ==
  /\ exchange[x].at = "createAccount" => ClaimedRow(x).email # None
  /\ exchange[x].at = "createLink" => exchange[x].account = x
  /\ InsertedAccount(x) => ClaimedRow(x).email # None /\ ~EmailTaken(ClaimedRow(x).email)
  /\ InsertedLink(x) => link[ClaimedRow(x).identity] = None

\* The account that x has found, or that of its session, is linked to the proved identity.
FoundFits(x) ==
  /\ exchange[x].at = "commitSession" /\ exchange[x].account # x =>
       /\ exchange[x].account # None /\ ActiveAccount(exchange[x].account)
       /\ link[ClaimedRow(x).identity] = exchange[x].account
  /\ exchange[x].at \in {"openWindow", "commitWindow"} =>
       link[ClaimedRow(x).identity] = session[exchange[x].session].account

\* No two exchanges hold one attempt, or have inserted one email or one link.
Exclusion(x, y) ==
  /\ exchange[x].at \in Claiming => ~HoldsAttempt(y, exchange[x].attempt)
  /\ InsertedAccount(x) /\ InsertedAccount(y) => ClaimedRow(x).email # ClaimedRow(y).email
  /\ InsertedLink(x) /\ InsertedLink(y) => ClaimedRow(x).identity # ClaimedRow(y).identity

ExchangesFit ==
  /\ \A x \in Exchange :
       PresentedFits(x) /\ ClaimFits(x) /\ SpentFits(x) /\ InsertFits(x) /\ FoundFits(x)
  /\ \A x, y \in Exchange : x # y => Exclusion(x, y)

\* Accounts and sessions are made by commits only, and a live session has an active account.
SessionsFit ==
  \A x \in Exchange :
    /\ account[x].state # "free" \/ session[x].state # "free" => exchange[x].at = "session"
    /\ exchange[x].at = "session" => exchange[x].account # None
    /\ ActiveAccount(x) => account[x].email # None
    /\ session[x].account # None <=> session[x].state # "free"
    /\ session[x].state = "live" => ActiveAccount(session[x].account)

\* No rejection of an attempt that can still be spent goes uncounted.
RejectionsCount ==
  \A a \in Attempt :
    Counts(a) => IsFiniteSet(Rejected(a)) /\ Cardinality(Rejected(a)) <= attempt[a].failures

\* What holds in every state.
ProviderInv ==
  /\ TypeOK
  /\ CallbacksFit
  /\ ResultsFit
  /\ ExchangesFit
  /\ SessionsFit
  /\ RejectionsCount
  /\ AccountsStayLinked

-----------------------------------------------------------------------------
(* What the handoff promises.                                              *)

\* The account that exchange x was let into, by a new session or by an open window.
Entered(x) == IF exchange[x].at = "session" THEN exchange[x].account
              ELSE session[exchange[x].session].account

\* Who gets a session or a window proved, in the callback of the very attempt, the
\* identity that is linked to the account (claimSession, claim).
OnlyTheOwner ==
  \A x \in Exchange : exchange[x].at \in {"session", "window"} =>
    LET k == exchange[x].code IN
    /\ k \in Callback
    /\ callback[k].attempt = exchange[x].attempt
    /\ link[callback[k].identity] = Entered(x)

\* Five failed claims exhaust an attempt: after that many answers of rejection no
\* exchange spends it, the one that was under way meanwhile included.  An expired
\* attempt is rejected without being counted, so a claim that commits late is excepted.
ExhaustedIsOver ==
  [][\A x \in Exchange :
       /\ exchange[x].at \notin Spent /\ exchange'[x].at \in Spent
       /\ Unexpired(exchange[x].attempt)
       => Cardinality(Rejected(exchange[x].attempt)) < MaxFailures]_vars

\* docs/specs/identity-provider-login.md: a login is refused for its email if another
\* account owns it.  Two first logins of one identity at once break this: the second
\* finds no link, waits for the first, and takes the identity's own account for
\* another one (LockLinkedAccount and CreateProviderAccount read at different times).
RefusedForAnotherOwner ==
  \A x \in Exchange :
    exchange[x].at = "commitUnavailable" /\ exchange[x].session = None /\ ClaimedRow(x).email # None =>
      ~(Known(ClaimedRow(x).identity) /\ account[link[ClaimedRow(x).identity]].email = ClaimedRow(x).email)

-----------------------------------------------------------------------------
(* The abstract promise.                                                   *)

VoucherOf(a, k, s) == [attempt |-> a, code |-> k, purpose |-> s]

Made == {<<k, callback[k].attempt>> : k \in Shown}

Offered == {VoucherOf(a, attempt[a].code, attempt[a].session) :
              a \in {a \in Attempt : attempt[a].code # None /\ ~attempt[a].claimed
                                     /\ attempt[a].failures < MaxFailures}}

SpentBy == [x \in Exchange |->
              IF exchange[x].at \in Spent
              THEN VoucherOf(exchange[x].attempt, exchange[x].code, exchange[x].session)
              ELSE None]

Handoff == INSTANCE Voucher WITH
  Code <- Callback, Purpose <- Exchange \cup {None}, made <- Made, offered <- Offered, spent <- SpentBy

\* Attempts, callbacks and claims implement a voucher that is made and spent once, by
\* the one who shows its code, for the session or the login that it was made for.
ImplementsVoucher == Handoff!Spec
=============================================================================
