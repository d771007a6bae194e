------------------------------ MODULE Accounts ------------------------------
(***************************************************************************)
(* The account and session core of the Identity service: the accounts,     *)
(* sessions, code challenges and provider links of the Identity database,  *)
(* and every operation that writes them: signup, password login, provider  *)
(* login, email verification, account claim, password recovery, logout.    *)
(*                                                                         *)
(* Each operation is one database transaction.  A transaction reads the    *)
(* account row FOR UPDATE before anything it decides on, so two of them on *)
(* one account run one after the other, and a transaction is one step.     *)
(* Password login is the exception: it reads the password hash with no     *)
(* transaction open, spends time on Argon2, and only then opens the        *)
(* transaction that issues the session.  It is two actions, and everything *)
(* else can happen between them.                                           *)
(*                                                                         *)
(* A code is identified with its challenge row: to submit the code of      *)
(* challenge c is the parameter c, and every other code is a wrong guess.  *)
(***************************************************************************)
EXTENDS Integers, FiniteSets

CONSTANTS
  Account,       \* subjects that the service can draw
  Email,         \* normalized email addresses
  Session,       \* session ids
  Challenge,     \* challenge ids, each with its own code
  Identity,      \* pairs of provider and provider subject
  Login,         \* password logins in flight
  None,          \* the reference of a free row
  CodeInterval,  \* 60 seconds between two codes of an account
  CodeLifetime,  \* 10 minutes
  IssueWindow,   \* 1 hour
  MaxIssues,     \* 5 codes per account in an IssueWindow
  MaxGuesses,    \* 5 wrong guesses per challenge
  MaxTime        \* bound of the model: the clock stops here

ASSUME LimitsAssumption ==
  /\ {CodeInterval, CodeLifetime, IssueWindow, MaxIssues, MaxGuesses} \subseteq Nat \ {0}
  /\ CodeInterval <= IssueWindow
  /\ MaxTime \in Nat

ASSUME NoneAssumption == None \notin Account

VARIABLES
  account,    \* identity_accounts
  session,    \* identity_sessions
  challenge,  \* identity_challenges, each with its identity_challenge_deliveries row
  link,       \* identity_provider_links
  notice,     \* the reset challenges whose password change has its notice queued
  login,      \* password logins between their read and their transaction
  nextHash,   \* a hash carries a random salt, so that each one is a new value
  now         \* the clock of the database

vars == <<account, session, challenge, link, notice, login, nextHash, now>>

Purpose == {"verify-email", "claim-account", "password-reset"}

\* password_hash IS NULL, in a provider-only account.
NoHash == 0

AccountRow == [state: {"free", "active", "retired"}, email: Email \cup {None},
               verified: BOOLEAN, hash: Nat]

\* issuedUnder is no column: it records the hash that the login of the session
\* proved, or the hash of the account when the session needed no password.
SessionRow == [state: {"free", "live", "lapsed", "revoked"},
               account: Account \cup {None}, issuedUnder: Nat]

\* material says whether the encrypted code is still stored for delivery.
ChallengeRow == [state: {"free", "current", "replaced", "consumed"},
                 account: Account \cup {None}, email: Email \cup {None},
                 purpose: Purpose \cup {None}, guesses: Nat, issuedAt: Nat,
                 material: BOOLEAN]

LoginState == [account: Account \cup {None}, hash: Nat]

TypeOK ==
  /\ account \in [Account -> AccountRow]
  /\ session \in [Session -> SessionRow]
  /\ challenge \in [Challenge -> ChallengeRow]
  /\ link \in [Identity -> Account \cup {None}]
  /\ notice \subseteq Challenge
  /\ login \in [Login -> LoginState]
  /\ nextHash \in Nat \ {0}
  /\ now \in 0..MaxTime

FreeAccount == [state |-> "free", email |-> None, verified |-> FALSE, hash |-> NoHash]
FreeSession == [state |-> "free", account |-> None, issuedUnder |-> NoHash]
FreeChallenge == [state |-> "free", account |-> None, email |-> None, purpose |-> None,
                  guesses |-> 0, issuedAt |-> 0, material |-> FALSE]
IdleLogin == [account |-> None, hash |-> NoHash]

Init ==
  /\ account = [a \in Account |-> FreeAccount]
  /\ session = [s \in Session |-> FreeSession]
  /\ challenge = [c \in Challenge |-> FreeChallenge]
  /\ link = [i \in Identity |-> None]
  /\ notice = {}
  /\ login = [l \in Login |-> IdleLogin]
  /\ nextHash = 1
  /\ now = 0

-----------------------------------------------------------------------------
(* What the queries read.                                                  *)

Active(a) == account[a].state = "active"

\* The subject that an email resolves to: retired accounts do not count.
Owns(a, e) == Active(a) /\ account[a].email = e

EmailFree(e) == \A a \in Account : ~Owns(a, e)

\* The join of the session with its account behind every authenticated call.
ActiveSession(s) == session[s].state = "live" /\ Active(session[s].account)

Issued(a) == {c \in Challenge : challenge[c].account = a}

\* Bug: codes that were replaced or consumed no longer count.
CanIssueCodeBug(a) ==
  \A c \in Issued(a) : challenge[c].state = "current" =>
    challenge[c].issuedAt <= now - CodeInterval

\* Codes of the last hour count for every purpose together.
CanIssueCode(a) ==
  LET recent == {c \in Issued(a) : challenge[c].issuedAt > now - IssueWindow}
  IN  /\ Cardinality(recent) < MaxIssues
      /\ \A c \in recent : challenge[c].issuedAt <= now - CodeInterval

Current(c, a, p) ==
  /\ challenge[c].state = "current"
  /\ challenge[c].account = a
  /\ challenge[c].purpose = p

\* Bug: the expiry of the code is not looked at.
OpenBug(c, e) == challenge[c].email = e /\ challenge[c].guesses < MaxGuesses

\* The challenge accepts a guess that names the given email.
Open(c, e) ==
  /\ challenge[c].email = e
  /\ challenge[c].guesses < MaxGuesses
  /\ now < challenge[c].issuedAt + CodeLifetime

-----------------------------------------------------------------------------
(* What the queries write: each returns the table after the statement.     *)

NewAccount(e, verified, hash) ==
  [state |-> "active", email |-> e, verified |-> verified, hash |-> hash]

NewSession(a, hash) == [state |-> "live", account |-> a, issuedUnder |-> hash]

NewChallenge(a, e, p) ==
  [state |-> "current", account |-> a, email |-> e, purpose |-> p,
   guesses |-> 0, issuedAt |-> now, material |-> TRUE]

\* Bug: only the sessions that have not expired are revoked.
RevokeLiveSessionsBug(a) ==
  [s \in Session |-> IF session[s].account = a /\ session[s].state = "live"
                     THEN [session[s] EXCEPT !.state = "revoked"]
                     ELSE session[s]]

RevokeAccountSessions(a) ==
  [s \in Session |-> IF session[s].account = a /\ session[s].state \in {"live", "lapsed"}
                     THEN [session[s] EXCEPT !.state = "revoked"]
                     ELSE session[s]]

ReplaceCurrentChallenge(a, p) ==
  [c \in Challenge |-> IF Current(c, a, p)
                       THEN [challenge[c] EXCEPT !.state = "replaced"]
                       ELSE challenge[c]]

\* Bug: the stored material of the codes before stays.
KeepResetMaterialBug(a) == ReplaceCurrentChallenge(a, "password-reset")

\* Bug: consumed codes are marked replaced too.
ReplaceEveryResetBug(a) ==
  [c \in Challenge |->
     IF challenge[c].account = a /\ challenge[c].purpose = "password-reset"
     THEN [challenge[c] EXCEPT !.state = "replaced", !.material = FALSE]
     ELSE challenge[c]]

\* A reset code also takes the stored material of the codes before it away.
ReplacePasswordResetChallenge(a) ==
  [c \in Challenge |->
     IF challenge[c].account = a /\ challenge[c].purpose = "password-reset"
        /\ challenge[c].state \in {"current", "replaced"}
     THEN [challenge[c] EXCEPT !.state = "replaced", !.material = FALSE]
     ELSE challenge[c]]

\* Every challenge of the account ends, and no code of it is delivered.
RevokeAccountChallenges(a) ==
  [c \in Challenge |->
     IF challenge[c].account # a THEN challenge[c]
     ELSE [challenge[c] EXCEPT !.state = IF @ = "current" THEN "replaced" ELSE @,
                               !.material = FALSE]]

-----------------------------------------------------------------------------
(* Time.                                                                   *)

Tick ==
  /\ now < MaxTime
  /\ now' = now + 1
  /\ UNCHANGED <<account, session, challenge, link, notice, login, nextHash>>

\* The idle or the absolute expiry passes, and no refresh that is under way moves it.
SessionLapses(s) ==
  /\ session[s].state = "live"
  /\ session' = [session EXCEPT ![s].state = "lapsed"]
  /\ UNCHANGED <<account, challenge, link, notice, login, nextHash, now>>

-----------------------------------------------------------------------------
(* Signup and logins.                                                      *)

FreeRows(a, s) == account[a].state = "free" /\ session[s].state = "free"
FreeCode(c) == challenge[c].state = "free"

Signup(e, a, s, c) ==
  /\ FreeRows(a, s) /\ FreeCode(c)
  /\ EmailFree(e)
  /\ account' = [account EXCEPT ![a] = NewAccount(e, FALSE, nextHash)]
  /\ session' = [session EXCEPT ![s] = NewSession(a, nextHash)]
  /\ challenge' = [challenge EXCEPT ![c] = NewChallenge(a, e, "verify-email")]
  /\ nextHash' = nextHash + 1
  /\ UNCHANGED <<link, notice, login, now>>

\* The hash is read and the password matches it; no lock is held after this.
FindPasswordAccount(l, a, e) ==
  /\ login[l] = IdleLogin
  /\ Owns(a, e) /\ account[a].hash # NoHash
  /\ login' = [login EXCEPT ![l] = [account |-> a, hash |-> account[a].hash]]
  /\ UNCHANGED <<account, session, challenge, link, notice, nextHash, now>>

\* Bug: only the subject is looked up again, and not its hash.
SameAccountBug(l) == Active(login[l].account)

\* Under the account lock the hash must still be the one that was verified.
SameCredential(l) ==
  /\ Active(login[l].account)
  /\ account[login[l].account].hash = login[l].hash

IssueLoginSession(l, s) ==
  /\ login[l] # IdleLogin
  /\ SameCredential(l)
  /\ session[s].state = "free"
  /\ session' = [session EXCEPT ![s] = NewSession(login[l].account, login[l].hash)]
  /\ login' = [login EXCEPT ![l] = IdleLogin]
  /\ UNCHANGED <<account, challenge, link, notice, nextHash, now>>

\* The re-check fails, or the request ends in a timeout or a database error.
FailLogin(l) ==
  /\ login[l] # IdleLogin
  /\ login' = [login EXCEPT ![l] = IdleLogin]
  /\ UNCHANGED <<account, session, challenge, link, notice, nextHash, now>>

\* A linked identity signs in to its account, if that is not retired.
ProviderLogin(i, s) ==
  /\ link[i] # None
  /\ Active(link[i])
  /\ session[s].state = "free"
  /\ session' = [session EXCEPT ![s] = NewSession(link[i], account[link[i]].hash)]
  /\ UNCHANGED <<account, challenge, link, notice, login, nextHash, now>>

\* A new identity gets a provider-only account.  The primary key of the links
\* rolls the transaction back for an identity whose account was retired.
ProviderSignup(i, e, verified, a, s, c) ==
  /\ link[i] = None
  /\ FreeRows(a, s) /\ FreeCode(c)
  /\ EmailFree(e)
  /\ account' = [account EXCEPT ![a] = NewAccount(e, verified, NoHash)]
  /\ session' = [session EXCEPT ![s] = NewSession(a, NoHash)]
  /\ challenge' = IF verified THEN challenge
                  ELSE [challenge EXCEPT ![c] = NewChallenge(a, e, "verify-email")]
  /\ link' = [link EXCEPT ![i] = a]
  /\ UNCHANGED <<notice, login, nextHash, now>>

-----------------------------------------------------------------------------
(* Requests for a code.                                                    *)

RequestVerificationCode(s, c) ==
  LET a == session[s].account IN
  /\ ActiveSession(s)
  /\ ~account[a].verified
  /\ CanIssueCode(a)
  /\ FreeCode(c)
  /\ challenge' = [ReplaceCurrentChallenge(a, "verify-email")
                     EXCEPT ![c] = NewChallenge(a, account[a].email, "verify-email")]
  /\ UNCHANGED <<account, session, link, notice, login, nextHash, now>>

RequestClaimCode(a, e, c) ==
  /\ Owns(a, e) /\ ~account[a].verified
  /\ CanIssueCode(a)
  /\ FreeCode(c)
  /\ challenge' = [ReplaceCurrentChallenge(a, "claim-account")
                     EXCEPT ![c] = NewChallenge(a, e, "claim-account")]
  /\ UNCHANGED <<account, session, link, notice, login, nextHash, now>>

MayReset(a, e) == Owns(a, e) /\ account[a].verified /\ account[a].hash # NoHash

RequestPasswordResetCode(a, e, c) ==
  /\ MayReset(a, e)
  /\ CanIssueCode(a)
  /\ FreeCode(c)
  /\ challenge' = [ReplacePasswordResetChallenge(a)
                     EXCEPT ![c] = NewChallenge(a, e, "password-reset")]
  /\ UNCHANGED <<account, session, link, notice, login, nextHash, now>>

-----------------------------------------------------------------------------
(* Submissions of a code.                                                  *)

\* Who may have a code of the account's challenge c checked, right or wrong.
MaySubmit(c) ==
  LET a == challenge[c].account IN
  /\ challenge[c].state = "current"
  /\ Active(a)
  /\ Open(c, account[a].email)
  /\ CASE challenge[c].purpose = "verify-email" ->
            /\ ~account[a].verified
            /\ \E s \in Session : ActiveSession(s) /\ session[s].account = a
       [] challenge[c].purpose = "claim-account" -> ~account[a].verified
       [] challenge[c].purpose = "password-reset" -> MayReset(a, account[a].email)

WrongGuess(c) ==
  /\ MaySubmit(c)
  /\ challenge' = [challenge EXCEPT ![c].guesses = @ + 1]
  /\ UNCHANGED <<account, session, link, notice, login, nextHash, now>>

VerifyEmail(c) ==
  /\ challenge[c].purpose = "verify-email"
  /\ MaySubmit(c)
  /\ challenge' = [challenge EXCEPT ![c].state = "consumed"]
  /\ account' = [account EXCEPT ![challenge[c].account].verified = TRUE]
  /\ UNCHANGED <<session, link, notice, login, nextHash, now>>

\* The subject of the unverified account ends with everything it could act
\* with, and the email goes on as the new, verified subject b.
ClaimUnverifiedAccount(c, b, s) ==
  LET a == challenge[c].account
      e == challenge[c].email
  IN
  /\ challenge[c].purpose = "claim-account"
  /\ MaySubmit(c)
  /\ FreeRows(b, s)
  /\ challenge' = [RevokeAccountChallenges(a) EXCEPT ![c].state = "consumed"]
  /\ session' = [RevokeAccountSessions(a) EXCEPT ![s] = NewSession(b, nextHash)]
  /\ account' = [[account EXCEPT ![a].state = "retired"] EXCEPT ![b] = NewAccount(e, TRUE, nextHash)]
  /\ nextHash' = nextHash + 1
  /\ UNCHANGED <<link, notice, login, now>>

ResetPassword(c) ==
  LET a == challenge[c].account IN
  /\ challenge[c].purpose = "password-reset"
  /\ MaySubmit(c)
  /\ challenge' = [ReplacePasswordResetChallenge(a)
                     EXCEPT ![c] = [challenge[c] EXCEPT !.state = "consumed", !.material = FALSE]]
  /\ account' = [account EXCEPT ![a].hash = nextHash]
  /\ session' = RevokeAccountSessions(a)
  /\ notice' = notice \cup {c}
  /\ nextHash' = nextHash + 1
  /\ UNCHANGED <<link, login, now>>

-----------------------------------------------------------------------------
(* Logout, and what the background workers take away.                      *)

LogoutCurrentSession(s) ==
  /\ ActiveSession(s)
  /\ session' = [session EXCEPT ![s].state = "revoked"]
  /\ UNCHANGED <<account, challenge, link, notice, login, nextHash, now>>

LogoutAllSessions(s) ==
  /\ ActiveSession(s)
  /\ session' = RevokeAccountSessions(session[s].account)
  /\ UNCHANGED <<account, challenge, link, notice, login, nextHash, now>>

\* A refresh token that was rotated away comes back: the session ends.
RevokeReplayedSession(s) ==
  /\ ActiveSession(s)
  /\ session' = [session EXCEPT ![s].state = "revoked"]
  /\ UNCHANGED <<account, challenge, link, notice, login, nextHash, now>>

\* The email worker has sent the code or found it ended, or the purge did.
DropMaterial(c) ==
  /\ challenge[c].material
  /\ challenge' = [challenge EXCEPT ![c].material = FALSE]
  /\ UNCHANGED <<account, session, link, notice, login, nextHash, now>>

SendNotice(c) ==
  /\ c \in notice
  /\ notice' = notice \ {c}
  /\ UNCHANGED <<account, session, challenge, link, login, nextHash, now>>

-----------------------------------------------------------------------------
Logins ==
  \E l \in Login :
    \/ \E a \in Account, e \in Email : FindPasswordAccount(l, a, e)
    \/ \E s \in Session : IssueLoginSession(l, s)
    \/ FailLogin(l)

Creations ==
  \E e \in Email, a \in Account, s \in Session, c \in Challenge :
    \/ Signup(e, a, s, c)
    \/ \E i \in Identity, verified \in BOOLEAN : ProviderSignup(i, e, verified, a, s, c)

CodeRequests ==
  \E c \in Challenge :
    \/ \E s \in Session : RequestVerificationCode(s, c)
    \/ \E a \in Account, e \in Email :
         RequestClaimCode(a, e, c) \/ RequestPasswordResetCode(a, e, c)

Submissions ==
  \E c \in Challenge :
    \/ WrongGuess(c)
    \/ VerifyEmail(c)
    \/ \E b \in Account, s \in Session : ClaimUnverifiedAccount(c, b, s)
    \/ ResetPassword(c)

SessionSteps ==
  \E s \in Session :
    \/ \E i \in Identity : ProviderLogin(i, s)
    \/ SessionLapses(s)
    \/ LogoutCurrentSession(s)
    \/ LogoutAllSessions(s)
    \/ RevokeReplayedSession(s)

WorkerSteps == \E c \in Challenge : DropMaterial(c) \/ SendNotice(c)

Next == Tick \/ Logins \/ Creations \/ CodeRequests \/ Submissions \/ SessionSteps \/ WorkerSteps

Spec == Init /\ [][Next]_vars

-----------------------------------------------------------------------------
(* What must hold.                                                         *)

\* A session that can still act was issued under the password the account has
\* now: a login that verified a hash before a reset committed gets no session
\* out of it (PasswordLoginService.issue, PasswordResetService.reset).
SessionMatchesCredential ==
  \A s \in Session :
    session[s].state = "live" => session[s].issuedUnder = account[session[s].account].hash

\* A retired subject can do nothing: it has no live session and no code that
\* still counts or could still be sent (AccountClaimService.replaceAccount).
RetiredIsInert ==
  \A a \in Account : account[a].state = "retired" =>
    /\ \A s \in Session : session[s].account = a => session[s].state = "revoked"
    /\ \A c \in Issued(a) : challenge[c].state # "current" /\ ~challenge[c].material

\* At most one active account holds an email, however signups, claims and
\* provider logins for it race (identity_accounts_active_email).
OneOwnerPerEmail ==
  \A a, b \in Account : Active(a) /\ Active(b) /\ account[a].email = account[b].email => a = b

\* The stored code of a reset goes away with the reset: no later state of the
\* account has the material of a reset code that was used or replaced.
SpentResetHasNoMaterial ==
  \A c \in Challenge :
    challenge[c].purpose = "password-reset" /\ challenge[c].material => challenge[c].state = "current"

\* One code per account and purpose can succeed at any time.
OneCurrentCode ==
  \A c, d \in Challenge, a \in Account, p \in Purpose :
    Current(c, a, p) /\ Current(d, a, p) => c = d

\* No hour holds more than MaxIssues codes of one account, and two of them are
\* CodeInterval apart, whatever their purposes (CanIssueCode).
IssueBudget ==
  \A a \in Account :
    /\ \A t \in 0..now :
         Cardinality({c \in Issued(a) : challenge[c].issuedAt \in (t - IssueWindow + 1)..t}) <= MaxIssues
    /\ \A c, d \in Issued(a) :
         c = d \/ challenge[c].issuedAt + CodeInterval <= challenge[d].issuedAt
               \/ challenge[d].issuedAt + CodeInterval <= challenge[c].issuedAt

\* A verified account keeps its email and is never retired: of a verification
\* and a claim that race, the verification wins for good.
VerifiedIsPermanent ==
  [][\A a \in Account : account[a].verified =>
       /\ account'[a].verified
       /\ account'[a].state = "active"
       /\ account'[a].email = account[a].email]_vars

\* Mailbox control is proved by spending a code that was sent to that email:
\* verified accounts start as a provider's proof, or in the step that consumes
\* an open verification or claim code of their email.
VerifiedByMailbox ==
  [][\A a \in Account : account'[a].verified /\ ~account[a].verified =>
       \/ \E i \in Identity : link[i] = None /\ link'[i] = a
       \/ \E c \in Challenge :
            /\ challenge[c].state = "current" /\ challenge'[c].state = "consumed"
            /\ challenge[c].purpose \in {"verify-email", "claim-account"}
            /\ challenge[c].email = account'[a].email
            /\ challenge[c].guesses < MaxGuesses
            /\ now < challenge[c].issuedAt + CodeLifetime]_vars

\* A password changes only together with everything a reset owes: one reset
\* code of the account is spent, a notice is queued, every session is revoked.
PasswordChangeIsComplete ==
  [][\A a \in Account : account[a].state = "active" /\ account'[a].hash # account[a].hash =>
       /\ \E c \in Issued(a) : challenge[c].state = "current" /\ challenge'[c].state = "consumed"
                               /\ challenge[c].purpose = "password-reset" /\ c \in notice'
       /\ \A s \in Session : session[s].account = a => session'[s].state = "revoked"]_vars

\* Nothing that ended comes back: no step revives a session, a code or a subject.
NoRevival ==
  [][/\ \A s \in Session : session[s].state \in {"lapsed", "revoked"} =>
          session'[s].state \in {"lapsed", "revoked"} /\ session'[s].account = session[s].account
     /\ \A c \in Challenge : challenge[c].state \in {"replaced", "consumed"} =>
          /\ challenge'[c].state = challenge[c].state
          /\ challenge'[c].material => challenge[c].material
     /\ \A a \in Account : account[a].state = "retired" => account'[a] = account[a]]_vars

-----------------------------------------------------------------------------
(* The inductive invariant: the rows refer to each other as the foreign    *)
(* keys and the statuses promise, and the safety invariants hold.          *)

\* A session belongs to a subject that exists, and one not revoked to one that is active.
SessionRefs ==
  \A s \in Session :
    /\ session[s].state = "free" => session[s].account = None
    /\ session[s].state # "free" => /\ session[s].account \in Account
                                    /\ account[session[s].account].state # "free"
    /\ session[s].state \in {"live", "lapsed"} => account[session[s].account].state = "active"

\* A challenge belongs to a subject that exists; one that is current or still
\* has its material belongs to one that is active.
ChallengeRefs ==
  \A c \in Challenge :
    /\ challenge[c].state = "free" => challenge[c].account = None /\ ~challenge[c].material
    /\ challenge[c].state # "free" => /\ challenge[c].account \in Account
                                      /\ challenge[c].purpose \in Purpose
                                      /\ account[challenge[c].account].state # "free"
    /\ challenge[c].state = "current" \/ challenge[c].material =>
         account[challenge[c].account].state = "active"

\* Only an active subject, which has an email, is verified, and only to a subject
\* is an identity linked.
AccountRefs ==
  /\ \A a \in Account : account[a].verified => Active(a)
  /\ \A a \in Account : Active(a) => account[a].email \in Email
  /\ \A i \in Identity : link[i] # None => account[link[i]].state # "free"
  /\ \A l \in Login : login[l] = IdleLogin \/ login[l].account \in Account

SessionInv == SessionRefs /\ SessionMatchesCredential
ChallengeInv == ChallengeRefs /\ SpentResetHasNoMaterial /\ OneCurrentCode
OwnerInv == AccountRefs /\ OneOwnerPerEmail

RowsInv == TypeOK /\ OwnerInv /\ SessionInv /\ ChallengeInv

\* A count that is taken now leaves no code out: no row says that it was issued later.
CodesArePast ==
  /\ \A c \in Challenge : challenge[c].issuedAt <= now
  /\ \A a \in Account : IsFiniteSet(Issued(a))

AccountsInv == RowsInv /\ CodesArePast /\ IssueBudget

=============================================================================
