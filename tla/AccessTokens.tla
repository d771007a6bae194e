---------------------------- MODULE AccessTokens ----------------------------
(***************************************************************************)
(* Access tokens, and the requests that present them.  The Identity API    *)
(* signs a token with the active key of its configuration, and accepts and *)
(* publishes that key and one more (buildSigningKeys).  The Workspace API  *)
(* verifies a token with the keys it fetches from Identity for every       *)
(* request, then asks Identity whether the session is active               *)
(* (TokenVerifier.VerifyToken, CheckSession); the handlers of the Identity *)
(* API verify with their own keys and find the session in the transaction  *)
(* of the operation.                                                       *)
(*                                                                         *)
(* Identity runs in pods, each with the keys of the configuration it was   *)
(* started with.  A key is rotated in three changes of the configuration,  *)
(* each rolled out pod by pod: the next key is published, it becomes the   *)
(* active one, and the old one is retired when the tokens it signed have   *)
(* expired (docs/identity-signing-keys.md and the script for the last      *)
(* step).  Pods crash, calls between the services fail, and sessions end   *)
(* meanwhile.                                                              *)
(*                                                                         *)
(* An operation on accounts is one step here; module Accounts has its      *)
(* parts.  An error of a service is named by its value ("limited" is       *)
(* ErrRateLimited), an answer by its gRPC code.                            *)
(***************************************************************************)
EXTENDS Integers

CONSTANTS
  Pod, Account, Session, Token, Request,
  Owner,       \* the account of each session
  Lifetime,    \* of an access token, 10 minutes
  Delay,       \* between the last use of a key and its retirement, 690 seconds
  DrainTime,   \* a pod that was told to stop may still answer, 10 seconds
  Skew,        \* how far the clock of a verifier may be from that of the database
  MaxKey,      \* bound of the model: keys
  MaxTime      \* bound of the model: the clock stops here

NoKey == 0
Key == 1..MaxKey

ASSUME NumbersAssumption ==
  /\ Lifetime \in Nat \ {0} /\ Delay \in Nat /\ DrainTime \in Nat /\ Skew \in Nat
  /\ MaxKey \in Nat \ {0} /\ MaxTime \in Nat
ASSUME DelayAssumption == Delay >= Lifetime + DrainTime
ASSUME OwnerAssumption == Owner \in [Session -> Account]

VARIABLES
  config,    \* SIGNING_KEY_ID and SIGNING_ADDITIONAL_PUBLIC_KEY as they are deployed
  phase,     \* of the rotation
  lastUse,   \* the recorded last possible use of the old key
  pod,       \* each pod: whether it runs, with which keys, and until when it stops
  token,     \* the access tokens
  account,   \* the accounts, and whether the email of each is verified
  session,   \* the sessions
  req,       \* the requests with a token
  lag,       \* the clock of the verifiers is so far behind that of the database
  now        \* the clock of the database

vars == <<config, phase, lastUse, pod, token, account, session, req, lag, now>>

AtWorkspace == {"workspace"}
AtIdentity == {"logout", "logout-all", "verification-code", "verify-email", "reauthenticate"}

Down == [at |-> "down", active |-> 1, extra |-> NoKey, until |-> 0]
NoToken(s) == [key |-> NoKey, session |-> s, iat |-> 0]
NoRequest(t) == [at |-> "none", kind |-> "workspace", token |-> t, answer |-> "none", seen |-> 0,
                 before |-> [session |-> "none", verified |-> FALSE]]

\* What an instance with the configuration c accepts and publishes.
Published(c) == {c.active, c.extra} \ {NoKey}

\* Accounts may exist, and no pod runs yet.
Init ==
  /\ config = [active |-> 1, extra |-> NoKey] /\ phase = "steady" /\ lastUse = 0
  /\ pod = [p \in Pod |-> Down]
  /\ \E s \in Session : token = [t \in Token |-> NoToken(s)]
  /\ account \in [Account -> {"free", "unverified"}]
  /\ session = [s \in Session |-> "none"]
  /\ \E t \in Token : req = [q \in Request |-> NoRequest(t)]
  /\ lag \in -Skew..Skew /\ now = 0

Up(p) == pod[p].at = "up"
Runs(p) == pod[p].at \in {"up", "leaving"}
Current(p) == pod[p].active = config.active /\ pod[p].extra = config.extra
RolledOut == (\E p \in Pod : Up(p)) /\ \A p \in Pod : Up(p) => Current(p)
Issued(t) == token[t].key # NoKey
Expiry(t) == token[t].iat + Lifetime

------------------------------------------------------------------------------
(* Pods and rollouts.                                                      *)

deployed == <<config, phase, lastUse>>
others == <<token, account, session, req, lag, now>>

\* A pod starts with the configuration of the moment, to replace others or one that crashed.
StartPod(p) ==
  /\ pod[p].at = "down" /\ ~\E o \in Pod : Up(o) /\ Current(o)
  /\ pod' = [pod EXCEPT ![p] = [at |-> "up", active |-> config.active, extra |-> config.extra, until |-> 0]]
  /\ UNCHANGED <<deployed, others>>

StopPod(p) ==
  /\ Up(p) /\ ~Current(p) /\ \E o \in Pod : Up(o) /\ Current(o)
  /\ pod' = [pod EXCEPT ![p] = [@ EXCEPT !.at = "leaving", !.until = now + DrainTime]]
  /\ UNCHANGED <<deployed, others>>

PodEnds(p) ==
  /\ Runs(p)  \* it has stopped, or crashed
  /\ pod' = [pod EXCEPT ![p] = Down]
  /\ UNCHANGED <<deployed, others>>

------------------------------------------------------------------------------
(* The rotation.                                                           *)

\* The next key is published.
PublishKey ==
  /\ phase = "steady" /\ RolledOut /\ config.active < MaxKey
  /\ config' = [config EXCEPT !.extra = config.active + 1] /\ phase' = "published"
  /\ UNCHANGED <<lastUse, pod, others>>

\* Bug: the key is changed where it stands; the old one is published beside it.
SwitchKeyBug ==
  /\ phase \in {"steady", "published"} /\ RolledOut /\ config.active < MaxKey
  /\ config' = [active |-> config.active + 1, extra |-> config.active] /\ phase' = "switched"
  /\ UNCHANGED <<lastUse, pod, others>>

\* It signs from now on, and the old key is published beside it.
SwitchKey ==
  /\ phase = "published" /\ RolledOut
  /\ config' = [active |-> config.extra, extra |-> config.active] /\ phase' = "switched"
  /\ UNCHANGED <<lastUse, pod, others>>

\* The time is recorded when the rollout is complete: no pod that is meant to
\* run signs with the old key any more.
RecordLastUse ==
  /\ phase = "switched" /\ RolledOut
  /\ lastUse' = now /\ phase' = "recorded"
  /\ UNCHANGED <<config, pod, others>>

\* retire-identity-signing-key-local.sh
RetireKey ==
  /\ phase = "recorded" /\ now >= lastUse + Delay
  /\ config' = [config EXCEPT !.extra = NoKey] /\ phase' = "steady"
  /\ UNCHANGED <<lastUse, pod, others>>

------------------------------------------------------------------------------
(* Sessions and their tokens.                                              *)

\* SessionService.Issue: the token carries the time, by the clock of the database, at
\* which its session was created or refreshed, and the key of the pod that signs it.
Sign(p, t, s) == token' = [token EXCEPT ![t] = [key |-> pod[p].active, session |-> s, iat |-> now]]

SessionsOf(a) == {s \in Session : Owner[s] = a}
Issue(p, t, s) == Runs(p) /\ ~Issued(t) /\ session[s] = "none" /\ Sign(p, t, s)
Ended(S) == [s \in Session |-> IF s \in S /\ session[s] = "active" THEN "ended" ELSE session[s]]

CreateAccount(p, t, s) ==
  /\ Issue(p, t, s) /\ account[Owner[s]] = "free"
  /\ account' = [account EXCEPT ![Owner[s]] = "unverified"]
  /\ session' = [session EXCEPT ![s] = "active"]
  /\ UNCHANGED <<deployed, pod, req, lag, now>>

CreatePasswordSession(p, t, s) ==
  /\ Issue(p, t, s) /\ account[Owner[s]] \in {"unverified", "verified"}
  /\ session' = [session EXCEPT ![s] = "active"]
  /\ UNCHANGED <<deployed, pod, account, req, lag, now>>

\* Without an account yet, one whose email is as verified as the provider says.
CreateProviderSession(p, t, s) ==
  /\ Issue(p, t, s)
  /\ \/ account[Owner[s]] \in {"unverified", "verified"} /\ UNCHANGED account
     \/ /\ account[Owner[s]] = "free"
        /\ \E a \in {"unverified", "verified"} : account' = [account EXCEPT ![Owner[s]] = a]
  /\ session' = [session EXCEPT ![s] = "active"]
  /\ UNCHANGED <<deployed, pod, req, lag, now>>

\* The account a goes, with its sessions, and the one of s takes its email over.
ClaimUnverifiedAccount(p, t, s, a) ==
  /\ Issue(p, t, s) /\ account[Owner[s]] = "free" /\ account[a] = "unverified"
  /\ account' = [[account EXCEPT ![a] = "retired"] EXCEPT ![Owner[s]] = "verified"]
  /\ session' = [Ended(SessionsOf(a)) EXCEPT ![s] = "active"]
  /\ UNCHANGED <<deployed, pod, req, lag, now>>

\* The client forgets the token it had.
RefreshSession(p, t, s) ==
  /\ Runs(p) /\ session[s] = "active"
  /\ Issued(t) => token[t].session = s /\ \A q \in Request : req[q].at = "none"
  /\ Sign(p, t, s)
  /\ UNCHANGED <<deployed, pod, account, session, req, lag, now>>

ResetPassword(a) ==
  /\ account[a] = "verified"
  /\ session' = Ended(SessionsOf(a))
  /\ UNCHANGED <<deployed, pod, token, account, req, lag, now>>

\* Its time is over, or its refresh token was used twice.
SessionEnds(s) ==
  /\ session[s] = "active"
  /\ session' = Ended({s})
  /\ UNCHANGED <<deployed, pod, token, account, req, lag, now>>

------------------------------------------------------------------------------
(* A request arrives, and its token is verified.                           *)

State(t) == [session |-> session[token[t].session], verified |-> account[Owner[token[t].session]] = "verified"]

\* For an operation that needs a token, of either API.
Receive(q, kind, t) ==
  /\ req[q].at = "none" /\ Issued(t)
  /\ req' = [req EXCEPT ![q] = [at |-> "verify", kind |-> kind, token |-> t, answer |-> "none",
                               seen |-> 0, before |-> State(t)]]
  /\ UNCHANGED <<deployed, pod, token, account, session, lag, now>>

ReceiveAtWorkspace(q, t) == \E kind \in AtWorkspace : Receive(q, kind, t)
ReceiveAtIdentity(q, t) == \E kind \in AtIdentity : Receive(q, kind, t)

Finish(q, answer) == req' = [req EXCEPT ![q] = [@ EXCEPT !.at = "answered", !.answer = answer, !.seen = now]]

\* VerifyAccessToken: no leeway for the clock, neither way.
Accepts(t, keys) ==
  /\ token[t].key \in keys
  /\ token[t].iat <= now - lag /\ now - lag < Expiry(t)

\* VerifyAccessToken finds the claims, or the answer is "authentication required".
Decide(q, keys) ==
  /\ IF Accepts(req[q].token, keys)
       THEN req' = [req EXCEPT ![q].at = "check"]
       ELSE Finish(q, "Unauthenticated")
  /\ UNCHANGED <<deployed, pod, token, account, session, lag, now>>

\* The keys that a pod answers with: ErrUnavailable if none does.
PublicKeys(p) == Published(pod[p])

\* Bug: keys that cannot be fetched are taken for none.
VerifyTokenBug(q, p) ==
  /\ req[q].at = "verify" /\ req[q].kind \in AtWorkspace
  /\ Decide(q, IF Up(p) THEN PublicKeys(p) ELSE {})

VerifyToken(q, p) ==
  /\ req[q].at = "verify" /\ req[q].kind \in AtWorkspace /\ Up(p)
  /\ Decide(q, PublicKeys(p))

FetchFails(q) ==
  /\ req[q].at = "verify" /\ req[q].kind \in AtWorkspace
  /\ Finish(q, "Unavailable")
  /\ UNCHANGED <<deployed, pod, token, account, session, lag, now>>

\* The verifier of a pod has copied its keys when the pod started.  A pod that is
\* stopping takes no more requests: those it still answers it has authenticated.
VerifierKeys(p) == Published(pod[p])

Authenticate(q, p) ==
  /\ req[q].at = "verify" /\ req[q].kind \in AtIdentity /\ Up(p)
  /\ Decide(q, VerifierKeys(p))

------------------------------------------------------------------------------
(* What becomes of a request whose token is good.                          *)

Claimed(q) == token[req[q].token].session
Subject(q) == Owner[Claimed(q)]
ActiveSession(q) == session[Claimed(q)] = "active"

\* A service fails, before or after it has committed, or the five seconds are over.
Failure == {"deadline", "other"}

Code == [none |-> "OK", unauthenticated |-> "Unauthenticated", deadline |-> "DeadlineExceeded",
         limited |-> "ResourceExhausted", invalid |-> "InvalidArgument", verified |-> "FailedPrecondition",
         unverified |-> "PermissionDenied", other |-> "Unavailable"]

\* Each handler lets some errors of its service through; every other one is "unavailable".
Answer(e, known) == Code[IF e \in known THEN e ELSE "other"]

LogoutRPCError(e) == Answer(e, {"none", "unauthenticated", "deadline"})
VerificationCodeRPCError(e) == Answer(e, {"none", "unauthenticated", "verified", "limited", "deadline"})
VerifyEmailRPCError(e) == Answer(e, {"none", "unauthenticated", "invalid", "limited", "deadline"})
ReauthenticationRPCError(e) == Answer(e, {"none", "unauthenticated", "invalid", "limited", "deadline"})

\* SessionCheckService: the state of the session, or an error.
SessionCheck(q) == IF ActiveSession(q) THEN "none" ELSE "unauthenticated"

\* SessionCheckHandler at Identity, and what authn.CheckSession takes its code for.
SessionCheckCode(e) == Answer(e, {"none", "unauthenticated", "deadline"})
CheckSessionError(code) == CASE code = "OK" -> "none"
                             [] code = "Unauthenticated" -> "unauthenticated"
                             [] OTHER -> "other"

\* WorkspaceHandler.authenticate.
WorkspaceAnswer(e) == Answer(e, {"none", "unauthenticated", "unverified"})

\* Bug: the session as it was when the request came in decides.
CheckBug(q) ==
  /\ req[q].at = "check" /\ req[q].kind \in AtWorkspace /\ \E p \in Pod : Up(p)
  /\ Finish(q, IF req[q].before.verified THEN "OK" ELSE "PermissionDenied")
  /\ UNCHANGED <<deployed, pod, token, account, session, lag, now>>

\* The call of the Workspace API is answered by any pod.
CheckSession(q) ==
  /\ req[q].at = "check" /\ req[q].kind \in AtWorkspace /\ \E p \in Pod : Up(p)
  /\ \E e \in {SessionCheck(q)} \cup Failure :
       LET checked == CheckSessionError(SessionCheckCode(e)) IN
       Finish(q, WorkspaceAnswer(IF checked = "none" /\ account[Subject(q)] # "verified"
                                   THEN "unverified" ELSE checked))
  /\ UNCHANGED <<deployed, pod, token, account, session, lag, now>>

CheckFails(q) ==
  /\ req[q].at = "check" /\ req[q].kind \in AtWorkspace
  /\ Finish(q, WorkspaceAnswer("other"))
  /\ UNCHANGED <<deployed, pod, token, account, session, lag, now>>

AtService(q, kind) == req[q].at = "check" /\ req[q].kind = kind

\* revokeSessions: the statement that finds the session active ends it.
Logout(q) ==
  /\ AtService(q, "logout")
  /\ IF ActiveSession(q)
       THEN /\ session' = Ended({Claimed(q)})
            /\ \E e \in {"none"} \cup Failure : Finish(q, LogoutRPCError(e))
       ELSE Finish(q, LogoutRPCError("unauthenticated")) /\ UNCHANGED session
  /\ UNCHANGED <<deployed, pod, token, account, lag, now>>

LogoutAll(q) ==
  /\ AtService(q, "logout-all")
  /\ IF ActiveSession(q)
       THEN /\ session' = Ended(SessionsOf(Subject(q)))
            /\ \E e \in {"none"} \cup Failure : Finish(q, LogoutRPCError(e))
       ELSE Finish(q, LogoutRPCError("unauthenticated")) /\ UNCHANGED session
  /\ UNCHANGED <<deployed, pod, token, account, lag, now>>

\* The limit of the source is asked before the session is looked at.
RequestVerificationCode(q) ==
  /\ AtService(q, "verification-code")
  /\ \E e \in {"limited"} \cup Failure \cup
               (CASE ~ActiveSession(q) -> {"unauthenticated"}
                  [] ActiveSession(q) /\ account[Subject(q)] = "verified" -> {"verified"}
                  [] OTHER -> {"none"}) : Finish(q, VerificationCodeRPCError(e))
  /\ UNCHANGED <<deployed, pod, token, account, session, lag, now>>

\* A verified account is told so again, and a wrong code is counted.
VerifyEmail(q) ==
  /\ AtService(q, "verify-email")
  /\ \/ /\ ActiveSession(q) /\ account[Subject(q)] = "unverified"
        /\ account' = [account EXCEPT ![Subject(q)] = "verified"]
        /\ \E e \in {"none"} \cup Failure : Finish(q, VerifyEmailRPCError(e))
     \/ /\ \E e \in {"limited"} \cup Failure \cup
                     (CASE ~ActiveSession(q) -> {"unauthenticated"}
                        [] ActiveSession(q) /\ account[Subject(q)] = "verified" -> {"none", "invalid"}
                        [] OTHER -> {"invalid"}) : Finish(q, VerifyEmailRPCError(e))
        /\ UNCHANGED account
  /\ UNCHANGED <<deployed, pod, token, session, lag, now>>

\* With a password, a code or a provider: module Reauthentication has the window.
Reauthenticate(q) ==
  /\ AtService(q, "reauthenticate")
  /\ \E e \in {"limited"} \cup Failure \cup
               (IF ActiveSession(q) THEN {"none", "invalid"} ELSE {"unauthenticated"}) :
       Finish(q, ReauthenticationRPCError(e))
  /\ UNCHANGED <<deployed, pod, token, account, session, lag, now>>

\* The pod that works on the request crashes, or the connection to it breaks.
ConnectionLost(q) ==
  /\ req[q].at \in {"verify", "check"} /\ req[q].kind \in AtIdentity
  /\ Finish(q, "Unavailable")
  /\ UNCHANGED <<deployed, pod, token, account, session, lag, now>>

Tick ==
  /\ now < MaxTime
  /\ \A p \in Pod : pod[p].at = "leaving" => now < pod[p].until
  /\ now' = now + 1
  /\ UNCHANGED <<deployed, pod, token, account, session, req, lag>>

Rotation == PublishKey \/ SwitchKey \/ RecordLastUse \/ RetireKey
Rollout == \E p \in Pod : StartPod(p) \/ StopPod(p) \/ PodEnds(p)

Sessions ==
  \/ \E p \in Pod, t \in Token, s \in Session :
       \/ CreateAccount(p, t, s) \/ CreatePasswordSession(p, t, s) \/ CreateProviderSession(p, t, s)
       \/ RefreshSession(p, t, s)
       \/ \E a \in Account : ClaimUnverifiedAccount(p, t, s, a)
  \/ \E a \in Account : ResetPassword(a)
  \/ \E s \in Session : SessionEnds(s)

Verification(q) ==
  \/ \E t \in Token : ReceiveAtWorkspace(q, t) \/ ReceiveAtIdentity(q, t)
  \/ \E p \in Pod : VerifyToken(q, p) \/ Authenticate(q, p)
  \/ FetchFails(q) \/ ConnectionLost(q)

Service(q) ==
  \/ CheckSession(q) \/ CheckFails(q)
  \/ Logout(q) \/ LogoutAll(q) \/ RequestVerificationCode(q) \/ VerifyEmail(q) \/ Reauthenticate(q)

Next == Rollout \/ Rotation \/ Sessions \/ (\E q \in Request : Verification(q) \/ Service(q)) \/ Tick

Spec == Init /\ [][Next]_vars

------------------------------------------------------------------------------
Codes == {"OK", "Unauthenticated", "DeadlineExceeded", "ResourceExhausted", "InvalidArgument",
          "FailedPrecondition", "PermissionDenied", "Unavailable"}
AccountStates == {"free", "unverified", "verified", "retired"}
SessionStates == {"none", "active", "ended"}

TypeOK ==
  /\ config \in [active : Key, extra : Key \cup {NoKey}]
  /\ phase \in {"steady", "published", "switched", "recorded"} /\ lastUse \in 0..now
  /\ pod \in [Pod -> [at : {"down", "up", "leaving"}, active : Key, extra : Key \cup {NoKey}, until : Nat]]
  /\ token \in [Token -> [key : Key \cup {NoKey}, session : Session, iat : 0..now]]
  /\ account \in [Account -> AccountStates] /\ session \in [Session -> SessionStates]
  /\ req \in [Request -> [at : {"none", "verify", "check", "answered"}, kind : AtWorkspace \cup AtIdentity,
                          token : Token, answer : Codes \cup {"none"}, seen : 0..now,
                          before : [session : SessionStates, verified : BOOLEAN]]]
  /\ lag \in -Skew..Skew /\ now \in Nat

(* The parts of the inductive invariant.                                   *)

\* Each phase has its configuration.
ConfigFits ==
  /\ phase = "steady" => config.extra = NoKey
  /\ phase = "published" => config.extra = config.active + 1
  /\ phase \in {"switched", "recorded"} => config.extra = config.active - 1 /\ config.extra # NoKey

\* A pod that is meant to run has the configuration or the one before it.
PodsFit ==
  \A p \in Pod : Up(p) =>
    \/ Current(p)
    \/ phase = "steady" /\ pod[p].active = config.active
    \/ phase = "published" /\ pod[p].active = config.active /\ pod[p].extra = NoKey
    \/ phase = "switched" /\ pod[p].active = config.active - 1 /\ pod[p].extra = config.active

\* What may be signed with the key k until the time u.
KeyFits(k, u) ==
  \/ k = config.active
  \/ k = config.active - 1 /\ phase = "switched"
  \/ k = config.active - 1 /\ phase = "recorded" /\ u <= lastUse + DrainTime

\* What a pod that is stopping may still sign, it signs soon.
SignersFit ==
  \A p \in Pod : pod[p].at = "leaving" => pod[p].until \in now..(now + DrainTime) /\ KeyFits(pod[p].active, pod[p].until)

TokensFit ==
  \A t \in Token : Issued(t) =>
    /\ session[token[t].session] # "none"
    /\ now < Expiry(t) => KeyFits(token[t].key, token[t].iat)

RequestsFit ==
  \A q \in Request : req[q].at # "none" =>
    /\ Issued(req[q].token) /\ req[q].before.session # "none"
    /\ req[q].before.session = "ended" => session[Claimed(q)] = "ended"
    /\ req[q].before.verified => account[Subject(q)] = "verified"

(* KeysCoverTokens: whatever pod a verifier asks, before, during and after *)
(* the rollouts of a rotation, and whatever pod signed the token, it finds *)
(* the key of every token that has not expired.                            *)
KeysCoverTokens ==
  \A t \in Token, p \in Pod : Issued(t) /\ now < Expiry(t) /\ Up(p) => token[t].key \in Published(pod[p])

Answered(q, codes) == req[q].at = "answered" /\ req[q].answer \in codes
IssuedAt(q) == token[req[q].token].iat

(* AdmittedSessionsAreLive: what ended a session before a request began is *)
(* seen by that request, whatever its token says and whichever API it asks: *)
(* it is not admitted and learns nothing of the account.  What verified    *)
(* the email is seen, too.                                                 *)
AdmittedSessionsAreLive ==
  \A q \in Request :
    /\ Answered(q, {"OK", "PermissionDenied", "FailedPrecondition", "InvalidArgument"}) =>
         req[q].before.session = "active"
    /\ Answered(q, {"PermissionDenied"}) => ~req[q].before.verified

(* RefusedForAReason: a client is told to authenticate again only if its   *)
(* session has ended, its token has expired by the clock of the database   *)
(* or of the verifier, or it is too new for the verifier.  A rotation, a   *)
(* crash and a failing call never look so.                                 *)
RefusedForAReason ==
  \A q \in Request :
    Answered(q, {"Unauthenticated"}) =>
      \/ session[Claimed(q)] = "ended"
      \/ req[q].seen >= Expiry(req[q].token) \/ req[q].seen - lag >= Expiry(req[q].token)
      \/ req[q].seen - lag < IssuedAt(q)

IInv ==
  /\ TypeOK /\ ConfigFits /\ PodsFit /\ SignersFit /\ TokensFit /\ RequestsFit
  /\ AdmittedSessionsAreLive /\ RefusedForAReason
=============================================================================
