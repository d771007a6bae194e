------------------------- MODULE AccessTokensProofs -------------------------
(* Theorems about AccessTokens, for every value of its constants.           *)
EXTENDS AccessTokens, TLAPS

\* The parts of the inductive invariant that are about the request q.
Good(q) ==
  /\ req[q].at # "none" =>
       /\ Issued(req[q].token) /\ req[q].before.session # "none"
       /\ req[q].before.session = "ended" => session[Claimed(q)] = "ended"
       /\ req[q].before.verified => account[Subject(q)] = "verified"
  /\ Answered(q, {"OK", "PermissionDenied", "FailedPrecondition", "InvalidArgument"}) =>
       req[q].before.session = "active"
  /\ Answered(q, {"PermissionDenied"}) => ~req[q].before.verified
  /\ Answered(q, {"Unauthenticated"}) =>
       \/ session[Claimed(q)] = "ended"
       \/ req[q].seen >= Expiry(req[q].token) \/ req[q].seen - lag >= Expiry(req[q].token)
       \/ req[q].seen - lag < IssuedAt(q)

KeysFit == ConfigFits /\ PodsFit /\ SignersFit

\* What no step takes back: a session's end, an email's verification, and the
\* token that a request has presented.
Monotone ==
  /\ \A s \in Session : /\ session[s] # "none" => session'[s] # "none"
                        /\ session[s] = "ended" => session'[s] = "ended"
  /\ \A a \in Account : account[a] = "verified" => account'[a] = "verified"
  /\ \A q \in Request : req[q].at # "none" => token'[req[q].token] = token[req[q].token]

LEMMA InvParts == IInv <=> TypeOK /\ KeysFit /\ TokensFit /\ \A q \in Request : Good(q)
BY DEF IInv, KeysFit, Good, RequestsFit, AdmittedSessionsAreLive, RefusedForAReason

LEMMA InitInv == Init => IInv
<1> SUFFICES ASSUME Init PROVE IInv
  OBVIOUS
<1>1. TypeOK
  BY NumbersAssumption DEF Init, TypeOK, Key, NoKey, Down, NoToken, NoRequest, AtWorkspace,
     AtIdentity, AccountStates, SessionStates, Codes
<1>2. KeysFit
  BY DEF Init, KeysFit, ConfigFits, PodsFit, SignersFit, Up, Down, Key, NoKey
<1>3. TokensFit
  BY DEF Init, TokensFit, Issued, NoToken
<1>4. \A q \in Request : Good(q)
  BY DEF Init, Good, NoRequest, Answered
<1> QED BY <1>1, <1>2, <1>3, <1>4, InvParts

-----------------------------------------------------------------------------
(* Types.                                                                    *)

LEMMA TypesRollout == TypeOK /\ Rollout => TypeOK'
<1> SUFFICES ASSUME TypeOK, NEW p \in Pod, StartPod(p) \/ StopPod(p) \/ PodEnds(p) PROVE TypeOK'
  BY DEF Rollout
<1> DEFINE P == [at : {"down", "up", "leaving"}, active : Key, extra : Key \cup {NoKey}, until : Nat]
<1>1. pod \in [Pod -> P]
  BY DEF TypeOK
<1>2. ASSUME NEW v \in P, pod' = [pod EXCEPT ![p] = v] PROVE pod' \in [Pod -> P]
  BY <1>1, <1>2
<1>3. CASE StartPod(p)
  <2>1. [at |-> "up", active |-> config.active, extra |-> config.extra, until |-> 0] \in P
    BY DEF TypeOK
  <2> QED BY <1>3, <2>1, <1>2 DEF TypeOK, StartPod, deployed, others
<1>4. CASE StopPod(p)
  <2> now + DrainTime \in Nat
    BY NumbersAssumption DEF TypeOK
  <2>1. [pod[p] EXCEPT !.at = "leaving", !.until = now + DrainTime] \in P
    BY <1>1
  <2>2. pod' \in [Pod -> P]
    BY <1>4, <2>1, <1>1 DEF StopPod
  <2> QED BY <1>4, <2>2 DEF TypeOK, StopPod, deployed, others
<1>5. CASE PodEnds(p)
  <2>1. Down \in P
    BY NumbersAssumption DEF Down, Key
  <2> QED BY <1>5, <2>1, <1>2 DEF TypeOK, PodEnds, deployed, others
<1> QED BY <1>3, <1>4, <1>5

LEMMA TypesRotation == TypeOK /\ ConfigFits /\ Rotation => TypeOK'
<1> SUFFICES ASSUME TypeOK, ConfigFits, Rotation PROVE TypeOK'
  OBVIOUS
<1>1. CASE PublishKey
  BY <1>1, NumbersAssumption DEF TypeOK, PublishKey, others, Key, NoKey
<1>2. CASE SwitchKey  \* the key that was published is one
  BY <1>2, NumbersAssumption DEF TypeOK, ConfigFits, SwitchKey, others, Key, NoKey
<1>3. CASE RecordLastUse
  BY <1>3 DEF TypeOK, RecordLastUse, others
<1>4. CASE RetireKey
  BY <1>4 DEF TypeOK, RetireKey, others, Key, NoKey
<1> QED BY <1>1, <1>2, <1>3, <1>4 DEF Rotation

LEMMA SignTypes ==
  ASSUME TypeOK, NEW p \in Pod, NEW t \in Token, NEW s \in Session, Sign(p, t, s), now' = now
  PROVE  /\ token' \in [Token -> [key : Key \cup {NoKey}, session : Session, iat : 0..now]]
         /\ token'[t] = [key |-> pod[p].active, session |-> s, iat |-> now]
         /\ \A u \in Token \ {t} : token'[u] = token[u]
BY DEF TypeOK, Sign

LEMMA EndedTypes ==
  ASSUME TypeOK, NEW S
  PROVE  /\ Ended(S) \in [Session -> SessionStates]
         /\ \A s \in Session : /\ session[s] # "none" => Ended(S)[s] # "none"
                               /\ session[s] = "ended" => Ended(S)[s] = "ended"
BY DEF TypeOK, Ended, SessionStates

-----------------------------------------------------------------------------
(* What a step of Sessions does: it takes nothing back, and a token that it *)
(* signs is one of an active session and of a pod that runs.                *)

Signed(t, p, s) ==
  /\ Runs(p) /\ session'[s] # "none"
  /\ token'[t] = [key |-> pod[p].active, session |-> s, iat |-> now]

SessionStep ==
  /\ TypeOK' /\ Monotone /\ UNCHANGED <<deployed, pod, req, lag, now>>
  /\ \A t \in Token : token'[t] = token[t] \/ \E p \in Pod, s \in Session : Signed(t, p, s)

LEMMA IssueSteps ==
  ASSUME IInv, NEW p \in Pod, NEW t \in Token, NEW s \in Session, Issue(p, t, s),
         UNCHANGED <<deployed, pod, req, lag, now>>,
         account' \in [Account -> AccountStates],
         \A a \in Account : account[a] = "verified" => account'[a] = "verified",
         NEW S, session' = [Ended(S) EXCEPT ![s] = "active"]
  PROVE  SessionStep
<1> TypeOK /\ \A q \in Request : Good(q)
  BY InvParts
<1>1. /\ token' \in [Token -> [key : Key \cup {NoKey}, session : Session, iat : 0..now]]
      /\ token'[t] = [key |-> pod[p].active, session |-> s, iat |-> now]
      /\ \A u \in Token \ {t} : token'[u] = token[u]
  BY SignTypes DEF Issue
<1>2. session' \in [Session -> SessionStates] /\ session'[s] = "active"
      /\ \A r \in Session \ {s} : session'[r] = Ended(S)[r]
  BY EndedTypes DEF SessionStates
<1>3. TypeOK'
  BY <1>1, <1>2 DEF TypeOK, deployed
<1>4. \A q \in Request : req[q].at # "none" => token'[req[q].token] = token[req[q].token]
  BY <1>1 DEF Good, Issue, TypeOK
<1>5. Monotone
  BY <1>2, <1>4, EndedTypes DEF Monotone, Issue
<1>6. Signed(t, p, s)
  BY <1>1, <1>2 DEF Signed, Issue
<1> QED BY <1>1, <1>3, <1>5, <1>6 DEF SessionStep

LEMMA SessionSteps == IInv /\ Sessions => SessionStep
<1> SUFFICES ASSUME IInv, Sessions PROVE SessionStep
  OBVIOUS
<1> TypeOK /\ \A q \in Request : Good(q)
  BY InvParts
<1>0. Ended({}) = session
  BY DEF Ended, TypeOK
<1>1. ASSUME NEW p \in Pod, NEW t \in Token, NEW s \in Session, CreateAccount(p, t, s)
      PROVE  SessionStep
  <2>1. account' \in [Account -> AccountStates]
        /\ \A a \in Account : account[a] = "verified" => account'[a] = "verified"
    BY <1>1, OwnerAssumption DEF CreateAccount, TypeOK, AccountStates
  <2> QED BY <1>0, <1>1, <2>1, IssueSteps DEF CreateAccount
<1>2. ASSUME NEW p \in Pod, NEW t \in Token, NEW s \in Session, CreatePasswordSession(p, t, s)
      PROVE  SessionStep
  <2>1. account' \in [Account -> AccountStates]
    BY <1>2 DEF CreatePasswordSession, TypeOK
  <2> QED BY <1>0, <1>2, <2>1, IssueSteps DEF CreatePasswordSession
<1>3. ASSUME NEW p \in Pod, NEW t \in Token, NEW s \in Session, CreateProviderSession(p, t, s)
      PROVE  SessionStep
  <2>1. account' \in [Account -> AccountStates]
        /\ \A a \in Account : account[a] = "verified" => account'[a] = "verified"
    <3>1. CASE UNCHANGED account
      BY <3>1 DEF TypeOK
    <3>2. ASSUME NEW e \in {"unverified", "verified"}, account[Owner[s]] = "free",
                 account' = [account EXCEPT ![Owner[s]] = e]
          PROVE  /\ account' \in [Account -> AccountStates]
                 /\ \A a \in Account : account[a] = "verified" => account'[a] = "verified"
      BY <3>2, OwnerAssumption DEF TypeOK, AccountStates
    <3> QED BY <1>3, <3>1, <3>2 DEF CreateProviderSession
  <2> QED BY <1>0, <1>3, <2>1, IssueSteps DEF CreateProviderSession
<1>4. ASSUME NEW p \in Pod, NEW t \in Token, NEW s \in Session, NEW a \in Account,
             ClaimUnverifiedAccount(p, t, s, a)
      PROVE  SessionStep
  <2>1. account' \in [Account -> AccountStates]
        /\ \A b \in Account : account[b] = "verified" => account'[b] = "verified"
    BY <1>4, OwnerAssumption DEF ClaimUnverifiedAccount, TypeOK, AccountStates
  <2> QED BY <1>4, <2>1, IssueSteps DEF ClaimUnverifiedAccount
<1>5. ASSUME NEW p \in Pod, NEW t \in Token, NEW s \in Session, RefreshSession(p, t, s)
      PROVE  SessionStep
  <2>1. /\ token' \in [Token -> [key : Key \cup {NoKey}, session : Session, iat : 0..now]]
        /\ token'[t] = [key |-> pod[p].active, session |-> s, iat |-> now]
        /\ \A u \in Token \ {t} : token'[u] = token[u]
    BY <1>5, SignTypes DEF RefreshSession
  <2>2. TypeOK'
    BY <1>5, <2>1 DEF TypeOK, RefreshSession, deployed
  <2>3. Monotone
    BY <1>5, <2>1 DEF Monotone, RefreshSession, Good, TypeOK
  <2>4. Signed(t, p, s)
    BY <1>5, <2>1 DEF Signed, RefreshSession
  <2> QED BY <1>5, <2>1, <2>2, <2>3, <2>4 DEF SessionStep, RefreshSession
<1>6. ASSUME NEW S, session' = Ended(S), UNCHANGED <<deployed, pod, token, account, req, lag, now>>
      PROVE  SessionStep
  <2>1. TypeOK'
    BY <1>6, EndedTypes DEF TypeOK, deployed
  <2>2. Monotone
    BY <1>6, EndedTypes DEF Monotone
  <2> QED BY <1>6, <2>1, <2>2 DEF SessionStep
<1>7. ASSUME NEW a \in Account, ResetPassword(a) PROVE SessionStep
  BY <1>6, <1>7 DEF ResetPassword
<1>8. ASSUME NEW s \in Session, SessionEnds(s) PROVE SessionStep
  BY <1>6, <1>8 DEF SessionEnds
<1> QED BY <1>1, <1>2, <1>3, <1>4, <1>5, <1>7, <1>8 DEF Sessions

-----------------------------------------------------------------------------
(* Keys.                                                                     *)

LEMMA KeysUnchanged ==
  ASSUME UNCHANGED <<deployed, pod, now>>, KeysFit
  PROVE  KeysFit'
BY DEF KeysFit, ConfigFits, PodsFit, SignersFit, deployed, Up, Current, KeyFits

LEMMA KeysRollout == IInv /\ Rollout => KeysFit' /\ TokensFit'
<1> SUFFICES ASSUME IInv, NEW p \in Pod, StartPod(p) \/ StopPod(p) \/ PodEnds(p)
             PROVE  KeysFit' /\ TokensFit'
  BY DEF Rollout
<1> TypeOK /\ KeysFit /\ TokensFit
  BY InvParts
<1>1. UNCHANGED <<deployed, others>>
  BY DEF StartPod, StopPod, PodEnds
<1>2. TokensFit' /\ ConfigFits'
  BY <1>1 DEF KeysFit, TokensFit, ConfigFits, deployed, others, Issued, Expiry, KeyFits
<1>3. \A o \in Pod \ {p} : pod'[o] = pod[o]
  BY DEF StartPod, StopPod, PodEnds, TypeOK
<1>4. PodsFit'
  <2>1. ASSUME Up(p)' PROVE Current(p)'
    <3>1. CASE StartPod(p)
      BY <1>1, <3>1 DEF StartPod, Current, deployed, TypeOK
    <3>2. CASE StopPod(p)
      <4>1. pod'[p].at = "leaving"
        BY <3>2 DEF StopPod, TypeOK
      <4> QED BY <2>1, <4>1 DEF Up
    <3>3. CASE PodEnds(p)
      BY <2>1, <3>3 DEF PodEnds, Down, Up, TypeOK
    <3> QED BY <3>1, <3>2, <3>3
  <2> QED BY <1>1, <1>3, <2>1 DEF KeysFit, PodsFit, Up, Current, deployed
<1>5. SignersFit'
  <2> SUFFICES ASSUME NEW o \in Pod, pod'[o].at = "leaving"
               PROVE  (pod[o].until \in now..(now + DrainTime) /\ KeyFits(pod[o].active, pod[o].until))'
    BY DEF SignersFit
  <2>1. CASE o # p
    BY <1>1, <1>3, <2>1 DEF KeysFit, SignersFit, KeyFits, deployed, others
  <2>2. CASE o = p
    <3>1. StopPod(p)
      BY <2>2 DEF StartPod, PodEnds, Down, TypeOK
    <3>2. pod'[p].until = now + DrainTime /\ pod'[p].active = pod[p].active
      BY <3>1 DEF StopPod, TypeOK
    <3>3. KeyFits(pod[p].active, now + DrainTime)
      BY <3>1 DEF StopPod, KeysFit, PodsFit, Current, KeyFits
    <3> QED BY <1>1, <2>2, <3>2, <3>3, NumbersAssumption DEF KeyFits, deployed, others, TypeOK
  <2> QED BY <2>1, <2>2
<1> QED BY <1>2, <1>4, <1>5 DEF KeysFit

LEMMA KeysRotation == IInv /\ Rotation => KeysFit' /\ TokensFit'
<1> SUFFICES ASSUME IInv, Rotation PROVE KeysFit' /\ TokensFit'
  OBVIOUS
<1> TypeOK /\ ConfigFits /\ PodsFit /\ SignersFit /\ TokensFit
  BY InvParts DEF KeysFit
<1> USE DEF KeysFit, ConfigFits, PodsFit, SignersFit, TokensFit, KeyFits, Up, Current, Issued, Expiry, others
<1>1. CASE PublishKey
  <2>1. ConfigFits' /\ PodsFit'
    BY <1>1 DEF PublishKey, RolledOut
  <2>2. SignersFit' /\ TokensFit'
    BY <1>1 DEF PublishKey
  <2> QED BY <2>1, <2>2
<1>2. CASE SwitchKey
  <2>0. config'.active = config.active + 1 /\ config'.extra = config.active /\ phase' = "switched"
    BY <1>2 DEF SwitchKey
  <2>1. ConfigFits' /\ PodsFit'
    BY <1>2, <2>0 DEF SwitchKey, RolledOut, TypeOK, Key, NoKey
  <2>2. \A k \in Int, u \in Int : KeyFits(k, u) => KeyFits(k, u)'
    BY <1>2, <2>0 DEF SwitchKey, TypeOK, Key
  <2>3. SignersFit' /\ TokensFit'
    BY <1>2, <2>2 DEF SwitchKey, TypeOK, Key, NoKey
  <2> QED BY <2>1, <2>3
<1>3. CASE RecordLastUse
  <2>1. ConfigFits' /\ PodsFit'
    BY <1>3 DEF RecordLastUse, RolledOut
  <2>2. SignersFit'
    BY <1>3 DEF RecordLastUse, TypeOK
  <2>3. TokensFit'
    BY <1>3, NumbersAssumption DEF RecordLastUse, TypeOK
  <2> QED BY <2>1, <2>2, <2>3
<1>4. CASE RetireKey
  <2>1. ConfigFits' /\ PodsFit'
    BY <1>4 DEF RetireKey
  <2>2. SignersFit'
    <3> SUFFICES ASSUME NEW p \in Pod, pod[p].at = "leaving" PROVE pod[p].active = config.active
      BY <1>4 DEF RetireKey, TypeOK
    <3>1. pod[p].until \in Nat /\ now <= pod[p].until /\ KeyFits(pod[p].active, pod[p].until)
      BY DEF TypeOK
    <3>2. ~(pod[p].until <= lastUse + DrainTime)
      <4>1. lastUse \in Nat /\ now \in Nat /\ now >= lastUse + Delay
        BY <1>4, NumbersAssumption DEF RetireKey, TypeOK
      <4>2. Lifetime >= 1 /\ DrainTime \in Nat /\ Delay \in Nat /\ Lifetime \in Nat
        BY NumbersAssumption
      <4> QED BY <3>1, <4>1, <4>2, DelayAssumption
    <3> QED BY <1>4, <3>1, <3>2 DEF RetireKey
  <2>3. TokensFit'
    BY <1>4, NumbersAssumption, DelayAssumption DEF RetireKey, TypeOK
  <2> QED BY <2>1, <2>2, <2>3
<1> QED BY <1>1, <1>2, <1>3, <1>4 DEF Rotation

LEMMA KeysSessions == IInv /\ SessionStep => KeysFit' /\ TokensFit'
<1> SUFFICES ASSUME IInv, SessionStep PROVE KeysFit' /\ TokensFit'
  OBVIOUS
<1> TypeOK /\ KeysFit /\ TokensFit /\ UNCHANGED <<deployed, pod, now>> /\ Monotone
  BY InvParts DEF SessionStep
<1>1. KeysFit'
  BY KeysUnchanged
<1>2. \A k, u : KeyFits(k, u)' <=> KeyFits(k, u)
  BY DEF KeyFits, deployed
<1>3. ASSUME NEW t \in Token, Issued(t)', token'[t] = token[t]
      PROVE  session'[token'[t].session] # "none" /\ (now' < Expiry(t)' => KeyFits(token[t].key, token[t].iat)')
  BY <1>2, <1>3 DEF TokensFit, Issued, Expiry, Monotone, TypeOK
<1>4. ASSUME NEW t \in Token, NEW p \in Pod, NEW s \in Session, Signed(t, p, s)
      PROVE  session'[token'[t].session] # "none" /\ (now' < Expiry(t)' => KeyFits(token[t].key, token[t].iat)')
  <2>1. KeyFits(pod[p].active, now)
    <3>1. CASE Up(p)
      BY <3>1 DEF KeysFit, PodsFit, Current, KeyFits
    <3>2. CASE pod[p].at = "leaving"
      <4>1. pod[p].until >= now /\ KeyFits(pod[p].active, pod[p].until)
        BY <3>2, NumbersAssumption DEF KeysFit, SignersFit, TypeOK
      <4> QED BY <4>1, NumbersAssumption DEF KeyFits, TypeOK
    <3> QED BY <1>4, <3>1, <3>2 DEF Signed, Runs, Up
  <2>2. token'[t].session = s /\ token'[t].key = pod[p].active /\ token'[t].iat = now
    BY <1>4 DEF Signed
  <2>3. KeyFits(token[t].key, token[t].iat)'
    BY <1>2, <2>1, <2>2
  <2> QED BY <1>4, <2>2, <2>3 DEF Signed
<1>5. TokensFit'
  BY <1>3, <1>4 DEF SessionStep, TokensFit
<1> QED BY <1>1, <1>5

LEMMA KeysTick == IInv /\ Tick => KeysFit' /\ TokensFit'
<1> SUFFICES ASSUME IInv, Tick PROVE KeysFit' /\ TokensFit'
  OBVIOUS
<1> TypeOK /\ KeysFit /\ TokensFit
  BY InvParts
<1>1. ConfigFits' /\ PodsFit' /\ \A k, u : KeyFits(k, u)' <=> KeyFits(k, u)
  BY DEF Tick, KeysFit, ConfigFits, PodsFit, deployed, KeyFits, Up, Current
<1>2. SignersFit'
  BY <1>1, NumbersAssumption DEF Tick, KeysFit, SignersFit, TypeOK, deployed, KeyFits
<1>3. TokensFit'
  BY <1>1, NumbersAssumption DEF Tick, TokensFit, TypeOK, deployed, KeyFits, Issued, Expiry
<1> QED BY <1>1, <1>2, <1>3 DEF KeysFit

LEMMA TypesTick == TypeOK /\ Tick => TypeOK'
<1> SUFFICES ASSUME TypeOK, Tick PROVE TypeOK'
  OBVIOUS
<1>1. now' \in Nat /\ 0..now \subseteq 0..now'
  BY DEF TypeOK, Tick
<1> QED BY <1>1 DEF TypeOK, Tick, deployed

\* Whatever pod is asked.
LEMMA Covers == IInv => KeysCoverTokens
<1> SUFFICES ASSUME IInv, NEW t \in Token, NEW p \in Pod, Issued(t), now < Expiry(t), Up(p)
             PROVE  token[t].key \in Published(pod[p])
  BY DEF KeysCoverTokens
<1>1. KeyFits(token[t].key, token[t].iat) /\ token[t].key # NoKey
  BY InvParts DEF TokensFit, Issued
<1>2. TypeOK /\ ConfigFits /\ PodsFit
  BY InvParts DEF KeysFit
<1>3. pod[p].active = token[t].key \/ pod[p].extra = token[t].key
  BY <1>1, <1>2 DEF ConfigFits, PodsFit, KeyFits, Current, TypeOK, Key, NoKey
<1> QED BY <1>1, <1>3 DEF Published

-----------------------------------------------------------------------------
(* Requests.                                                                 *)

Errors == {"none", "unauthenticated", "deadline", "limited", "invalid", "verified", "unverified", "other"}

\* What an answer tells of the error behind it.
LEMMA Answers ==
  ASSUME NEW e \in Errors, NEW known
  PROVE  /\ Answer(e, known) \in Codes
         /\ Answer(e, known) = "Unauthenticated" => e = "unauthenticated"
         /\ Answer(e, known) \in {"OK", "PermissionDenied", "FailedPrecondition", "InvalidArgument"} =>
              e \in {"none", "unverified", "verified", "invalid"}
         /\ Answer(e, known) = "PermissionDenied" => e = "unverified"
BY DEF Answer, Code, Codes, Errors

LEMMA TypesRequest ==
  ASSUME TypeOK, NEW q \in Request, NEW a \in Codes, Finish(q, a), now' = now
  PROVE  /\ req' \in [Request -> [at : {"none", "verify", "check", "answered"}, kind : AtWorkspace \cup AtIdentity,
                          token : Token, answer : Codes \cup {"none"}, seen : 0..now,
                          before : [session : SessionStates, verified : BOOLEAN]]]
         /\ req'[q] = [req[q] EXCEPT !.at = "answered", !.answer = a, !.seen = now]
         /\ \A r \in Request \ {q} : req'[r] = req[r]
<1> DEFINE R == [at : {"none", "verify", "check", "answered"}, kind : AtWorkspace \cup AtIdentity,
                 token : Token, answer : Codes \cup {"none"}, seen : 0..now,
                 before : [session : SessionStates, verified : BOOLEAN]]
           v == [req[q] EXCEPT !.at = "answered", !.answer = a, !.seen = now]
<1>1. req \in [Request -> R] /\ now \in 0..now
  BY DEF TypeOK
<1>2. v \in R
  BY <1>1
<1>3. req' = [req EXCEPT ![q] = v]
  BY <1>1 DEF Finish
<1> QED BY <1>1, <1>2, <1>3

\* A request that the step does not touch.
LEMMA Untouched ==
  ASSUME IInv, TypeOK', Monotone, lag' = lag, NEW r \in Request, req'[r] = req[r]
  PROVE  Good(r)'
<1> Good(r) /\ TypeOK
  BY InvParts
<1>1. CASE req[r].at = "none"
  BY <1>1 DEF Good, Answered
<1>2. CASE req[r].at # "none"
  <2>1. token'[req[r].token] = token[req[r].token] /\ req[r].token \in Token
        /\ token[req[r].token].session \in Session
        /\ Owner[token[req[r].token].session] \in Account
    BY <1>2, OwnerAssumption DEF Monotone, TypeOK
  <2>2. Claimed(r)' = Claimed(r) /\ Subject(r)' = Subject(r) /\ IssuedAt(r)' = IssuedAt(r)
        /\ Issued(req[r].token)' = Issued(req[r].token) /\ Expiry(req[r].token)' = Expiry(req[r].token)
    BY <2>1 DEF Claimed, Subject, IssuedAt, Issued, Expiry
  <2>3. /\ session[Claimed(r)] = "ended" => session'[Claimed(r)] = "ended"
        /\ account[Subject(r)] = "verified" => account'[Subject(r)] = "verified"
    BY <2>1 DEF Monotone, Claimed, Subject
  <2> QED BY <1>2, <2>2, <2>3 DEF Good, Answered
<1> QED BY <1>1, <1>2

\* The end of a request, with an answer that the state allows.
Allowed(q, a) ==
  /\ a \in Codes
  /\ a \in {"OK", "PermissionDenied", "FailedPrecondition", "InvalidArgument"} => ActiveSession(q)
  /\ a = "PermissionDenied" => account[Subject(q)] # "verified"
  /\ a = "Unauthenticated" =>
       \/ session[Claimed(q)] = "ended"
       \/ now >= Expiry(req[q].token) \/ now - lag >= Expiry(req[q].token) \/ now - lag < IssuedAt(q)

Settled == TypeOK' /\ Monotone /\ UNCHANGED <<deployed, pod, token, lag, now>> /\ \A q \in Request : Good(q)'

LEMMA Finishes ==
  ASSUME IInv, NEW q \in Request, req[q].at # "none", NEW a, Allowed(q, a), Finish(q, a),
         Monotone, UNCHANGED <<deployed, pod, token, lag, now>>,
         account' \in [Account -> AccountStates], session' \in [Session -> SessionStates]
  PROVE  Settled
<1> TypeOK /\ Good(q)
  BY InvParts
<1>1. TypeOK'
  BY TypesRequest DEF Allowed, TypeOK, deployed
<1>2. /\ req'[q] = [req[q] EXCEPT !.at = "answered", !.answer = a, !.seen = now]
      /\ \A r \in Request \ {q} : req'[r] = req[r]
  BY TypesRequest DEF Allowed
<1>3. /\ req'[q].at = "answered" /\ req'[q].answer = a /\ req'[q].seen = now
      /\ req'[q].token = req[q].token /\ req'[q].before = req[q].before
  BY <1>2 DEF TypeOK
<1>4. Claimed(q)' = Claimed(q) /\ Subject(q)' = Subject(q) /\ IssuedAt(q)' = IssuedAt(q)
      /\ Issued(req[q].token)' = Issued(req[q].token) /\ Expiry(req[q].token)' = Expiry(req[q].token)
  BY <1>3 DEF Claimed, Subject, IssuedAt, Issued, Expiry
<1>5. Claimed(q) \in Session /\ Subject(q) \in Account
  BY OwnerAssumption DEF Claimed, Subject, TypeOK
<1>6. /\ session[Claimed(q)] = "ended" => session'[Claimed(q)] = "ended"
      /\ account[Subject(q)] = "verified" => account'[Subject(q)] = "verified"
  BY <1>5 DEF Monotone
<1>7. req[q].before.session \in SessionStates /\ req[q].before.verified \in BOOLEAN
  BY DEF TypeOK
<1>8. a \in {"OK", "PermissionDenied", "FailedPrecondition", "InvalidArgument"} => req[q].before.session = "active"
  BY <1>7 DEF Good, Allowed, ActiveSession, SessionStates
<1>9. Good(q)'
  <2>1. /\ Issued(req[q].token) /\ req[q].before.session # "none"
        /\ req[q].before.session = "ended" => session'[Claimed(q)] = "ended"
        /\ req[q].before.verified => account'[Subject(q)] = "verified"
    BY <1>6 DEF Good
  <2>2. a = "PermissionDenied" => ~req[q].before.verified
    BY <1>7 DEF Good, Allowed
  <2>3. a = "Unauthenticated" =>
          \/ session'[Claimed(q)] = "ended"
          \/ now >= Expiry(req[q].token) \/ now - lag >= Expiry(req[q].token) \/ now - lag < IssuedAt(q)
    BY <1>6 DEF Allowed
  <2> QED BY <1>3, <1>4, <1>8, <2>1, <2>2, <2>3 DEF Good, Answered
<1>10. \A r \in Request \ {q} : Good(r)'
  BY <1>1, <1>2, Untouched
<1> QED BY <1>1, <1>9, <1>10 DEF Settled

LEMMA Still == UNCHANGED <<token, account, session>> => Monotone
BY DEF Monotone

LEMMA ReceiveSettles ==
  ASSUME IInv, NEW q \in Request, NEW t \in Token, NEW kind \in AtWorkspace \cup AtIdentity, Receive(q, kind, t)
  PROVE  Settled
<1> TypeOK /\ TokensFit /\ UNCHANGED <<deployed, pod, token, account, session, lag, now>>
  BY InvParts DEF Receive
<1> DEFINE R == [at : {"none", "verify", "check", "answered"}, kind : AtWorkspace \cup AtIdentity,
                 token : Token, answer : Codes \cup {"none"}, seen : 0..now,
                 before : [session : SessionStates, verified : BOOLEAN]]
           v == [at |-> "verify", kind |-> kind, token |-> t, answer |-> "none", seen |-> 0, before |-> State(t)]
<1>1. req \in [Request -> R] /\ 0 \in 0..now
  BY DEF TypeOK
<1>2. token[t].session \in Session /\ Owner[token[t].session] \in Account
  BY OwnerAssumption DEF TypeOK
<1>3. State(t) \in [session : SessionStates, verified : BOOLEAN]
  BY <1>2 DEF State, TypeOK
<1>4. v \in R
  BY <1>1, <1>3
<1>5. req' = [req EXCEPT ![q] = v]
  BY DEF Receive
<1>6. TypeOK'
  BY <1>1, <1>4, <1>5 DEF TypeOK, deployed
<1>7. Good(q)'
  <2>1. req'[q].at = "verify" /\ req'[q].token = t /\ req'[q].before = State(t)
    BY <1>1, <1>5
  <2>2. Issued(t) /\ session[token[t].session] # "none"
    BY DEF Receive, TokensFit
  <2>3. State(t).session = session[token[t].session] /\ State(t).verified = (account[Owner[token[t].session]] = "verified")
    BY DEF State
  <2> QED BY <2>1, <2>2, <2>3 DEF Good, Claimed, Subject, Issued, Answered
<1>8. Monotone
  BY Still
<1>9. \A r \in Request \ {q} : Good(r)'
  BY <1>1, <1>5, <1>6, <1>8, Untouched
<1> QED BY <1>6, <1>7, <1>8, <1>9 DEF Settled

\* Keys that cover the token refuse it only for its times.
LEMMA DecideSettles ==
  ASSUME IInv, NEW q \in Request, req[q].at = "verify", NEW p \in Pod, Up(p), Decide(q, Published(pod[p]))
  PROVE  Settled
<1> TypeOK /\ Good(q) /\ KeysCoverTokens /\ UNCHANGED <<deployed, pod, token, account, session, lag, now>>
  BY InvParts, Covers DEF Decide
<1> USE Still
<1>1. CASE Accepts(req[q].token, Published(pod[p]))
  <2> DEFINE R == [at : {"none", "verify", "check", "answered"}, kind : AtWorkspace \cup AtIdentity,
                   token : Token, answer : Codes \cup {"none"}, seen : 0..now,
                   before : [session : SessionStates, verified : BOOLEAN]]
  <2>1. req \in [Request -> R] /\ [req[q] EXCEPT !.at = "check"] \in R
    BY DEF TypeOK
  <2>2. req' = [req EXCEPT ![q] = [req[q] EXCEPT !.at = "check"]]
    BY <1>1, <2>1 DEF Decide
  <2>3. TypeOK'
    BY <2>1, <2>2 DEF TypeOK, deployed
  <2>4. Good(q)'
    BY <2>1, <2>2 DEF Good, Claimed, Subject, Issued, Answered
  <2>5. \A r \in Request \ {q} : Good(r)'
    BY <2>1, <2>2, <2>3, Untouched
  <2> QED BY <2>3, <2>4, <2>5 DEF Settled
<1>2. CASE ~Accepts(req[q].token, Published(pod[p]))
  <2>1. req[q].token \in Token /\ Issued(req[q].token)
    BY DEF Good, TypeOK
  <2>2. now < Expiry(req[q].token) => token[req[q].token].key \in Published(pod[p])
    BY <2>1 DEF KeysCoverTokens
  <2>3. token[req[q].token].iat \in Int /\ lag \in Int /\ now \in Int /\ Expiry(req[q].token) \in Int
    BY <2>1, NumbersAssumption DEF TypeOK, Expiry
  <2>4. now >= Expiry(req[q].token) \/ now - lag >= Expiry(req[q].token) \/ now - lag < IssuedAt(q)
    BY <1>2, <2>2, <2>3 DEF Accepts, IssuedAt
  <2>5. Allowed(q, "Unauthenticated")
    BY <2>4 DEF Allowed, Codes
  <2> QED BY <1>2, <2>5, Finishes DEF Decide, TypeOK
<1> QED BY <1>1, <1>2

LEMMA Unavailable ==
  ASSUME NEW q PROVE Allowed(q, "Unavailable") /\ Answer("other", {}) = "Unavailable"
BY DEF Allowed, Codes, Answer, Code

LEMMA VerificationSettles ==
  ASSUME IInv, NEW q \in Request, Verification(q) PROVE Settled
<1> TypeOK
  BY InvParts
<1>1. ASSUME NEW t \in Token, ReceiveAtWorkspace(q, t) \/ ReceiveAtIdentity(q, t) PROVE Settled
  BY <1>1, ReceiveSettles DEF ReceiveAtWorkspace, ReceiveAtIdentity
<1>2. ASSUME NEW p \in Pod, VerifyToken(q, p) \/ Authenticate(q, p) PROVE Settled
  BY <1>2, DecideSettles DEF VerifyToken, Authenticate, PublicKeys, VerifierKeys
<1>3. CASE FetchFails(q) \/ ConnectionLost(q)
  BY <1>3, Finishes, Unavailable, Still DEF FetchFails, ConnectionLost, TypeOK
<1> QED BY <1>1, <1>2, <1>3 DEF Verification

\* A service has answered e, and the session was active, or is the reason.
LEMMA ErrorsAllowed ==
  ASSUME IInv, NEW q \in Request, NEW e \in Errors, NEW known,
         e \in {"none", "unverified", "verified", "invalid"} => ActiveSession(q),
         e = "unverified" => account[Subject(q)] # "verified",
         req[q].at # "none",
         e = "unauthenticated" => ~ActiveSession(q)
  PROVE  Allowed(q, Answer(e, known))
<1>1. ~ActiveSession(q) => session[Claimed(q)] = "ended"
  <2>1. Issued(req[q].token) /\ req[q].token \in Token
    BY InvParts DEF Good, TypeOK
  <2>2. session[Claimed(q)] # "none" /\ Claimed(q) \in Session
    BY <2>1, InvParts DEF TokensFit, Claimed, TypeOK
  <2> QED BY <2>2, InvParts DEF ActiveSession, TypeOK, SessionStates
<1> QED BY <1>1, Answers DEF Allowed

LEMMA EndedMonotone ==
  ASSUME IInv, NEW S, session' = Ended(S), UNCHANGED <<token, account>>
  PROVE  Monotone /\ session' \in [Session -> SessionStates]
BY InvParts, EndedTypes DEF Monotone

LEMMA ServiceSettles ==
  ASSUME IInv, NEW q \in Request, Service(q) PROVE Settled
<1> TypeOK
  BY InvParts
<1> USE DEF Errors, Failure
<1>1. CASE CheckSession(q)
  <2>1. PICK e \in {SessionCheck(q)} \cup Failure :
          Finish(q, WorkspaceAnswer(IF CheckSessionError(SessionCheckCode(e)) = "none" /\ account[Subject(q)] # "verified"
                                      THEN "unverified" ELSE CheckSessionError(SessionCheckCode(e))))
    BY <1>1 DEF CheckSession
  <2> DEFINE checked == CheckSessionError(SessionCheckCode(e))
             f == IF checked = "none" /\ account[Subject(q)] # "verified" THEN "unverified" ELSE checked
  <2>2. /\ checked \in {"none", "unauthenticated", "other"}
        /\ checked = "none" => e = "none"
        /\ checked = "unauthenticated" => e = "unauthenticated"
    BY DEF CheckSessionError, SessionCheckCode, SessionCheck, Answer, Code
  <2>3. /\ e = "none" => ActiveSession(q)
        /\ e = "unauthenticated" => ~ActiveSession(q)
    BY DEF SessionCheck
  <2>4. f \in Errors /\ Allowed(q, WorkspaceAnswer(f))
    BY <1>1, <2>2, <2>3, ErrorsAllowed DEF CheckSession, WorkspaceAnswer
  <2> QED BY <1>1, <2>1, <2>4, Finishes, Still DEF CheckSession, TypeOK
<1>2. CASE CheckFails(q)
  <2>1. Allowed(q, WorkspaceAnswer("other"))
    BY <1>2, ErrorsAllowed DEF CheckFails, WorkspaceAnswer
  <2> QED BY <1>2, <2>1, Finishes, Still DEF CheckFails, TypeOK
<1>3. ASSUME NEW S, session' = Ended(S), ActiveSession(q), req[q].at = "check",
             NEW e \in {"none"} \cup Failure, Finish(q, LogoutRPCError(e)),
             UNCHANGED <<deployed, pod, token, account, lag, now>>
      PROVE  Settled
  <2>1. Allowed(q, LogoutRPCError(e))
    BY <1>3, ErrorsAllowed DEF LogoutRPCError
  <2>2. Monotone /\ session' \in [Session -> SessionStates]
    BY <1>3, EndedMonotone
  <2> QED BY <1>3, <2>1, <2>2, Finishes DEF TypeOK
<1>4. ASSUME ~ActiveSession(q), Finish(q, LogoutRPCError("unauthenticated")), req[q].at = "check",
             UNCHANGED <<deployed, pod, token, account, session, lag, now>>
      PROVE  Settled
  <2>1. Allowed(q, LogoutRPCError("unauthenticated"))
    BY <1>4, ErrorsAllowed DEF LogoutRPCError
  <2> QED BY <1>4, <2>1, Finishes, Still DEF TypeOK
<1>5. CASE Logout(q)
  BY <1>3, <1>4, <1>5 DEF Logout, AtService
<1>6. CASE LogoutAll(q)
  BY <1>3, <1>4, <1>6 DEF LogoutAll, AtService
<1>7. CASE RequestVerificationCode(q)
  <2>1. PICK e \in {"limited"} \cup Failure \cup
               (CASE ~ActiveSession(q) -> {"unauthenticated"}
                  [] ActiveSession(q) /\ account[Subject(q)] = "verified" -> {"verified"}
                  [] OTHER -> {"none"}) : Finish(q, VerificationCodeRPCError(e))
    BY <1>7 DEF RequestVerificationCode
  <2>2. /\ e \in Errors
        /\ e \in {"none", "unverified", "verified", "invalid"} => ActiveSession(q)
        /\ e # "unverified" /\ (e = "unauthenticated" => ~ActiveSession(q))
    <3>1. CASE ~ActiveSession(q)
      BY <3>1
    <3>2. CASE ActiveSession(q) /\ account[Subject(q)] = "verified"
      BY <3>2
    <3>3. CASE ActiveSession(q) /\ account[Subject(q)] # "verified"
      BY <3>3
    <3> QED BY <3>1, <3>2, <3>3
  <2>3. Allowed(q, VerificationCodeRPCError(e))
    BY <1>7, <2>2, ErrorsAllowed DEF VerificationCodeRPCError, RequestVerificationCode, AtService
  <2> QED BY <1>7, <2>1, <2>3, Finishes, Still DEF RequestVerificationCode, AtService, TypeOK
<1>8. CASE VerifyEmail(q)
  <2>1. CASE /\ ActiveSession(q) /\ account[Subject(q)] = "unverified"
             /\ account' = [account EXCEPT ![Subject(q)] = "verified"]
             /\ \E e \in {"none"} \cup Failure : Finish(q, VerifyEmailRPCError(e))
    <3>1. account' \in [Account -> AccountStates] /\ Monotone
      BY <1>8, <2>1 DEF VerifyEmail, Monotone, TypeOK, AccountStates
    <3>2. PICK e \in {"none"} \cup Failure : Finish(q, VerifyEmailRPCError(e))
      BY <2>1
    <3>3. Allowed(q, VerifyEmailRPCError(e))
      BY <1>8, <2>1, ErrorsAllowed DEF VerifyEmail, AtService, VerifyEmailRPCError
    <3> QED BY <1>8, <3>1, <3>2, <3>3, Finishes DEF VerifyEmail, AtService, TypeOK
  <2>2. ASSUME NEW e \in {"limited"} \cup Failure \cup
                     (CASE ~ActiveSession(q) -> {"unauthenticated"}
                        [] ActiveSession(q) /\ account[Subject(q)] = "verified" -> {"none", "invalid"}
                        [] OTHER -> {"invalid"}), Finish(q, VerifyEmailRPCError(e)), UNCHANGED account
        PROVE  Settled
    <3>1. /\ e \in Errors
          /\ e \in {"none", "unverified", "verified", "invalid"} => ActiveSession(q)
          /\ e # "unverified" /\ (e = "unauthenticated" => ~ActiveSession(q))
      <4>1. CASE ~ActiveSession(q)
        BY <4>1, <2>2
      <4>2. CASE ActiveSession(q) /\ account[Subject(q)] = "verified"
        BY <4>2, <2>2
      <4>3. CASE ActiveSession(q) /\ account[Subject(q)] # "verified"
        BY <4>3, <2>2
      <4> QED BY <4>1, <4>2, <4>3
    <3>2. Allowed(q, VerifyEmailRPCError(e))
      BY <1>8, <3>1, ErrorsAllowed DEF VerifyEmail, AtService, VerifyEmailRPCError
    <3> QED BY <1>8, <2>2, <3>2, Finishes, Still DEF VerifyEmail, AtService, TypeOK
  <2> QED BY <1>8, <2>1, <2>2 DEF VerifyEmail
<1>9. CASE Reauthenticate(q)
  <2>1. PICK e \in {"limited"} \cup Failure \cup
               (IF ActiveSession(q) THEN {"none", "invalid"} ELSE {"unauthenticated"}) :
          Finish(q, ReauthenticationRPCError(e))
    BY <1>9 DEF Reauthenticate
  <2>2. /\ e \in Errors
        /\ e \in {"none", "unverified", "verified", "invalid"} => ActiveSession(q)
        /\ e # "unverified" /\ (e = "unauthenticated" => ~ActiveSession(q))
    OBVIOUS
  <2>3. Allowed(q, ReauthenticationRPCError(e))
    BY <1>9, <2>2, ErrorsAllowed DEF ReauthenticationRPCError, Reauthenticate, AtService
  <2> QED BY <1>9, <2>1, <2>3, Finishes, Still DEF Reauthenticate, AtService, TypeOK
<1> QED BY <1>1, <1>2, <1>5, <1>6, <1>7, <1>8, <1>9 DEF Service

-----------------------------------------------------------------------------
(* The inductive invariant, and the properties.                              *)

LEMMA NextInv == IInv /\ [Next]_vars => IInv'
<1> SUFFICES ASSUME IInv, [Next]_vars PROVE IInv'
  OBVIOUS
<1> TypeOK /\ KeysFit /\ TokensFit /\ \A q \in Request : Good(q)
  BY InvParts
<1>0. IInv' <=> TypeOK' /\ KeysFit' /\ TokensFit' /\ \A q \in Request : Good(q)'
  BY DEF IInv, KeysFit, Good, RequestsFit, AdmittedSessionsAreLive, RefusedForAReason
<1>1. CASE Rollout
  <2>1. UNCHANGED others
    BY <1>1 DEF Rollout, StartPod, StopPod, PodEnds
  <2>2. \A q \in Request : Good(q)'
    BY <1>1, <2>1, TypesRollout, Untouched, Still DEF others
  <2> QED BY <1>0, <1>1, <2>2, TypesRollout, KeysRollout
<1>2. CASE Rotation
  <2>1. UNCHANGED others
    BY <1>2 DEF Rotation, PublishKey, SwitchKey, RecordLastUse, RetireKey
  <2>2. \A q \in Request : Good(q)'
    BY <1>2, <2>1, TypesRotation, Untouched, Still DEF others, KeysFit
  <2> QED BY <1>0, <1>2, <2>2, TypesRotation, KeysRotation DEF KeysFit
<1>3. CASE Sessions
  <2>1. SessionStep
    BY <1>3, SessionSteps
  <2>2. \A q \in Request : Good(q)'
    BY <2>1, Untouched DEF SessionStep
  <2> QED BY <1>0, <2>1, <2>2, KeysSessions DEF SessionStep
<1>4. ASSUME Settled PROVE IInv'
  <2>1. SessionStep \/ (KeysFit' /\ TokensFit')
    <3>1. KeysFit'
      BY <1>4, KeysUnchanged DEF Settled
    <3>2. TokensFit'
      BY <1>4 DEF Settled, TokensFit, Monotone, TypeOK, Issued, Expiry, KeyFits, deployed
    <3> QED BY <3>1, <3>2
  <2>2. KeysFit' /\ TokensFit'
    BY <2>1, KeysSessions
  <2> QED BY <1>0, <1>4, <2>2 DEF Settled
<1>5. ASSUME NEW q \in Request, Verification(q) \/ Service(q) PROVE IInv'
  BY <1>4, <1>5, VerificationSettles, ServiceSettles
<1>6. CASE Tick
  <2>1. \A q \in Request : Good(q)'
    BY <1>6, TypesTick, Untouched, Still DEF Tick
  <2> QED BY <1>0, <1>6, <2>1, TypesTick, KeysTick
<1>7. CASE UNCHANGED vars
  <2>1. TypeOK' /\ \A q \in Request : Good(q)'
    BY <1>7 DEF vars, TypeOK, Good, Answered, Claimed, Subject, IssuedAt, Issued, Expiry
  <2>2. Settled
    BY <1>7, <2>1, Still DEF Settled, vars, deployed
  <2> QED BY <1>4, <2>2
<1> QED BY <1>1, <1>2, <1>3, <1>5, <1>6, <1>7 DEF Next

(* The inductive invariant holds: during a rotation every pod has the       *)
(* configuration of the phase or the one before, and every token that has   *)
(* not expired is signed with a key that the phase still publishes.         *)
THEOREM TokensInv == Spec => []IInv
BY InitInv, NextInv, PTL DEF Spec

(* A rotation of the signing key as docs/identity-signing-keys.md does it   *)
(* never leaves a token without its key, on any number of pods.             *)
THEOREM KeysAlwaysCover == Spec => []KeysCoverTokens
BY TokensInv, Covers, PTL

(* A session that ended before a request began is refused by both APIs.     *)
THEOREM EndedSessionsAreRefused == Spec => []AdmittedSessionsAreLive
<1>1. IInv => AdmittedSessionsAreLive
  BY DEF IInv
<1> QED BY <1>1, TokensInv, PTL

(* A client is sent back to its login only for a reason.                    *)
THEOREM RefusalsHaveAReason == Spec => []RefusedForAReason
<1>1. IInv => RefusedForAReason
  BY DEF IInv
<1> QED BY <1>1, TokensInv, PTL
=============================================================================
