--------------------------- MODULE AccountsProofs ----------------------------
(* Theorems about Accounts, for every value of its constants.              *)
EXTENDS Accounts, FiniteSetTheorems, TLAPS

-----------------------------------------------------------------------------
(* What the writes keep.                                                   *)

\* The rows that a transaction inserts are rows of their tables.
LEMMA NewRows ==
  ASSUME TypeOK, NEW a \in Account, NEW e \in Email, NEW v \in BOOLEAN, NEW h \in Nat,
         NEW p \in Purpose
  PROVE  /\ NewAccount(e, v, h) \in AccountRow
         /\ NewSession(a, h) \in SessionRow
         /\ NewChallenge(a, e, p) \in ChallengeRow
BY DEF TypeOK, NewAccount, NewSession, NewChallenge, AccountRow, SessionRow, ChallengeRow

\* Revoking the sessions of an account ends exactly its open sessions.
LEMMA RevokeSessions ==
  ASSUME TypeOK, NEW a \in Account
  PROVE  /\ RevokeAccountSessions(a) \in [Session -> SessionRow]
         /\ \A s \in Session :
              /\ RevokeAccountSessions(a)[s].account = session[s].account
              /\ RevokeAccountSessions(a)[s].issuedUnder = session[s].issuedUnder
              /\ RevokeAccountSessions(a)[s].state =
                   IF session[s].account = a /\ session[s].state \in {"live", "lapsed"}
                   THEN "revoked" ELSE session[s].state
BY DEF TypeOK, RevokeAccountSessions, SessionRow

\* What the three ways to end challenges of an account have in common: the row
\* keeps its account, email and purpose, never becomes current, never regains material.
Ended(after, a) ==
  /\ after \in [Challenge -> ChallengeRow]
  /\ \A c \in Challenge :
       /\ after[c].account = challenge[c].account
       /\ after[c].email = challenge[c].email
       /\ after[c].purpose = challenge[c].purpose
       /\ after[c].issuedAt = challenge[c].issuedAt
       /\ after[c].material => challenge[c].material
       /\ challenge[c].account # a => after[c] = challenge[c]
       /\ \/ after[c].state = challenge[c].state
          \/ challenge[c].state = "current" /\ after[c].state = "replaced"

\* A row that still names the same code of the same account.
SameCode(new, old) ==
  /\ new \in ChallengeRow
  /\ new.account = old.account /\ new.email = old.email /\ new.purpose = old.purpose
  /\ new.issuedAt = old.issuedAt

LEMMA ChallengeUpdates ==
  ASSUME NEW row \in ChallengeRow
  PROVE  /\ [row EXCEPT !.material = FALSE] \in ChallengeRow
         /\ \A r : r = [row EXCEPT !.state = "replaced", !.material = FALSE] =>
                 SameCode(r, row) /\ r.state = "replaced" /\ ~r.material
         /\ \A r : r = [row EXCEPT !.state = IF row.state = "current" THEN "replaced" ELSE row.state,
                              !.material = FALSE] =>
                 /\ SameCode(r, row) /\ ~r.material
                 /\ r.state = IF row.state = "current" THEN "replaced" ELSE row.state
BY DEF ChallengeRow, SameCode

LEMMA AccountUpdates ==
  ASSUME NEW row \in AccountRow
  PROVE  /\ [row EXCEPT !.verified = TRUE] \in AccountRow
         /\ [row EXCEPT !.state = "retired"] \in AccountRow
BY DEF AccountRow

LEMMA Replace ==
  ASSUME TypeOK, NEW a \in Account, NEW p \in Purpose
  PROVE  /\ Ended(ReplaceCurrentChallenge(a, p), a)
         /\ \A c \in Challenge :
              /\ ReplaceCurrentChallenge(a, p)[c].material = challenge[c].material
              /\ ReplaceCurrentChallenge(a, p)[c].state =
                   IF Current(c, a, p) THEN "replaced" ELSE challenge[c].state
BY DEF TypeOK, Ended, ReplaceCurrentChallenge, ChallengeRow, Current

LEMMA ReplaceReset ==
  ASSUME TypeOK, NEW a \in Account
  PROVE  /\ Ended(ReplacePasswordResetChallenge(a), a)
         /\ \A c \in Challenge :
              challenge[c].account = a /\ challenge[c].purpose = "password-reset"
              /\ challenge[c].state \in {"current", "replaced"} =>
                /\ ReplacePasswordResetChallenge(a)[c].state = "replaced"
                /\ ~ReplacePasswordResetChallenge(a)[c].material
<1> DEFINE after == ReplacePasswordResetChallenge(a)
<1>1. ASSUME NEW c \in Challenge
      PROVE  /\ after[c] \in ChallengeRow
             /\ after[c].account = challenge[c].account /\ after[c].email = challenge[c].email
             /\ after[c].purpose = challenge[c].purpose /\ after[c].issuedAt = challenge[c].issuedAt
             /\ after[c].material => challenge[c].material
             /\ challenge[c].account # a => after[c] = challenge[c]
             /\ \/ after[c].state = challenge[c].state
                \/ challenge[c].state = "current" /\ after[c].state = "replaced"
             /\ (challenge[c].account = a /\ challenge[c].purpose = "password-reset"
                /\ challenge[c].state \in {"current", "replaced"}) =>
                  after[c].state = "replaced" /\ ~after[c].material
  <2>1. challenge[c] \in ChallengeRow
    BY DEF TypeOK
  <2>2. CASE challenge[c].account = a /\ challenge[c].purpose = "password-reset"
                /\ challenge[c].state \in {"current", "replaced"}
    BY <2>1, <2>2, ChallengeUpdates DEF ReplacePasswordResetChallenge, SameCode
  <2>3. CASE ~(challenge[c].account = a /\ challenge[c].purpose = "password-reset"
                /\ challenge[c].state \in {"current", "replaced"})
    BY <2>1, <2>3 DEF ReplacePasswordResetChallenge
  <2> QED BY <2>2, <2>3
<1>2. after \in [Challenge -> ChallengeRow]
  BY <1>1 DEF ReplacePasswordResetChallenge
<1> HIDE DEF after
<1>3. Ended(after, a)
  BY <1>1, <1>2 DEF Ended
<1> QED BY <1>1, <1>3 DEF after

LEMMA RevokeChallenges ==
  ASSUME TypeOK, NEW a \in Account
  PROVE  /\ Ended(RevokeAccountChallenges(a), a)
         /\ \A c \in Challenge : challenge[c].account = a =>
              /\ RevokeAccountChallenges(a)[c].state # "current"
              /\ ~RevokeAccountChallenges(a)[c].material
<1> DEFINE after == RevokeAccountChallenges(a)
<1>1. ASSUME NEW c \in Challenge
      PROVE  /\ after[c] \in ChallengeRow
             /\ after[c].account = challenge[c].account /\ after[c].email = challenge[c].email
             /\ after[c].purpose = challenge[c].purpose /\ after[c].issuedAt = challenge[c].issuedAt
             /\ after[c].material => challenge[c].material
             /\ challenge[c].account # a => after[c] = challenge[c]
             /\ \/ after[c].state = challenge[c].state
                \/ challenge[c].state = "current" /\ after[c].state = "replaced"
             /\ (challenge[c].account = a) =>
                  after[c].state # "current" /\ ~after[c].material
  <2>1. challenge[c] \in ChallengeRow
    BY DEF TypeOK
  <2>2. CASE challenge[c].account = a
    <3>1. after[c] = [challenge[c] EXCEPT !.state = IF challenge[c].state = "current" THEN "replaced"
                                                    ELSE challenge[c].state,
                                          !.material = FALSE]
      BY <2>2 DEF RevokeAccountChallenges
    <3> HIDE DEF after
    <3>2. /\ SameCode(after[c], challenge[c]) /\ ~after[c].material
          /\ after[c].state = IF challenge[c].state = "current" THEN "replaced" ELSE challenge[c].state
      BY <2>1, <3>1, ChallengeUpdates
    <3> QED BY <2>2, <3>2 DEF SameCode
  <2>3. CASE ~(challenge[c].account = a)
    BY <2>1, <2>3 DEF RevokeAccountChallenges
  <2> QED BY <2>2, <2>3
<1>2. after \in [Challenge -> ChallengeRow]
  BY <1>1 DEF RevokeAccountChallenges
<1> HIDE DEF after
<1>3. Ended(after, a)
  BY <1>1, <1>2 DEF Ended
<1> QED BY <1>1, <1>3 DEF after

-----------------------------------------------------------------------------
(* What a step that leaves the tables of a part alone keeps.               *)

LEMMA SessionFrame ==
  ASSUME SessionInv, UNCHANGED <<account, session>>
  PROVE  SessionInv'
BY DEF SessionInv, SessionRefs, SessionMatchesCredential

LEMMA ChallengeFrame ==
  ASSUME ChallengeInv, UNCHANGED <<account, challenge>>
  PROVE  ChallengeInv'
BY DEF ChallengeInv, ChallengeRefs, SpentResetHasNoMaterial, OneCurrentCode, Current

LEMMA AccountFrame ==
  ASSUME OwnerInv, UNCHANGED <<account, link, login>>
  PROVE  OwnerInv'
BY DEF OwnerInv, AccountRefs, OneOwnerPerEmail, Active

\* Sessions that only end, under accounts that stay as they are.
LEMMA SessionsOnlyEnd ==
  ASSUME SessionInv, UNCHANGED account,
         \A s \in Session :
           /\ session'[s].account = session[s].account
           /\ session'[s].issuedUnder = session[s].issuedUnder
           /\ \/ session'[s].state = session[s].state
              \/ session[s].state \in {"live", "lapsed"} /\ session'[s].state \in {"lapsed", "revoked"}
  PROVE  SessionInv'
BY DEF SessionInv, SessionRefs, SessionMatchesCredential

\* A row of the sessions that was free is inserted for an active account under its hash.
LEMMA SessionInserted ==
  ASSUME TypeOK, NoneAssumption, SessionInv, UNCHANGED account,
         NEW a \in Account, Active(a), NEW s \in Session,
         session' = [session EXCEPT ![s] = NewSession(a, account[a].hash)]
  PROVE  SessionInv'
BY DEF TypeOK, SessionInv, SessionRefs, SessionMatchesCredential, NewSession, Active

\* Challenges of account a end, and a row that was free becomes its current one.
LEMMA ChallengeInserted ==
  ASSUME TypeOK, NoneAssumption, ChallengeInv, UNCHANGED account,
         NEW a \in Account, Active(a), NEW e \in Email, NEW p \in Purpose,
         NEW c \in Challenge, FreeCode(c),
         NEW after, Ended(after, a),
         \A d \in Challenge : ~(after[d].state = "current" /\ Current(d, a, p)),
         \A d \in Challenge :
           after[d].purpose = "password-reset" /\ after[d].material => after[d].state = "current",
         challenge' = [after EXCEPT ![c] = NewChallenge(a, e, p)]
  PROVE  ChallengeInv'
<1>1. ChallengeRefs'
  BY DEF TypeOK, ChallengeInv, ChallengeRefs, Ended, NewChallenge, Active
<1>2. SpentResetHasNoMaterial'
  BY DEF TypeOK, SpentResetHasNoMaterial, Ended, NewChallenge
<1>3. OneCurrentCode'
  BY DEF TypeOK, ChallengeInv, OneCurrentCode, Current, Ended, NewChallenge
<1> QED BY <1>1, <1>2, <1>3 DEF ChallengeInv

\* An account that was free gets its row, and with it at most a first challenge.
LEMMA SameChallenges ==
  ASSUME TypeOK, ChallengeInv, NEW a \in Account, account[a].state = "free",
         NEW row \in AccountRow, row.state = "active",
         account' = [account EXCEPT ![a] = row], UNCHANGED challenge
  PROVE  ChallengeInv'
BY DEF TypeOK, ChallengeInv, ChallengeRefs, SpentResetHasNoMaterial, OneCurrentCode, Current,
       ChallengeRow, AccountRow

LEMMA FirstChallenge ==
  ASSUME TypeOK, NoneAssumption, ChallengeInv, NEW a \in Account, account[a].state = "free",
         NEW row \in AccountRow, row.state = "active",
         account' = [account EXCEPT ![a] = row],
         NEW e \in Email, NEW c \in Challenge, FreeCode(c),
         challenge' = [challenge EXCEPT ![c] = NewChallenge(a, e, "verify-email")]
  PROVE  ChallengeInv'
<1>1. ChallengeRefs'
  BY DEF TypeOK, ChallengeInv, ChallengeRefs, NewChallenge, Purpose, AccountRow
<1>2. SpentResetHasNoMaterial'
  BY DEF TypeOK, ChallengeInv, SpentResetHasNoMaterial, NewChallenge
<1>3. OneCurrentCode'
  BY DEF TypeOK, ChallengeInv, ChallengeRefs, OneCurrentCode, Current, NewChallenge
<1> QED BY <1>1, <1>2, <1>3 DEF ChallengeInv

\* A code of purpose p is replaced by a new one for an active account.
LEMMA CodeReplaced ==
  ASSUME RowsInv, NEW a \in Account, Active(a), NEW e \in Email, NEW p \in Purpose,
         p # "password-reset", NEW c \in Challenge, FreeCode(c),
         challenge' = [ReplaceCurrentChallenge(a, p) EXCEPT ![c] = NewChallenge(a, e, p)],
         UNCHANGED <<account, session, link, notice, login, nextHash, now>>
  PROVE  RowsInv'
<1>1. NewChallenge(a, e, p) \in ChallengeRow
  BY NewRows DEF RowsInv, TypeOK
<1>2. Ended(ReplaceCurrentChallenge(a, p), a)
  BY Replace DEF RowsInv
<1>3. TypeOK'
  BY <1>1, <1>2 DEF RowsInv, TypeOK, Ended
<1>4. \A d \in Challenge :
        ~(ReplaceCurrentChallenge(a, p)[d].state = "current" /\ Current(d, a, p))
  BY Replace DEF RowsInv
<1>5. \A d \in Challenge :
        ReplaceCurrentChallenge(a, p)[d].purpose = "password-reset"
        /\ ReplaceCurrentChallenge(a, p)[d].material =>
          ReplaceCurrentChallenge(a, p)[d].state = "current"
  <2> TAKE d \in Challenge
  <2>1. CASE Current(d, a, p)
    BY <2>1, <1>2 DEF Current, Ended
  <2>2. CASE ~Current(d, a, p)
    BY <2>2, <1>2, Replace DEF RowsInv, ChallengeInv, SpentResetHasNoMaterial, Ended
  <2> QED BY <2>1, <2>2
<1>6. ChallengeInv'
  BY <1>2, <1>4, <1>5, ChallengeInserted, NoneAssumption DEF RowsInv
<1> QED BY <1>3, <1>6, AccountFrame, SessionFrame DEF RowsInv

-----------------------------------------------------------------------------
(* Every step keeps the inductive invariant.                               *)

LEMMA Inductive ==
  ASSUME RowsInv, [Next]_vars
  PROVE  RowsInv'
<1>1. ASSUME Tick PROVE RowsInv'
  <2>1. TypeOK'
    BY <1>1, NoneAssumption, LimitsAssumption
       DEF RowsInv, Tick, TypeOK, AccountRow, SessionRow, ChallengeRow, LoginState
  <2>2. OwnerInv'
    BY <1>1, AccountFrame DEF RowsInv, Tick
  <2>3. SessionInv'
    BY <1>1, SessionFrame DEF RowsInv, Tick
  <2>4. ChallengeInv'
    BY <1>1, ChallengeFrame DEF RowsInv, Tick
  <2> QED BY <2>1, <2>2, <2>3, <2>4 DEF RowsInv
<1>2. ASSUME NEW s \in Session, SessionLapses(s) PROVE RowsInv'
  <2>1. TypeOK'
    BY <1>2, NoneAssumption, LimitsAssumption DEF RowsInv, SessionLapses, TypeOK, SessionRow
  <2>2. OwnerInv'
    BY <1>2, AccountFrame DEF RowsInv, SessionLapses
  <2>3. SessionInv'
    BY <1>2, NoneAssumption, SessionsOnlyEnd DEF RowsInv, SessionLapses, TypeOK
  <2>4. ChallengeInv'
    BY <1>2, ChallengeFrame DEF RowsInv, SessionLapses
  <2> QED BY <2>1, <2>2, <2>3, <2>4 DEF RowsInv
<1>3. ASSUME NEW l \in Login, NEW a \in Account, NEW e \in Email, FindPasswordAccount(l, a, e) PROVE RowsInv'
  <2>1. TypeOK'
    BY <1>3, NoneAssumption, LimitsAssumption
       DEF RowsInv, FindPasswordAccount, TypeOK, LoginState, AccountRow
  <2>2. OwnerInv'
    BY <1>3, NoneAssumption, LimitsAssumption
       DEF RowsInv, FindPasswordAccount, OwnerInv, AccountRefs, OneOwnerPerEmail, TypeOK,
           Active
  <2>3. SessionInv'
    BY <1>3, SessionFrame DEF RowsInv, FindPasswordAccount
  <2>4. ChallengeInv'
    BY <1>3, ChallengeFrame DEF RowsInv, FindPasswordAccount
  <2> QED BY <2>1, <2>2, <2>3, <2>4 DEF RowsInv
<1>4. ASSUME NEW l \in Login, NEW s \in Session, IssueLoginSession(l, s) PROVE RowsInv'
  <2>1. TypeOK'
    BY <1>4, NoneAssumption, LimitsAssumption
       DEF RowsInv, IssueLoginSession, SameCredential, IdleLogin, NoHash, TypeOK, LoginState,
           SessionRow, NewSession, OwnerInv, AccountRefs
  <2>2. OwnerInv'
    BY <1>4, NoneAssumption, LimitsAssumption
       DEF RowsInv, IssueLoginSession, SameCredential, IdleLogin, OwnerInv, AccountRefs,
           OneOwnerPerEmail, TypeOK, Active
  <2>3. SessionInv'
    BY <1>4, NoneAssumption, SessionInserted
       DEF RowsInv, IssueLoginSession, SameCredential, IdleLogin, TypeOK, OwnerInv,
           AccountRefs, IdleLogin
  <2>4. ChallengeInv'
    BY <1>4, ChallengeFrame DEF RowsInv, IssueLoginSession
  <2> QED BY <2>1, <2>2, <2>3, <2>4 DEF RowsInv
<1>5. ASSUME NEW l \in Login, FailLogin(l) PROVE RowsInv'
  <2>1. TypeOK'
    BY <1>5, NoneAssumption, LimitsAssumption
       DEF RowsInv, FailLogin, IdleLogin, NoHash, TypeOK, LoginState
  <2>2. OwnerInv'
    BY <1>5, NoneAssumption, LimitsAssumption
       DEF RowsInv, FailLogin, IdleLogin, OwnerInv, AccountRefs, OneOwnerPerEmail, TypeOK,
           Active
  <2>3. SessionInv'
    BY <1>5, SessionFrame DEF RowsInv, FailLogin
  <2>4. ChallengeInv'
    BY <1>5, ChallengeFrame DEF RowsInv, FailLogin
  <2> QED BY <2>1, <2>2, <2>3, <2>4 DEF RowsInv
<1>6. ASSUME NEW i \in Identity, NEW s \in Session, ProviderLogin(i, s) PROVE RowsInv'
  <2>1. TypeOK'
    BY <1>6, NoneAssumption, LimitsAssumption
       DEF RowsInv, ProviderLogin, TypeOK, SessionRow, AccountRow, NewSession
  <2>2. OwnerInv'
    BY <1>6, AccountFrame DEF RowsInv, ProviderLogin
  <2>3. SessionInv'
    BY <1>6, NoneAssumption, SessionInserted DEF RowsInv, ProviderLogin, TypeOK
  <2>4. ChallengeInv'
    BY <1>6, ChallengeFrame DEF RowsInv, ProviderLogin
  <2> QED BY <2>1, <2>2, <2>3, <2>4 DEF RowsInv
<1>7. ASSUME NEW s \in Session, LogoutCurrentSession(s) PROVE RowsInv'
  <2>1. TypeOK'
    BY <1>7, NoneAssumption, LimitsAssumption DEF RowsInv, LogoutCurrentSession, TypeOK, SessionRow
  <2>2. OwnerInv'
    BY <1>7, AccountFrame DEF RowsInv, LogoutCurrentSession
  <2>3. SessionInv'
    BY <1>7, NoneAssumption, SessionsOnlyEnd DEF RowsInv, LogoutCurrentSession, TypeOK, ActiveSession
  <2>4. ChallengeInv'
    BY <1>7, ChallengeFrame DEF RowsInv, LogoutCurrentSession
  <2> QED BY <2>1, <2>2, <2>3, <2>4 DEF RowsInv
<1>8. ASSUME NEW s \in Session, RevokeReplayedSession(s) PROVE RowsInv'
  <2>1. TypeOK'
    BY <1>8, NoneAssumption, LimitsAssumption DEF RowsInv, RevokeReplayedSession, TypeOK, SessionRow
  <2>2. OwnerInv'
    BY <1>8, AccountFrame DEF RowsInv, RevokeReplayedSession
  <2>3. SessionInv'
    BY <1>8, NoneAssumption, SessionsOnlyEnd
       DEF RowsInv, RevokeReplayedSession, TypeOK, ActiveSession
  <2>4. ChallengeInv'
    BY <1>8, ChallengeFrame DEF RowsInv, RevokeReplayedSession
  <2> QED BY <2>1, <2>2, <2>3, <2>4 DEF RowsInv
<1>9. ASSUME NEW s \in Session, LogoutAllSessions(s) PROVE RowsInv'
  <2>1. TypeOK'
    BY <1>9, NoneAssumption, RevokeSessions
       DEF RowsInv, LogoutAllSessions, TypeOK, ActiveSession, SessionInv, SessionRefs
  <2>2. OwnerInv'
    BY <1>9, AccountFrame DEF RowsInv, LogoutAllSessions
  <2>3. SessionInv'
    <3>1. session[s].account \in Account /\ TypeOK /\ SessionInv
      BY <1>9, NoneAssumption DEF RowsInv, LogoutAllSessions, ActiveSession, SessionInv, SessionRefs
    <3>2. session' = RevokeAccountSessions(session[s].account) /\ UNCHANGED account
      BY <1>9 DEF LogoutAllSessions
    <3>3. \A r \in Session :
            /\ session'[r].account = session[r].account /\ session'[r].issuedUnder = session[r].issuedUnder
            /\ \/ session'[r].state = session[r].state
               \/ session[r].state \in {"live", "lapsed"} /\ session'[r].state \in {"lapsed", "revoked"}
      BY <3>1, <3>2, RevokeSessions
    <3> QED BY <3>1, <3>2, <3>3, SessionsOnlyEnd
  <2>4. ChallengeInv'
    BY <1>9, ChallengeFrame DEF RowsInv, LogoutAllSessions
  <2> QED BY <2>1, <2>2, <2>3, <2>4 DEF RowsInv
<1>10. ASSUME NEW c \in Challenge, DropMaterial(c) PROVE RowsInv'
  <2>1. TypeOK'
    <3>1. challenge' \in [Challenge -> ChallengeRow]
      BY <1>10, ChallengeUpdates DEF RowsInv, DropMaterial, TypeOK
    <3> QED BY <1>10, <3>1 DEF RowsInv, DropMaterial, TypeOK
  <2>2. OwnerInv'
    BY <1>10, AccountFrame DEF RowsInv, DropMaterial
  <2>3. SessionInv'
    BY <1>10, SessionFrame DEF RowsInv, DropMaterial
  <2>4. ChallengeInv'
    BY <1>10, NoneAssumption, LimitsAssumption
       DEF RowsInv, DropMaterial, TypeOK, ChallengeInv, ChallengeRefs, SpentResetHasNoMaterial,
           OneCurrentCode, Current
  <2> QED BY <2>1, <2>2, <2>3, <2>4 DEF RowsInv
<1>11. ASSUME NEW c \in Challenge, SendNotice(c) PROVE RowsInv'
  <2>1. TypeOK'
    BY <1>11, NoneAssumption, LimitsAssumption DEF RowsInv, SendNotice, TypeOK
  <2>2. OwnerInv'
    BY <1>11, AccountFrame DEF RowsInv, SendNotice
  <2>3. SessionInv'
    BY <1>11, SessionFrame DEF RowsInv, SendNotice
  <2>4. ChallengeInv'
    BY <1>11, ChallengeFrame DEF RowsInv, SendNotice
  <2> QED BY <2>1, <2>2, <2>3, <2>4 DEF RowsInv
<1>12. ASSUME NEW c \in Challenge, WrongGuess(c) PROVE RowsInv'
  <2>1. TypeOK'
    BY <1>12, NoneAssumption, LimitsAssumption DEF RowsInv, WrongGuess, TypeOK, ChallengeRow
  <2>2. OwnerInv'
    BY <1>12, AccountFrame DEF RowsInv, WrongGuess
  <2>3. SessionInv'
    BY <1>12, SessionFrame DEF RowsInv, WrongGuess
  <2>4. ChallengeInv'
    BY <1>12, NoneAssumption, LimitsAssumption
       DEF RowsInv, WrongGuess, TypeOK, ChallengeInv, ChallengeRefs, SpentResetHasNoMaterial,
           OneCurrentCode, Current
  <2> QED BY <2>1, <2>2, <2>3, <2>4 DEF RowsInv
<1>13. ASSUME NEW e \in Email, NEW a \in Account, NEW s \in Session, NEW c \in Challenge,
              Signup(e, a, s, c)
       PROVE  RowsInv'
  <2> DEFINE row == NewAccount(e, FALSE, nextHash)
  <2>1. row \in AccountRow /\ row.state = "active" /\ account' = [account EXCEPT ![a] = row]
    BY <1>13, NewRows DEF RowsInv, TypeOK, Purpose, Signup, NewAccount, AccountRow
  <2>2. /\ NewSession(a, nextHash) \in SessionRow
        /\ NewChallenge(a, e, "verify-email") \in ChallengeRow
    BY NewRows DEF RowsInv, TypeOK, Purpose
  <2>3. OwnerInv'
    BY <1>13 DEF RowsInv, Signup, FreeRows, OwnerInv, AccountRefs, OneOwnerPerEmail, TypeOK,
                 AccountRow, Active, EmailFree, Owns, NewAccount
  <2>4. SessionInv'
    BY <1>13, NoneAssumption
       DEF RowsInv, Signup, FreeRows, SessionInv, SessionRefs, SessionMatchesCredential, TypeOK,
           AccountRow, SessionRow, NewSession, NewAccount
  <2> HIDE DEF row
  <2>5. TypeOK'
    <3>1. account' \in [Account -> AccountRow]
      BY <2>1 DEF RowsInv, TypeOK
    <3>2. nextHash' \in Nat \ {0}
      BY <1>13 DEF RowsInv, Signup, TypeOK
    <3>3. session' \in [Session -> SessionRow] /\ challenge' \in [Challenge -> ChallengeRow]
      BY <1>13, <2>2 DEF RowsInv, Signup, TypeOK
    <3>4. UNCHANGED <<link, notice, login, now>>
      BY <1>13 DEF Signup
    <3> QED BY <3>1, <3>2, <3>3, <3>4 DEF RowsInv, TypeOK
  <2>6. ChallengeInv'
    BY <1>13, <2>1, FirstChallenge, NoneAssumption DEF RowsInv, Signup, FreeRows
  <2> QED BY <2>3, <2>4, <2>5, <2>6 DEF RowsInv
<1>14. ASSUME NEW i \in Identity, NEW e \in Email, NEW v \in BOOLEAN, NEW a \in Account,
              NEW s \in Session, NEW c \in Challenge,
              ProviderSignup(i, e, v, a, s, c)
       PROVE  RowsInv'
  <2> DEFINE row == NewAccount(e, v, NoHash)
  <2>1. row \in AccountRow /\ row.state = "active" /\ account' = [account EXCEPT ![a] = row]
    BY <1>14, NewRows DEF RowsInv, NoHash, Purpose, ProviderSignup, NewAccount, AccountRow
  <2>2. /\ NewSession(a, NoHash) \in SessionRow
        /\ NewChallenge(a, e, "verify-email") \in ChallengeRow
    BY NewRows DEF RowsInv, NoHash, Purpose
  <2>3. OwnerInv'
    BY <1>14 DEF RowsInv, ProviderSignup, FreeRows, OwnerInv, AccountRefs, OneOwnerPerEmail,
                 TypeOK, AccountRow, Active, EmailFree, Owns, NewAccount
  <2>4. SessionInv'
    BY <1>14, NoneAssumption
       DEF RowsInv, ProviderSignup, FreeRows, SessionInv, SessionRefs, SessionMatchesCredential,
           TypeOK, AccountRow, SessionRow, NewSession, NewAccount
  <2> HIDE DEF row
  <2>5. TypeOK'
    BY <1>14, <2>1, <2>2 DEF RowsInv, ProviderSignup, TypeOK
  <2>6. ChallengeInv'
    <3>1. CASE v
      BY <1>14, <3>1, <2>1, SameChallenges DEF RowsInv, ProviderSignup, FreeRows
    <3>2. CASE ~v
      BY <1>14, <3>2, <2>1, FirstChallenge, NoneAssumption DEF RowsInv, ProviderSignup, FreeRows
    <3> QED BY <3>1, <3>2
  <2> QED BY <2>3, <2>4, <2>5, <2>6 DEF RowsInv
<1>15. ASSUME NEW s \in Session, NEW c \in Challenge, RequestVerificationCode(s, c)
       PROVE  RowsInv'
  <2> DEFINE a == session[s].account
  <2>1. a \in Account /\ Active(a) /\ account[a].email \in Email
    BY <1>15 DEF RowsInv, RequestVerificationCode, ActiveSession, SessionInv, SessionRefs,
                 OwnerInv, AccountRefs
  <2>2. challenge' = [ReplaceCurrentChallenge(a, "verify-email")
                        EXCEPT ![c] = NewChallenge(a, account[a].email, "verify-email")]
    BY <1>15 DEF RequestVerificationCode
  <2>3. FreeCode(c) /\ UNCHANGED <<account, session, link, notice, login, nextHash, now>>
    BY <1>15 DEF RequestVerificationCode
  <2> QED BY <2>1, <2>2, <2>3, CodeReplaced DEF Purpose
<1>16. ASSUME NEW a \in Account, NEW e \in Email, NEW c \in Challenge, RequestClaimCode(a, e, c)
       PROVE  RowsInv'
  BY <1>16, CodeReplaced DEF RequestClaimCode, Owns, Purpose
<1>17. ASSUME NEW a \in Account, NEW e \in Email, NEW c \in Challenge,
              RequestPasswordResetCode(a, e, c)
       PROVE  RowsInv'
  <2> DEFINE after == ReplacePasswordResetChallenge(a)
  <2>1. /\ Active(a) /\ FreeCode(c)
        /\ UNCHANGED <<account, session, link, notice, login, nextHash, now>>
        /\ challenge' = [after EXCEPT ![c] = NewChallenge(a, e, "password-reset")]
    BY <1>17 DEF RequestPasswordResetCode, MayReset, Owns
  <2>2. NewChallenge(a, e, "password-reset") \in ChallengeRow
    BY NewRows DEF RowsInv, TypeOK, Purpose
  <2>3. Ended(after, a)
    BY ReplaceReset DEF RowsInv
  <2>4. TypeOK'
    BY <2>1, <2>2, <2>3 DEF RowsInv, TypeOK, Ended
  <2>5. \A d \in Challenge : ~(after[d].state = "current" /\ Current(d, a, "password-reset"))
    BY ReplaceReset DEF RowsInv, Current
  <2>6. \A d \in Challenge :
          after[d].purpose = "password-reset" /\ after[d].material => after[d].state = "current"
    BY <2>3, ReplaceReset DEF Ended, RowsInv, ChallengeInv, SpentResetHasNoMaterial
  <2>7. ChallengeInv'
    BY <2>1, <2>3, <2>5, <2>6, ChallengeInserted, NoneAssumption DEF RowsInv, Purpose
  <2> QED BY <2>1, <2>4, <2>7, AccountFrame, SessionFrame DEF RowsInv
<1>18. ASSUME NEW c \in Challenge, VerifyEmail(c) PROVE RowsInv'
  <2> DEFINE a == challenge[c].account
  <2>1. a \in Account
    BY <1>18 DEF RowsInv, VerifyEmail, MaySubmit, ChallengeInv, ChallengeRefs
  <2>2. [account[a] EXCEPT !.verified = TRUE] \in AccountRow
    BY <2>1, AccountUpdates DEF RowsInv, TypeOK
  <2>3. [challenge[c] EXCEPT !.state = "consumed"] \in ChallengeRow
    BY DEF RowsInv, TypeOK, ChallengeRow
  <2>4. TypeOK'
    BY <1>18, <2>1, <2>2, <2>3 DEF RowsInv, VerifyEmail, TypeOK
  <2>5. OwnerInv'
    BY <1>18 DEF RowsInv, VerifyEmail, MaySubmit, OwnerInv, AccountRefs, OneOwnerPerEmail,
                 TypeOK, AccountRow, Active
  <2>6. SessionInv'
    BY <1>18 DEF RowsInv, VerifyEmail, MaySubmit, SessionInv, SessionRefs,
                 SessionMatchesCredential, TypeOK, AccountRow, SessionRow
  <2>7. ChallengeInv'
    BY <1>18 DEF RowsInv, VerifyEmail, MaySubmit, ChallengeInv, ChallengeRefs,
                 SpentResetHasNoMaterial, OneCurrentCode, Current, TypeOK, ChallengeRow,
                 AccountRow
  <2> QED BY <2>4, <2>5, <2>6, <2>7 DEF RowsInv
<1>19. ASSUME NEW c \in Challenge, NEW b \in Account, NEW s \in Session,
              ClaimUnverifiedAccount(c, b, s)
       PROVE  RowsInv'
  <2> DEFINE a == challenge[c].account
             e == challenge[c].email
             ended == RevokeAccountChallenges(a)
             revoked == RevokeAccountSessions(a)
             row == NewAccount(e, TRUE, nextHash)
  <2>1. /\ a \in Account /\ b \in Account /\ a # b /\ e \in Email /\ s \in Session
        /\ Active(a) /\ account[b].state = "free" /\ session[s].state = "free"
        /\ ~account[a].verified /\ account[a].email = e
        /\ challenge[c].state = "current" /\ challenge[c].purpose = "claim-account"
    BY <1>19 DEF RowsInv, ClaimUnverifiedAccount, MaySubmit, FreeRows, Open, Active, TypeOK,
                 ChallengeInv, ChallengeRefs, OwnerInv, AccountRefs
  <2>2. /\ row \in AccountRow /\ row.state = "active" /\ row.verified
        /\ row.email = e /\ row.hash = nextHash
        /\ [account[a] EXCEPT !.state = "retired"] \in AccountRow
    BY <2>1 DEF RowsInv, TypeOK, NewAccount, AccountRow
  <2>3. Ended(ended, a) /\ (\A d \in Challenge : challenge[d].account = a =>
                               ended[d].state # "current" /\ ~ended[d].material)
    BY <2>1, RevokeChallenges DEF RowsInv
  <2>4. /\ revoked \in [Session -> SessionRow]
        /\ \A t \in Session :
             /\ revoked[t].account = session[t].account
             /\ revoked[t].issuedUnder = session[t].issuedUnder
             /\ revoked[t].state = IF session[t].account = a /\ session[t].state \in {"live", "lapsed"}
                                   THEN "revoked" ELSE session[t].state
    BY <2>1, RevokeSessions DEF RowsInv
  <2>5. NewSession(b, nextHash) \in SessionRow
    BY DEF RowsInv, TypeOK, NewSession, SessionRow
  <2>6. /\ challenge' = [ended EXCEPT ![c].state = "consumed"]
        /\ session' = [revoked EXCEPT ![s] = NewSession(b, nextHash)]
        /\ account' = [[account EXCEPT ![a].state = "retired"] EXCEPT ![b] = row]
        /\ nextHash' = nextHash + 1
        /\ UNCHANGED <<link, notice, login, now>>
    BY <1>19 DEF ClaimUnverifiedAccount
  <2> HIDE DEF a, e, ended, revoked, row
  <2>7. TypeOK'
    <3>1. account' \in [Account -> AccountRow] /\ session' \in [Session -> SessionRow]
      BY <2>1, <2>2, <2>4, <2>5, <2>6 DEF RowsInv, TypeOK
    <3>2. challenge' \in [Challenge -> ChallengeRow]
      BY <2>1, <2>3, <2>6 DEF Ended, ChallengeRow
    <3>3. nextHash' \in Nat \ {0}
      BY <2>6 DEF RowsInv, TypeOK
    <3> QED BY <2>6, <3>1, <3>2, <3>3 DEF RowsInv, TypeOK
  <2>8. OwnerInv'
    <3>1. \A x \in Account : account'[x] = IF x = b THEN row
                                           ELSE IF x = a THEN [account[a] EXCEPT !.state = "retired"]
                                           ELSE account[x]
      BY <2>1, <2>6 DEF RowsInv, TypeOK
    <3>2. /\ account'[a] = [account[a] EXCEPT !.state = "retired"] /\ ~account'[a].verified
          /\ account'[a].state = "retired" /\ account'[b] = row
          /\ \A x \in Account \ {a, b} : account'[x] = account[x]
      BY <2>1, <3>1 DEF RowsInv, TypeOK, AccountRow
    <3>3. AccountRefs'
      <4>1. ASSUME NEW x \in Account
            PROVE  /\ account'[x].verified => account'[x].state = "active"
                   /\ account'[x].state = "active" => account'[x].email \in Email
                   /\ account[x].state # "free" => account'[x].state # "free"
        <5>1. CASE x \in {a, b}
          BY <2>1, <2>2, <3>2, <5>1
        <5>2. CASE x \notin {a, b}
          BY <3>2, <5>2 DEF RowsInv, OwnerInv, AccountRefs, Active
        <5> QED BY <5>1, <5>2
      <4>2. ASSUME NEW i \in Identity, link[i] # None PROVE link[i] \in Account /\ account[link[i]].state # "free"
        BY <4>2 DEF RowsInv, TypeOK, OwnerInv, AccountRefs
      <4> QED BY <2>6, <4>1, <4>2 DEF RowsInv, OwnerInv, AccountRefs, Active, IdleLogin
    <3>4. OneOwnerPerEmail'
      <4> SUFFICES ASSUME NEW x \in Account, NEW y \in Account, account'[x].state = "active",
                          account'[y].state = "active", account'[x].email = account'[y].email
                   PROVE  x = y
        BY DEF OneOwnerPerEmail, Active
      <4>1. x # a /\ y # a
        BY <3>2
      <4>2. ASSUME NEW z \in Account, z \notin {a, b}, account'[z].state = "active" PROVE account'[z].email # e
        BY <2>1, <3>2, <4>2 DEF RowsInv, OwnerInv, OneOwnerPerEmail, Active
      <4>3. CASE x = b \/ y = b
        BY <2>2, <3>2, <4>1, <4>2, <4>3
      <4>4. CASE x # b /\ y # b
        BY <3>2, <4>1, <4>4 DEF RowsInv, OwnerInv, OneOwnerPerEmail, Active
      <4> QED BY <4>3, <4>4
    <3> QED BY <3>3, <3>4 DEF OwnerInv
  <2>9. SessionInv'
    <3> SUFFICES ASSUME NEW t \in Session
                 PROVE  /\ session'[t].state = "free" => session'[t].account = None
                        /\ session'[t].state # "free" =>
                             /\ session'[t].account \in Account
                             /\ account'[session'[t].account].state # "free"
                        /\ session'[t].state \in {"live", "lapsed"} =>
                             account'[session'[t].account].state = "active"
                        /\ session'[t].state = "live" =>
                             session'[t].issuedUnder = account'[session'[t].account].hash
      BY DEF SessionInv, SessionRefs, SessionMatchesCredential
    <3>1. CASE t = s
      BY <2>1, <2>2, <2>4, <2>6, <3>1 DEF RowsInv, TypeOK, NewSession
    <3>2. CASE t # s /\ session[t].account = a
      BY <2>1, <2>4, <2>6, <3>2 DEF RowsInv, TypeOK, AccountRow, SessionRow, SessionInv, SessionRefs
    <3>3. CASE t # s /\ session[t].account # a
      BY <2>1, <2>4, <2>6, <3>3 DEF RowsInv, TypeOK, SessionInv, SessionRefs, SessionMatchesCredential
    <3> QED BY <3>1, <3>2, <3>3
  <2>10. ChallengeInv'
    <3>1. ChallengeRefs'
      <4>1. /\ account'[a].state = "retired" /\ account'[b].state = "active"
            /\ \A x \in Account \ {a, b} : account'[x] = account[x]
        BY <2>1, <2>2, <2>6 DEF RowsInv, TypeOK, AccountRow
      <4> SUFFICES ASSUME NEW d \in Challenge
                   PROVE  /\ challenge'[d].state = "free" => challenge'[d].account = None /\ ~challenge'[d].material
                          /\ challenge'[d].state # "free" => /\ challenge'[d].account \in Account
                                                            /\ challenge'[d].purpose \in Purpose
                                                            /\ account'[challenge'[d].account].state # "free"
                          /\ challenge'[d].state = "current" \/ challenge'[d].material =>
                               account'[challenge'[d].account].state = "active"
        BY DEF ChallengeRefs
      <4>2. /\ challenge'[d].account = challenge[d].account /\ challenge'[d].purpose = challenge[d].purpose
            /\ challenge'[d].material => challenge[d].material
            /\ challenge'[d].state = "free" <=> challenge[d].state = "free"
            /\ challenge'[d].state = "current" => challenge[d].state = "current"
            /\ challenge[d].account = a => challenge'[d].state # "current" /\ ~challenge'[d].material
        <5>1. CASE d = c
          BY <2>1, <2>3, <2>6, <5>1 DEF Ended, ChallengeRow, a
        <5>2. CASE d # c
          BY <2>3, <2>6, <5>2 DEF Ended
        <5> QED BY <5>1, <5>2
      <4> QED BY <2>1, <4>1, <4>2 DEF RowsInv, ChallengeInv, ChallengeRefs
    <3>2. ASSUME NEW d \in Challenge
          PROVE  /\ challenge'[d].account = challenge[d].account
                 /\ challenge'[d].purpose = challenge[d].purpose
                 /\ challenge'[d].state = "current" => challenge[d].state = "current"
                 /\ challenge'[d].material => challenge[d].material /\ challenge[d].account # a
                 /\ challenge[d].account # a => challenge'[d] = challenge[d]
      <4>1. CASE d = c
        BY <2>1, <2>3, <2>6, <4>1 DEF Ended, ChallengeRow, a
      <4>2. CASE d # c
        BY <2>3, <2>6, <4>2 DEF Ended
      <4> QED BY <4>1, <4>2
    <3>3. SpentResetHasNoMaterial'
      BY <3>2 DEF RowsInv, ChallengeInv, SpentResetHasNoMaterial
    <3>4. OneCurrentCode'
      BY <3>2 DEF RowsInv, ChallengeInv, OneCurrentCode, Current
    <3> QED BY <3>1, <3>3, <3>4 DEF ChallengeInv
  <2> QED BY <2>7, <2>8, <2>9, <2>10 DEF RowsInv
<1>20. ASSUME NEW c \in Challenge, ResetPassword(c) PROVE RowsInv'
  <2> DEFINE a == challenge[c].account
             after == ReplacePasswordResetChallenge(a)
             revoked == RevokeAccountSessions(a)
             spent == [challenge[c] EXCEPT !.state = "consumed", !.material = FALSE]
  <2>1. /\ a \in Account /\ Active(a)
        /\ challenge[c].state = "current" /\ challenge[c].purpose = "password-reset"
    BY <1>20 DEF RowsInv, ResetPassword, MaySubmit, ChallengeInv, ChallengeRefs
  <2>2. Ended(after, a)
    BY <2>1, ReplaceReset DEF RowsInv
  <2>3. /\ revoked \in [Session -> SessionRow]
        /\ \A t \in Session :
             /\ revoked[t].account = session[t].account
             /\ revoked[t].issuedUnder = session[t].issuedUnder
             /\ revoked[t].state = IF session[t].account = a /\ session[t].state \in {"live", "lapsed"}
                                   THEN "revoked" ELSE session[t].state
    BY <2>1, RevokeSessions DEF RowsInv
  <2>4. /\ challenge' = [after EXCEPT ![c] = spent]
        /\ account' = [account EXCEPT ![a].hash = nextHash]
        /\ session' = revoked
        /\ notice' = notice \cup {c}
        /\ nextHash' = nextHash + 1
        /\ UNCHANGED <<link, login, now>>
    BY <1>20 DEF ResetPassword
  <2>5. spent \in ChallengeRow /\ spent.account = a /\ spent.purpose = "password-reset"
        /\ spent.state = "consumed" /\ ~spent.material
    BY <2>1 DEF RowsInv, TypeOK, ChallengeRow
  <2> HIDE DEF a, after, revoked, spent
  <2>6. TypeOK'
    <3>1. account' \in [Account -> AccountRow]
      BY <2>1, <2>4 DEF RowsInv, TypeOK, AccountRow
    <3>2. session' \in [Session -> SessionRow] /\ challenge' \in [Challenge -> ChallengeRow]
      BY <2>2, <2>3, <2>4, <2>5 DEF Ended
    <3>3. nextHash' \in Nat \ {0} /\ notice' \subseteq Challenge
      BY <2>4 DEF RowsInv, TypeOK
    <3> QED BY <2>4, <3>1, <3>2, <3>3 DEF RowsInv, TypeOK
  <2>7. OwnerInv'
    BY <2>1, <2>4 DEF RowsInv, TypeOK, AccountRow, OwnerInv, AccountRefs, OneOwnerPerEmail, Active
  <2>8. SessionInv'
    BY <2>1, <2>3, <2>4
       DEF RowsInv, TypeOK, AccountRow, SessionInv, SessionRefs, SessionMatchesCredential, Active
  <2>9. ChallengeInv'
    <3>1. ChallengeRefs'
      BY <2>1, <2>2, <2>4, <2>5
         DEF RowsInv, TypeOK, AccountRow, ChallengeInv, ChallengeRefs, Ended, Active
    <3>2. SpentResetHasNoMaterial'
      BY <2>1, <2>2, <2>4, <2>5, ReplaceReset
         DEF RowsInv, ChallengeInv, SpentResetHasNoMaterial, Ended, after
    <3>3. OneCurrentCode'
      BY <2>1, <2>2, <2>4, <2>5 DEF RowsInv, ChallengeInv, OneCurrentCode, Current, Ended
    <3> QED BY <3>1, <3>2, <3>3 DEF ChallengeInv
  <2> QED BY <2>6, <2>7, <2>8, <2>9 DEF RowsInv
<1>21. CASE UNCHANGED vars
  <2>1. TypeOK'
    BY <1>21 DEF vars, RowsInv, TypeOK
  <2> QED BY <1>21, <2>1, AccountFrame, SessionFrame, ChallengeFrame DEF vars, RowsInv
<1> QED
  BY <1>1, <1>2, <1>3, <1>4, <1>5, <1>6, <1>7, <1>8, <1>9, <1>10, <1>11, <1>12, <1>13, <1>14,
     <1>15, <1>16, <1>17, <1>18, <1>19, <1>20, <1>21
     DEF Next, Logins, Creations, CodeRequests, Submissions, SessionSteps, WorkerSteps

-----------------------------------------------------------------------------
(* How many codes an account gets.                                         *)

\* A step that leaves the code of c what it is, or ends it.
KeptCode(c) ==
  /\ challenge'[c].account = challenge[c].account
  /\ challenge'[c].issuedAt = challenge[c].issuedAt
  /\ challenge[c].state \in {"replaced", "consumed"} =>
       /\ challenge'[c].state = challenge[c].state
       /\ challenge'[c].material => challenge[c].material

\* A step that issues the code of c to account a, its first one or an allowed one.
IssuedCode(a, c) ==
  /\ FreeCode(c) /\ challenge[c].account = None
  /\ challenge'[c].account = a /\ challenge'[c].issuedAt = now /\ now' = now
  /\ CanIssueCode(a) \/ Issued(a) = {}

LEMMA CodeIssued ==
  ASSUME RowsInv, NEW a \in Account, NEW e, NEW p, NEW c \in Challenge, FreeCode(c), NEW after, Ended(after, a),
         challenge' = [after EXCEPT ![c] = NewChallenge(a, e, p)], now' = now, CanIssueCode(a) \/ Issued(a) = {}
  PROVE  IssuedCode(a, c) /\ \A d \in Challenge \ {c} : KeptCode(d)
<1>1. challenge[c].account = None
  BY DEF RowsInv, ChallengeInv, ChallengeRefs, FreeCode
<1>2. challenge'[c].account = a /\ challenge'[c].issuedAt = now
  BY DEF Ended, NewChallenge
<1>3. \A d \in Challenge \ {c} : challenge'[d] = after[d]
  BY DEF Ended
<1> QED BY <1>1, <1>2, <1>3 DEF IssuedCode, KeptCode, Ended

\* A new account has no code yet.
LEMMA FirstCode ==
  ASSUME RowsInv, NEW a \in Account, account[a].state = "free", NEW e, NEW c \in Challenge, FreeCode(c),
         challenge' = [challenge EXCEPT ![c] = NewChallenge(a, e, "verify-email")], now' = now
  PROVE  IssuedCode(a, c) /\ \A d \in Challenge \ {c} : KeptCode(d)
<1>1. Issued(a) = {}
  <2> SUFFICES ASSUME NEW d \in Challenge, challenge[d].account = a PROVE FALSE
    BY DEF Issued
  <2>1. challenge[d].state # "free"
    BY NoneAssumption DEF RowsInv, ChallengeInv, ChallengeRefs
  <2> QED BY <2>1 DEF RowsInv, ChallengeInv, ChallengeRefs
<1>2. Ended(challenge, a)
  BY DEF RowsInv, TypeOK, Ended
<1> QED BY <1>1, <1>2, CodeIssued

LEMMA CodeSteps ==
  ASSUME RowsInv, [Next]_vars
  PROVE  \/ \A c \in Challenge : KeptCode(c)
         \/ \E a \in Account, c \in Challenge : IssuedCode(a, c) /\ \A d \in Challenge \ {c} : KeptCode(d)
<1> DEFINE Step == \/ \A c \in Challenge : KeptCode(c)
                   \/ \E a \in Account, c \in Challenge :
                        IssuedCode(a, c) /\ \A d \in Challenge \ {c} : KeptCode(d)
<1>1. challenge \in [Challenge -> ChallengeRow]
  BY DEF RowsInv, TypeOK
<1>2. CASE UNCHANGED challenge
  BY <1>2 DEF KeptCode
<1>3. ASSUME NEW e \in Email, NEW a \in Account, NEW s \in Session, NEW c \in Challenge, Signup(e, a, s, c)
      PROVE  Step
  BY <1>3, FirstCode DEF Signup, FreeRows
<1>4. ASSUME NEW e \in Email, NEW a \in Account, NEW s \in Session, NEW c \in Challenge, NEW i \in Identity,
             NEW v \in BOOLEAN, ProviderSignup(i, e, v, a, s, c)
      PROVE  Step
  BY <1>2, <1>4, FirstCode DEF ProviderSignup, FreeRows
<1>5. ASSUME NEW c \in Challenge, NEW s \in Session, RequestVerificationCode(s, c) PROVE Step
  <2> DEFINE a == session[s].account
  <2>1. a \in Account
    BY <1>5 DEF RequestVerificationCode, ActiveSession, RowsInv, SessionInv, SessionRefs
  <2>2. Ended(ReplaceCurrentChallenge(a, "verify-email"), a)
    BY <2>1, Replace DEF RowsInv, Purpose
  <2> QED BY <1>5, <2>1, <2>2, CodeIssued DEF RequestVerificationCode
<1>6. ASSUME NEW c \in Challenge, NEW a \in Account, NEW e \in Email, RequestClaimCode(a, e, c) PROVE Step
  <2>1. Ended(ReplaceCurrentChallenge(a, "claim-account"), a)
    BY Replace DEF RowsInv, Purpose
  <2> QED BY <1>6, <2>1, CodeIssued DEF RequestClaimCode
<1>7. ASSUME NEW c \in Challenge, NEW a \in Account, NEW e \in Email, RequestPasswordResetCode(a, e, c) PROVE Step
  <2>1. Ended(ReplacePasswordResetChallenge(a), a)
    BY ReplaceReset DEF RowsInv
  <2> QED BY <1>7, <2>1, CodeIssued DEF RequestPasswordResetCode
<1>8. ASSUME NEW c \in Challenge, MaySubmit(c)
      PROVE  challenge[c].state = "current" /\ challenge[c].account \in Account
  BY <1>8 DEF MaySubmit, RowsInv, ChallengeInv, ChallengeRefs
<1>9. ASSUME NEW c \in Challenge, WrongGuess(c) \/ VerifyEmail(c) PROVE Step
  <2>1. \A d \in Challenge : KeptCode(d)
    BY <1>1, <1>8, <1>9 DEF WrongGuess, VerifyEmail, KeptCode, ChallengeRow
  <2> QED BY <2>1
<1>10. ASSUME NEW c \in Challenge, NEW b \in Account, NEW s \in Session, ClaimUnverifiedAccount(c, b, s) PROVE Step
  <2> DEFINE after == RevokeAccountChallenges(challenge[c].account)
  <2>1. challenge[c].state = "current" /\ challenge[c].account \in Account
    BY <1>8, <1>10 DEF ClaimUnverifiedAccount
  <2>2. Ended(after, challenge[c].account)
    BY <2>1, RevokeChallenges DEF RowsInv
  <2>3. challenge' = [after EXCEPT ![c].state = "consumed"]
    BY <1>10 DEF ClaimUnverifiedAccount
  <2> HIDE DEF after
  <2>4. \A d \in Challenge : KeptCode(d)
    BY <2>1, <2>2, <2>3 DEF Ended, KeptCode, ChallengeRow
  <2> QED BY <2>4
<1>11. ASSUME NEW c \in Challenge, ResetPassword(c) PROVE Step
  <2> DEFINE after == ReplacePasswordResetChallenge(challenge[c].account)
             row == [challenge[c] EXCEPT !.state = "consumed", !.material = FALSE]
  <2>1. challenge[c].state = "current" /\ challenge[c].account \in Account
    BY <1>8, <1>11 DEF ResetPassword
  <2>2. Ended(after, challenge[c].account)
    BY <2>1, ReplaceReset DEF RowsInv
  <2>3. challenge' = [after EXCEPT ![c] = row]
    BY <1>11 DEF ResetPassword
  <2>4. row.account = challenge[c].account /\ row.issuedAt = challenge[c].issuedAt
    BY <1>1 DEF ChallengeRow
  <2> HIDE DEF after, row
  <2>5. \A d \in Challenge : KeptCode(d)
    BY <2>1, <2>2, <2>3, <2>4 DEF Ended, KeptCode
  <2> QED BY <2>5
<1>12. ASSUME NEW c \in Challenge, DropMaterial(c) PROVE Step
  <2>1. \A d \in Challenge : KeptCode(d)
    BY <1>1, <1>12 DEF DropMaterial, KeptCode, ChallengeRow
  <2> QED BY <2>1
<1>13. CASE Tick \/ Logins \/ SessionSteps \/ UNCHANGED vars \/ \E c \in Challenge : SendNotice(c)
  BY <1>2, <1>13 DEF Tick, Logins, FindPasswordAccount, IssueLoginSession, FailLogin, SessionSteps, ProviderLogin,
    SessionLapses, LogoutCurrentSession, LogoutAllSessions, RevokeReplayedSession, SendNotice, vars
<1>14. CASE Creations
  BY <1>3, <1>4, <1>14 DEF Creations
<1>15. CASE CodeRequests
  BY <1>5, <1>6, <1>7, <1>15 DEF CodeRequests
<1>16. CASE Submissions
  BY <1>9, <1>10, <1>11, <1>16 DEF Submissions
<1> QED BY <1>12, <1>13, <1>14, <1>15, <1>16 DEF Next, WorkerSteps

\* The codes of account a that were issued in the hour that ends at t.
IssuedIn(a, t) == {c \in Issued(a) : challenge[c].issuedAt \in (t - IssueWindow + 1)..t}

\* The two parts of IssueBudget, and what they count.
BudgetOf(a, clock) ==
  /\ IsFiniteSet(Issued(a))
  /\ \A t \in 0..clock : Cardinality(IssuedIn(a, t)) <= MaxIssues
  /\ \A c, d \in Issued(a) :
       c = d \/ challenge[c].issuedAt + CodeInterval <= challenge[d].issuedAt
             \/ challenge[d].issuedAt + CodeInterval <= challenge[c].issuedAt

LEMMA BudgetParts ==
  CodesArePast /\ IssueBudget <=>
    (\A c \in Challenge : challenge[c].issuedAt <= now) /\ \A a \in Account : BudgetOf(a, now)
  BY DEF CodesArePast, IssueBudget, BudgetOf, IssuedIn

LEMMA Numbers ==
  ASSUME RowsInv
  PROVE  /\ now \in Nat /\ \A c \in Challenge : challenge[c].issuedAt \in Nat
         /\ IssueWindow \in Nat /\ IssueWindow >= 1 /\ CodeInterval \in Nat /\ CodeInterval <= IssueWindow
         /\ MaxIssues \in Nat /\ MaxIssues >= 1
  BY LimitsAssumption DEF RowsInv, TypeOK, ChallengeRow

\* Time alone takes codes out of the hour and puts none in.
LEMMA BudgetPasses ==
  ASSUME RowsInv, CodesArePast, NEW a \in Account, BudgetOf(a, now), now' = now \/ now' = now + 1,
         Issued(a)' = Issued(a), \A c \in Issued(a) : challenge'[c].issuedAt = challenge[c].issuedAt
  PROVE  BudgetOf(a, now)'
<1>1. \A c \in Issued(a) : challenge[c].issuedAt <= now /\ challenge[c].issuedAt \in Nat
  BY Numbers DEF CodesArePast, Issued
<1>2. ASSUME NEW t \in 0..now' PROVE Cardinality(IssuedIn(a, t)') <= MaxIssues
  <2>1. IssuedIn(a, t)' = IssuedIn(a, t)
    BY DEF IssuedIn
  <2>2. CASE t \in 0..now
    BY <2>1, <2>2 DEF BudgetOf
  <2>3. CASE t = now + 1
    <3>1. IssuedIn(a, t) \subseteq IssuedIn(a, now)
      BY <1>1, <2>3, Numbers DEF IssuedIn
    <3>2. IsFiniteSet(IssuedIn(a, now)) /\ IssuedIn(a, now) \subseteq Issued(a)
      BY FS_Subset DEF IssuedIn, BudgetOf
    <3>3. Cardinality(IssuedIn(a, t)) <= Cardinality(IssuedIn(a, now)) /\ IsFiniteSet(IssuedIn(a, t))
      BY <3>1, <3>2, FS_Subset
    <3>4. Cardinality(IssuedIn(a, t)) \in Nat /\ Cardinality(IssuedIn(a, now)) \in Nat
      BY <3>2, <3>3, FS_CardinalityType
    <3>5. Cardinality(IssuedIn(a, now)) <= MaxIssues
      BY Numbers DEF BudgetOf
    <3>6. Cardinality(IssuedIn(a, t)) <= MaxIssues
      BY <3>3, <3>4, <3>5, Numbers
    <3> QED BY <2>1, <3>6
  <2> QED BY <1>2, <2>2, <2>3, Numbers
<1>3. IsFiniteSet(Issued(a)') /\ MaxIssues' = MaxIssues
  BY DEF BudgetOf
<1>4. \A c, d \in Issued(a)' :
        c = d \/ challenge'[c].issuedAt + CodeInterval <= challenge'[d].issuedAt
              \/ challenge'[d].issuedAt + CodeInterval <= challenge'[c].issuedAt
  BY DEF BudgetOf
<1> QED BY <1>2, <1>3, <1>4 DEF BudgetOf

\* A code that CanIssueCode allows is the only new one of the hour that ends now.
LEMMA BudgetGrows ==
  ASSUME RowsInv, CodesArePast, NEW a \in Account, BudgetOf(a, now), NEW c \in Challenge, IssuedCode(a, c),
         \A d \in Challenge \ {c} : KeptCode(d)
  PROVE  BudgetOf(a, now)'
<1>1. c \notin Issued(a) /\ Issued(a)' = Issued(a) \cup {c}
  BY NoneAssumption DEF Issued, IssuedCode, KeptCode
<1>2. /\ challenge'[c].issuedAt = now /\ now' = now
      /\ \A d \in Issued(a) : challenge'[d].issuedAt = challenge[d].issuedAt
  BY <1>1 DEF IssuedCode, KeptCode, Issued
<1>3. \A d \in Issued(a) : challenge[d].issuedAt <= now /\ challenge[d].issuedAt \in Nat
  BY Numbers DEF CodesArePast, Issued
<1>4. IsFiniteSet(Issued(a)')
  BY <1>1, FS_AddElement DEF BudgetOf
<1>5. IsFiniteSet(IssuedIn(a, now)) /\ Cardinality(IssuedIn(a, now)) \in Nat
  <2>1. IssuedIn(a, now) \subseteq Issued(a)
    BY DEF IssuedIn
  <2> QED BY <2>1, FS_Subset, FS_CardinalityType DEF BudgetOf
<1>6. /\ Cardinality(IssuedIn(a, now)) < MaxIssues
      /\ \A d \in Issued(a) : challenge[d].issuedAt + CodeInterval <= now
  <2>1. CASE CanIssueCode(a)
    <3>1. IssuedIn(a, now) = {d \in Issued(a) : challenge[d].issuedAt > now - IssueWindow}
      BY <1>3, Numbers DEF IssuedIn
    <3>2. /\ Cardinality(IssuedIn(a, now)) < MaxIssues
          /\ \A d \in IssuedIn(a, now) : challenge[d].issuedAt <= now - CodeInterval
      BY <2>1, <3>1 DEF CanIssueCode
    <3>3. ASSUME NEW d \in Issued(a) PROVE challenge[d].issuedAt + CodeInterval <= now
      <4>1. CASE challenge[d].issuedAt > now - IssueWindow
        <5>1. challenge[d].issuedAt <= now - CodeInterval
          BY <3>1, <3>2, <4>1
        <5> QED BY <1>3, <5>1, Numbers
      <4>2. CASE ~(challenge[d].issuedAt > now - IssueWindow)
        BY <1>3, <4>2, Numbers
      <4> QED BY <4>1, <4>2
    <3> QED BY <3>2, <3>3
  <2>2. CASE Issued(a) = {}
    <3>1. IssuedIn(a, now) = {}
      BY <2>2 DEF IssuedIn
    <3>2. Cardinality(IssuedIn(a, now)) = 0
      BY <3>1, FS_EmptySet
    <3> QED BY <2>2, <3>2, Numbers
  <2> QED BY <2>1, <2>2 DEF IssuedCode
<1>7. ASSUME NEW t \in 0..now PROVE Cardinality(IssuedIn(a, t)') <= MaxIssues
  <2>1. CASE t = now
    <3>1. IssuedIn(a, t)' = IssuedIn(a, now) \cup {c}
      BY <1>1, <1>2, <2>1, Numbers DEF IssuedIn
    <3>2. Cardinality(IssuedIn(a, now) \cup {c}) <= Cardinality(IssuedIn(a, now)) + 1
      BY <1>5, FS_AddElement
    <3>3. Cardinality(IssuedIn(a, now)) + 1 <= MaxIssues
      BY <1>5, <1>6, Numbers
    <3>4. Cardinality(IssuedIn(a, now) \cup {c}) \in Nat
      BY <1>5, FS_AddElement, FS_CardinalityType
    <3>5. Cardinality(IssuedIn(a, now) \cup {c}) <= MaxIssues
      BY <1>5, <3>2, <3>3, <3>4, Numbers
    <3> QED BY <3>1, <3>5
  <2>2. CASE t # now
    <3>1. now \notin (t - IssueWindow + 1)..t
      BY <2>2, Numbers
    <3>2. IssuedIn(a, t)' = IssuedIn(a, t)
      BY <1>1, <1>2, <3>1 DEF IssuedIn
    <3> QED BY <3>2 DEF BudgetOf
  <2> QED BY <2>1, <2>2
<1>8. \A d, e \in Issued(a)' :
        d = e \/ challenge'[d].issuedAt + CodeInterval <= challenge'[e].issuedAt
              \/ challenge'[e].issuedAt + CodeInterval <= challenge'[d].issuedAt
  BY <1>1, <1>2, <1>6 DEF BudgetOf
<1> QED BY <1>2, <1>4, <1>7, <1>8 DEF BudgetOf

\* The clock is the clock of the database: it does not go back.
LEMMA ClockSteps == ASSUME [Next]_vars PROVE now' = now \/ now' = now + 1
<1>1. CASE Tick \/ UNCHANGED vars
  BY <1>1 DEF Tick, vars
<1>2. CASE Logins
  BY <1>2 DEF Logins, FindPasswordAccount, IssueLoginSession, FailLogin
<1>3. CASE Creations
  <2>1. ASSUME NEW e \in Email, NEW a \in Account, NEW s \in Session, NEW c \in Challenge, Signup(e, a, s, c)
        PROVE  now' = now
    BY <2>1 DEF Signup
  <2>2. ASSUME NEW e \in Email, NEW a \in Account, NEW s \in Session, NEW c \in Challenge, NEW i \in Identity,
               NEW v \in BOOLEAN, ProviderSignup(i, e, v, a, s, c)
        PROVE  now' = now
    BY <2>2 DEF ProviderSignup
  <2> QED BY <1>3, <2>1, <2>2 DEF Creations
<1>4. CASE CodeRequests
  BY <1>4 DEF CodeRequests, RequestVerificationCode, RequestClaimCode, RequestPasswordResetCode
<1>5. CASE Submissions
  BY <1>5 DEF Submissions, WrongGuess, VerifyEmail, ClaimUnverifiedAccount, ResetPassword
<1>6. CASE SessionSteps \/ WorkerSteps
  BY <1>6 DEF SessionSteps, ProviderLogin, SessionLapses, LogoutCurrentSession, LogoutAllSessions,
    RevokeReplayedSession, WorkerSteps, DropMaterial, SendNotice
<1> QED BY <1>1, <1>2, <1>3, <1>4, <1>5, <1>6 DEF Next

LEMMA BudgetKept ==
  ASSUME AccountsInv, [Next]_vars
  PROVE  CodesArePast' /\ IssueBudget'
<1>0. RowsInv /\ CodesArePast
  BY DEF AccountsInv
<1>1. (\A c \in Challenge : challenge[c].issuedAt <= now) /\ \A a \in Account : BudgetOf(a, now)
  BY BudgetParts DEF AccountsInv
<1>2. now' >= now /\ now' \in Nat
  BY <1>0, ClockSteps, Numbers
<1>3. CASE \A c \in Challenge : KeptCode(c)
  <2>1. \A c \in Challenge : challenge'[c].issuedAt <= now'
    BY <1>0, <1>1, <1>2, <1>3, Numbers DEF KeptCode
  <2>2. ASSUME NEW a \in Account PROVE BudgetOf(a, now)'
    <3>1. Issued(a)' = Issued(a)
      BY <1>3 DEF Issued, KeptCode
    <3>2. \A c \in Issued(a) : challenge'[c].issuedAt = challenge[c].issuedAt
      BY <1>3 DEF Issued, KeptCode
    <3> QED BY <1>0, <1>1, <3>1, <3>2, ClockSteps, BudgetPasses
  <2> QED BY <2>1, <2>2 DEF CodesArePast, IssueBudget, BudgetOf, IssuedIn
<1>4. CASE \E a \in Account, c \in Challenge : IssuedCode(a, c) /\ \A d \in Challenge \ {c} : KeptCode(d)
  <2>1. PICK a \in Account, c \in Challenge : IssuedCode(a, c) /\ \A d \in Challenge \ {c} : KeptCode(d)
    BY <1>4
  <2>2. \A d \in Challenge : challenge'[d].issuedAt <= now'
    BY <1>0, <1>1, <1>2, <2>1, Numbers DEF KeptCode, IssuedCode
  <2>3. ASSUME NEW b \in Account, b # a PROVE BudgetOf(b, now)'
    <3>1. Issued(b)' = Issued(b) /\ c \notin Issued(b)
      BY <2>1, <2>3, NoneAssumption DEF Issued, KeptCode, IssuedCode
    <3>2. \A d \in Issued(b) : challenge'[d].issuedAt = challenge[d].issuedAt
      BY <2>1, <3>1 DEF Issued, KeptCode
    <3> QED BY <1>0, <1>1, <3>1, <3>2, ClockSteps, BudgetPasses
  <2>4. BudgetOf(a, now)'
    BY <1>0, <1>1, <2>1, BudgetGrows
  <2>5. \A b \in Account : BudgetOf(b, now)'
    BY <2>3, <2>4
  <2> QED BY <2>2, <2>5 DEF CodesArePast, IssueBudget, BudgetOf, IssuedIn
<1> QED BY <1>0, <1>3, <1>4, CodeSteps

-----------------------------------------------------------------------------
(* The theorems.                                                           *)

\* The empty database satisfies the inductive invariant.
LEMMA InitIInv == Init => AccountsInv
<1> SUFFICES ASSUME Init PROVE AccountsInv
  OBVIOUS
<1>1. TypeOK
  BY LimitsAssumption
     DEF Init, TypeOK, AccountRow, SessionRow, ChallengeRow, LoginState, FreeAccount, FreeSession,
         FreeChallenge, IdleLogin, NoHash
<1>2. OwnerInv /\ SessionInv
  BY DEF Init, OwnerInv, AccountRefs, OneOwnerPerEmail, SessionInv, SessionRefs,
         SessionMatchesCredential, Active, FreeAccount, FreeSession, IdleLogin
<1>3. ChallengeInv
  BY DEF Init, ChallengeInv, ChallengeRefs, SpentResetHasNoMaterial, OneCurrentCode, Current,
         FreeChallenge
<1>4. CodesArePast /\ IssueBudget
  <2>1. \A a \in Account : Issued(a) = {}
    BY NoneAssumption DEF Init, Issued, FreeChallenge
  <2>2. \A c \in Challenge : challenge[c].issuedAt <= now
    BY DEF Init, FreeChallenge
  <2>3. ASSUME NEW a \in Account PROVE BudgetOf(a, now)
    <3>1. \A t \in 0..now : IssuedIn(a, t) = {}
      BY <2>1 DEF IssuedIn
    <3>2. \A t \in 0..now : Cardinality(IssuedIn(a, t)) <= MaxIssues
      BY <3>1, FS_EmptySet, LimitsAssumption
    <3> QED BY <2>1, <3>2, FS_EmptySet DEF BudgetOf
  <2> QED BY <2>2, <2>3, BudgetParts
<1> QED BY <1>1, <1>2, <1>3, <1>4 DEF AccountsInv, RowsInv

\* The inductive invariant holds in every reachable state of the Identity database.
THEOREM Invariance == Spec => []AccountsInv
<1>1. AccountsInv /\ [Next]_vars => AccountsInv'
  BY Inductive, BudgetKept DEF AccountsInv
<1> QED BY <1>1, InitIInv, PTL DEF Spec

\* Every row stays a row of its table (the columns and CHECKs of 00001_create_identity.sql).
THEOREM TypeCorrect == Spec => []TypeOK
<1>1. AccountsInv => TypeOK
  BY DEF AccountsInv, RowsInv
<1> QED BY <1>1, Invariance, PTL

\* No session outlives the password that it was issued under: a login that
\* raced a reset is refused by the re-check under the account lock.
THEOREM CredentialSafety == Spec => []SessionMatchesCredential
<1>1. AccountsInv => SessionMatchesCredential
  BY DEF AccountsInv, RowsInv, SessionInv
<1> QED BY <1>1, Invariance, PTL

\* A subject that a claim retired has no open session and no usable code.
THEOREM RetiredSafety == Spec => []RetiredIsInert
<1>1. AccountsInv => RetiredIsInert
  BY NoneAssumption
     DEF AccountsInv, RowsInv, TypeOK, SessionInv, ChallengeInv, RetiredIsInert, SessionRefs, ChallengeRefs,
         Issued, SessionRow
<1> QED BY <1>1, Invariance, PTL

\* An email has at most one active subject.
THEOREM EmailSafety == Spec => []OneOwnerPerEmail
<1>1. AccountsInv => OneOwnerPerEmail
  BY DEF AccountsInv, RowsInv, OwnerInv
<1> QED BY <1>1, Invariance, PTL

\* At most one code per account and purpose is current, and spent reset codes
\* have no stored material.
THEOREM CodeSafety == Spec => [](OneCurrentCode /\ SpentResetHasNoMaterial)
<1>1. AccountsInv => OneCurrentCode /\ SpentResetHasNoMaterial
  BY DEF AccountsInv, RowsInv, ChallengeInv
<1> QED BY <1>1, Invariance, PTL

\* Whatever purposes its codes have and whoever asks for them, no account gets more
\* than MaxIssues in an hour, or two within a minute.
THEOREM IssuesAreLimited == Spec => []IssueBudget
<1>1. AccountsInv => IssueBudget
  BY DEF AccountsInv
<1> QED BY <1>1, Invariance, PTL

-----------------------------------------------------------------------------
(* Action properties.                                                      *)

\* The five operations that write accounts; every other step leaves them alone.
LEMMA AccountWriters ==
  ASSUME [Next]_vars
  PROVE  \/ UNCHANGED account
         \/ \E e \in Email, a \in Account, s \in Session, c \in Challenge : Signup(e, a, s, c)
         \/ \E e \in Email, a \in Account, s \in Session, c \in Challenge, i \in Identity,
               v \in BOOLEAN : ProviderSignup(i, e, v, a, s, c)
         \/ \E c \in Challenge : VerifyEmail(c)
         \/ \E c \in Challenge, b \in Account, s \in Session : ClaimUnverifiedAccount(c, b, s)
         \/ \E c \in Challenge : ResetPassword(c)
<1>1. CASE UNCHANGED vars \/ Tick
  BY <1>1 DEF vars, Tick
<1>2. CASE Logins
  BY <1>2 DEF Logins, FindPasswordAccount, IssueLoginSession, FailLogin
<1>3. CASE Creations
  BY <1>3 DEF Creations
<1>4. CASE CodeRequests
  BY <1>4 DEF CodeRequests, RequestVerificationCode, RequestClaimCode, RequestPasswordResetCode
<1>5. CASE Submissions
  BY <1>5 DEF Submissions, WrongGuess
<1>6. CASE SessionSteps
  BY <1>6 DEF SessionSteps, ProviderLogin, SessionLapses, LogoutCurrentSession,
              LogoutAllSessions, RevokeReplayedSession
<1>7. CASE WorkerSteps
  BY <1>7 DEF WorkerSteps, DropMaterial, SendNotice
<1> QED BY <1>1, <1>2, <1>3, <1>4, <1>5, <1>6, <1>7 DEF Next

\* A verified account stays active, verified and on its email: the claim path
\* never takes it, whatever ran between the request and the submission.
THEOREM VerificationWins == Spec => VerifiedIsPermanent
<1> DEFINE Keeps(x) == account[x].verified => /\ account'[x].verified
                                              /\ account'[x].state = "active"
                                              /\ account'[x].email = account[x].email
<1>1. ASSUME AccountsInv, [Next]_vars, NEW x \in Account PROVE Keeps(x)
  <2> USE <1>1 DEF AccountsInv, RowsInv, TypeOK, AccountRow, OwnerInv, AccountRefs, Active
  <2>1. CASE UNCHANGED account
    BY <2>1
  <2>2. ASSUME NEW e \in Email, NEW a \in Account, NEW s \in Session, NEW c \in Challenge,
               Signup(e, a, s, c)
        PROVE  Keeps(x)
    BY <2>2 DEF Signup, FreeRows
  <2>3. ASSUME NEW e \in Email, NEW a \in Account, NEW s \in Session, NEW c \in Challenge,
               NEW i \in Identity, NEW v \in BOOLEAN, ProviderSignup(i, e, v, a, s, c)
        PROVE  Keeps(x)
    BY <2>3 DEF ProviderSignup, FreeRows
  <2>4. ASSUME NEW c \in Challenge, VerifyEmail(c) PROVE Keeps(x)
    BY <2>4 DEF VerifyEmail
  <2>5. ASSUME NEW c \in Challenge, NEW b \in Account, NEW s \in Session,
               ClaimUnverifiedAccount(c, b, s)
        PROVE  Keeps(x)
    BY <2>5 DEF ClaimUnverifiedAccount, MaySubmit, FreeRows
  <2>6. ASSUME NEW c \in Challenge, ResetPassword(c) PROVE Keeps(x)
    BY <2>6 DEF ResetPassword
  <2> QED BY <2>1, <2>2, <2>3, <2>4, <2>5, <2>6, AccountWriters
<1>2. AccountsInv /\ [Next]_vars =>
        [\A a \in Account : account[a].verified =>
           /\ account'[a].verified
           /\ account'[a].state = "active"
           /\ account'[a].email = account[a].email]_vars
  BY <1>1
<1> QED BY <1>2, Invariance, PTL DEF Spec, VerifiedIsPermanent

\* A password changes only in a reset that spends a code, queues the notice
\* and revokes every session of the account.
THEOREM ResetIsComplete == Spec => PasswordChangeIsComplete
<1> DEFINE Complete(a) ==
      account[a].state = "active" /\ account'[a].hash # account[a].hash =>
       /\ \E c \in Issued(a) : challenge[c].state = "current" /\ challenge'[c].state = "consumed"
                               /\ challenge[c].purpose = "password-reset" /\ c \in notice'
       /\ \A s \in Session : session[s].account = a => session'[s].state = "revoked"
<1>1. ASSUME AccountsInv, [Next]_vars, NEW x \in Account PROVE Complete(x)
  <2> USE <1>1 DEF AccountsInv, RowsInv, TypeOK, AccountRow
  <2>1. CASE UNCHANGED account
    BY <2>1
  <2>2. ASSUME NEW e \in Email, NEW a \in Account, NEW s \in Session, NEW c \in Challenge,
               Signup(e, a, s, c)
        PROVE  Complete(x)
    BY <2>2 DEF Signup, FreeRows
  <2>3. ASSUME NEW e \in Email, NEW a \in Account, NEW s \in Session, NEW c \in Challenge,
               NEW i \in Identity, NEW v \in BOOLEAN, ProviderSignup(i, e, v, a, s, c)
        PROVE  Complete(x)
    BY <2>3 DEF ProviderSignup, FreeRows
  <2>4. ASSUME NEW c \in Challenge, VerifyEmail(c) PROVE Complete(x)
    BY <2>4 DEF VerifyEmail
  <2>5. ASSUME NEW c \in Challenge, NEW b \in Account, NEW s \in Session,
               ClaimUnverifiedAccount(c, b, s)
        PROVE  Complete(x)
    BY <2>5 DEF ClaimUnverifiedAccount, FreeRows
  <2>6. ASSUME NEW c \in Challenge, ResetPassword(c) PROVE Complete(x)
    <3> DEFINE a == challenge[c].account
    <3>1. /\ a \in Account /\ challenge[c].state = "current"
          /\ challenge[c].purpose = "password-reset"
      BY <2>6 DEF ResetPassword, MaySubmit, ChallengeInv, ChallengeRefs
    <3>2. CASE x # a
      BY <2>6, <3>2 DEF ResetPassword
    <3>3. CASE x = a
      <4>1. c \in Issued(a) /\ challenge'[c].state = "consumed" /\ c \in notice'
        <5>1. ReplacePasswordResetChallenge(a) \in [Challenge -> ChallengeRow]
          BY <3>1, ReplaceReset DEF Ended
        <5> QED BY <2>6, <3>1, <5>1 DEF ResetPassword, Issued, ChallengeRow
      <4>2. ASSUME NEW s \in Session, session[s].account = a PROVE session'[s].state = "revoked"
        <5>1. session[s].state \in {"live", "lapsed", "revoked"}
          BY <3>1, <4>2, NoneAssumption DEF SessionInv, SessionRefs, SessionRow
        <5> QED BY <2>6, <3>1, <4>2, <5>1, RevokeSessions DEF ResetPassword
      <4> QED BY <3>1, <3>3, <4>1, <4>2
    <3> QED BY <3>2, <3>3
  <2> QED BY <2>1, <2>2, <2>3, <2>4, <2>5, <2>6, AccountWriters
<1>2. AccountsInv /\ [Next]_vars =>
        [\A a \in Account : account[a].state = "active" /\ account'[a].hash # account[a].hash =>
           /\ \E c \in Issued(a) : challenge[c].state = "current" /\ challenge'[c].state = "consumed"
                                   /\ challenge[c].purpose = "password-reset" /\ c \in notice'
           /\ \A s \in Session : session[s].account = a => session'[s].state = "revoked"]_vars
  BY <1>1
<1> QED BY <1>2, Invariance, PTL DEF Spec, PasswordChangeIsComplete

\* An account is verified only when a provider vouches for its email, or in the step
\* that consumes an open code which was sent to that email.
THEOREM MailboxIsProved == Spec => VerifiedByMailbox
<1> DEFINE Proved(a) ==
      account'[a].verified /\ ~account[a].verified =>
       \/ \E i \in Identity : link[i] = None /\ link'[i] = a
       \/ \E c \in Challenge :
            /\ challenge[c].state = "current" /\ challenge'[c].state = "consumed"
            /\ challenge[c].purpose \in {"verify-email", "claim-account"}
            /\ challenge[c].email = account'[a].email
            /\ challenge[c].guesses < MaxGuesses
            /\ now < challenge[c].issuedAt + CodeLifetime
<1>1. ASSUME AccountsInv, [Next]_vars, NEW x \in Account PROVE Proved(x)
  <2>1. /\ account \in [Account -> AccountRow] /\ challenge \in [Challenge -> ChallengeRow]
        /\ link \in [Identity -> Account \cup {None}]
    BY <1>1 DEF AccountsInv, RowsInv, TypeOK
  <2>2. CASE UNCHANGED account
    BY <2>2
  <2>3. ASSUME NEW e \in Email, NEW a \in Account, NEW s \in Session, NEW c \in Challenge,
               Signup(e, a, s, c)
        PROVE  Proved(x)
    BY <2>1, <2>3 DEF Signup, NewAccount
  <2>4. ASSUME NEW e \in Email, NEW a \in Account, NEW s \in Session, NEW c \in Challenge,
               NEW i \in Identity, NEW v \in BOOLEAN, ProviderSignup(i, e, v, a, s, c)
        PROVE  Proved(x)
    BY <2>1, <2>4 DEF ProviderSignup
  <2>5. ASSUME NEW c \in Challenge, MaySubmit(c)
        PROVE  /\ challenge[c].state = "current" /\ challenge[c].account \in Account
               /\ challenge[c].email = account[challenge[c].account].email
               /\ challenge[c].guesses < MaxGuesses /\ now < challenge[c].issuedAt + CodeLifetime
    BY <1>1, <2>5 DEF MaySubmit, Open, AccountsInv, RowsInv, ChallengeInv, ChallengeRefs
  <2>6. ASSUME NEW c \in Challenge, VerifyEmail(c) PROVE Proved(x)
    <3> DEFINE a == challenge[c].account
    <3>1. /\ challenge[c].purpose = "verify-email" /\ MaySubmit(c)
          /\ challenge' = [challenge EXCEPT ![c].state = "consumed"]
          /\ account' = [account EXCEPT ![a].verified = TRUE]
      BY <2>6 DEF VerifyEmail
    <3>2. challenge'[c].state = "consumed"
      BY <2>1, <3>1 DEF ChallengeRow
    <3>3. \A b \in Account : account'[b].email = account[b].email /\ (b # a => account'[b] = account[b])
      BY <2>1, <3>1 DEF AccountRow
    <3> QED BY <2>5, <3>1, <3>2, <3>3
  <2>7. ASSUME NEW c \in Challenge, NEW b \in Account, NEW s \in Session,
               ClaimUnverifiedAccount(c, b, s)
        PROVE  Proved(x)
    <3> DEFINE a == challenge[c].account
               after == RevokeAccountChallenges(a)
               row == NewAccount(challenge[c].email, TRUE, nextHash)
    <3>1. /\ challenge[c].purpose = "claim-account" /\ MaySubmit(c)
          /\ challenge' = [after EXCEPT ![c].state = "consumed"]
          /\ account' = [[account EXCEPT ![a].state = "retired"] EXCEPT ![b] = row]
      BY <2>7 DEF ClaimUnverifiedAccount
    <3>2. after \in [Challenge -> ChallengeRow]
      BY <1>1, <2>5, <3>1, RevokeChallenges DEF AccountsInv, RowsInv, Ended
    <3>3. row.email = challenge[c].email
      BY DEF NewAccount
    <3> HIDE DEF after, row
    <3>4. challenge'[c].state = "consumed"
      BY <3>1, <3>2 DEF ChallengeRow
    <3>5. account'[b] = row /\ \A y \in Account \ {b} : account'[y].verified = account[y].verified
      BY <2>1, <3>1 DEF AccountRow
    <3>6. CASE x = b
      <4>1. account'[x].email = challenge[c].email
        BY <3>3, <3>5, <3>6
      <4> QED BY <2>5, <3>1, <3>4, <4>1
    <3>7. CASE x # b
      BY <3>5, <3>7
    <3> QED BY <3>6, <3>7
  <2>8. ASSUME NEW c \in Challenge, ResetPassword(c) PROVE Proved(x)
    BY <2>1, <2>8 DEF ResetPassword, AccountRow
  <2> QED BY <1>1, <2>2, <2>3, <2>4, <2>6, <2>7, <2>8, AccountWriters
<1>2. AccountsInv /\ [Next]_vars =>
        [\A a \in Account : account'[a].verified /\ ~account[a].verified =>
           \/ \E i \in Identity : link[i] = None /\ link'[i] = a
           \/ \E c \in Challenge :
                /\ challenge[c].state = "current" /\ challenge'[c].state = "consumed"
                /\ challenge[c].purpose \in {"verify-email", "claim-account"}
                /\ challenge[c].email = account'[a].email
                /\ challenge[c].guesses < MaxGuesses
                /\ now < challenge[c].issuedAt + CodeLifetime]_vars
  BY <1>1
<1> QED BY <1>2, Invariance, PTL DEF Spec, VerifiedByMailbox

\* A session that has ended stays so, with its account, in a step of any kind.
LEMMA SessionSteady ==
  ASSUME RowsInv, [Next]_vars, NEW s \in Session, session[s].state \in {"lapsed", "revoked"}
  PROVE  session'[s].state \in {"lapsed", "revoked"} /\ session'[s].account = session[s].account
<1> DEFINE Steady == session'[s].state \in {"lapsed", "revoked"} /\ session'[s].account = session[s].account
<1>1. session \in [Session -> SessionRow]
  BY DEF RowsInv, TypeOK
<1>2. CASE UNCHANGED session
  BY <1>2
<1>3. ASSUME NEW a \in Account, NEW r \in Session, NEW row, session[r].state = "free",
             session' = [RevokeAccountSessions(a) EXCEPT ![r] = row]
      PROVE  Steady
  <2>1. /\ RevokeAccountSessions(a) \in [Session -> SessionRow]
        /\ RevokeAccountSessions(a)[s].account = session[s].account
        /\ RevokeAccountSessions(a)[s].state \in {"lapsed", "revoked"}
    BY RevokeSessions DEF RowsInv
  <2>2. session'[s] = RevokeAccountSessions(a)[s]
    BY <1>3, <2>1
  <2> QED BY <2>1, <2>2
<1>4. ASSUME NEW a \in Account, session' = RevokeAccountSessions(a) PROVE Steady
  BY <1>4, RevokeSessions DEF RowsInv
<1>5. CASE Logins
  BY <1>1, <1>5 DEF Logins, FindPasswordAccount, IssueLoginSession, FailLogin
<1>6. CASE Creations
  <2>1. ASSUME NEW r \in Session, NEW row, session[r].state = "free", session' = [session EXCEPT ![r] = row]
        PROVE  Steady
    BY <1>1, <2>1
  <2>2. ASSUME NEW e \in Email, NEW a \in Account, NEW r \in Session, NEW c \in Challenge, Signup(e, a, r, c)
        PROVE  Steady
    BY <2>1, <2>2 DEF Signup, FreeRows
  <2>3. ASSUME NEW e \in Email, NEW a \in Account, NEW r \in Session, NEW c \in Challenge, NEW i \in Identity,
               NEW v \in BOOLEAN, ProviderSignup(i, e, v, a, r, c)
        PROVE  Steady
    BY <2>1, <2>3 DEF ProviderSignup, FreeRows
  <2>4. PICK e \in Email, a \in Account, r \in Session, c \in Challenge :
          Signup(e, a, r, c) \/ \E i \in Identity, v \in BOOLEAN : ProviderSignup(i, e, v, a, r, c)
    BY <1>6 DEF Creations
  <2> QED BY <2>2, <2>3, <2>4
<1>7. ASSUME NEW c \in Challenge, MaySubmit(c) PROVE challenge[c].account \in Account
  BY <1>7 DEF MaySubmit, RowsInv, ChallengeInv, ChallengeRefs
<1>8. CASE Submissions
  <2>1. PICK c \in Challenge :
          \/ WrongGuess(c) \/ VerifyEmail(c) \/ ResetPassword(c)
          \/ \E b \in Account, r \in Session : ClaimUnverifiedAccount(c, b, r)
    BY <1>8 DEF Submissions
  <2>2. CASE WrongGuess(c) \/ VerifyEmail(c)
    BY <1>2, <2>2 DEF WrongGuess, VerifyEmail
  <2>3. CASE ResetPassword(c)
    BY <1>4, <1>7, <2>3 DEF ResetPassword
  <2>4. ASSUME NEW b \in Account, NEW r \in Session, ClaimUnverifiedAccount(c, b, r) PROVE Steady
    <3>1. /\ session[r].state = "free" /\ MaySubmit(c)
          /\ session' = [RevokeAccountSessions(challenge[c].account) EXCEPT ![r] = NewSession(b, nextHash)]
      BY <2>4 DEF ClaimUnverifiedAccount, FreeRows
    <3> QED BY <1>3, <1>7, <3>1
  <2> QED BY <2>1, <2>2, <2>3, <2>4
<1>9. ASSUME NEW r \in Session, LogoutAllSessions(r) PROVE Steady
  <2>1. session[r].account \in Account
    BY <1>9 DEF LogoutAllSessions, ActiveSession, RowsInv, SessionInv, SessionRefs
  <2> QED BY <1>4, <1>9, <2>1 DEF LogoutAllSessions
<1>10. ASSUME NEW r \in Session,
              \/ SessionLapses(r) \/ LogoutCurrentSession(r) \/ RevokeReplayedSession(r)
              \/ \E i \in Identity : ProviderLogin(i, r)
       PROVE  Steady
  BY <1>1, <1>10 DEF SessionLapses, LogoutCurrentSession, RevokeReplayedSession, ProviderLogin, ActiveSession,
    SessionRow
<1>11. CASE Tick \/ CodeRequests \/ WorkerSteps \/ UNCHANGED vars
  BY <1>2, <1>11 DEF Tick, CodeRequests, RequestVerificationCode, RequestClaimCode, RequestPasswordResetCode,
    WorkerSteps, DropMaterial, SendNotice, vars
<1> QED BY <1>5, <1>6, <1>8, <1>9, <1>10, <1>11 DEF Next, SessionSteps

\* What is written of an account is written while it is free or active.
LEMMA RetiredSteady ==
  ASSUME RowsInv, [Next]_vars, NEW a \in Account, account[a].state = "retired"
  PROVE  account'[a] = account[a]
<1>1. account \in [Account -> AccountRow]
  BY DEF RowsInv, TypeOK
<1>2. ASSUME NEW c \in Challenge, MaySubmit(c) PROVE challenge[c].account # a
  BY <1>2 DEF MaySubmit, Active
<1>3. ASSUME NEW e \in Email, NEW b \in Account, NEW s \in Session, NEW c \in Challenge, Signup(e, b, s, c)
      PROVE  account'[a] = account[a]
  BY <1>1, <1>3 DEF Signup, FreeRows
<1>4. ASSUME NEW e \in Email, NEW b \in Account, NEW s \in Session, NEW c \in Challenge, NEW i \in Identity,
             NEW v \in BOOLEAN, ProviderSignup(i, e, v, b, s, c)
      PROVE  account'[a] = account[a]
  BY <1>1, <1>4 DEF ProviderSignup, FreeRows
<1>5. ASSUME NEW c \in Challenge, VerifyEmail(c) \/ ResetPassword(c)
      PROVE  account'[a] = account[a]
  BY <1>1, <1>2, <1>5 DEF VerifyEmail, ResetPassword
<1>6. ASSUME NEW c \in Challenge, NEW b \in Account, NEW s \in Session, ClaimUnverifiedAccount(c, b, s)
      PROVE  account'[a] = account[a]
  BY <1>1, <1>2, <1>6 DEF ClaimUnverifiedAccount, FreeRows
<1> QED BY <1>3, <1>4, <1>5, <1>6, AccountWriters

\* Nothing that ended comes back: no step revives a session, a code or a subject.
THEOREM TheEndIsFinal == Spec => NoRevival
<1>1. ASSUME AccountsInv, [Next]_vars, NEW c \in Challenge, challenge[c].state \in {"replaced", "consumed"}
      PROVE  /\ challenge'[c].state = challenge[c].state
             /\ challenge'[c].material => challenge[c].material
  <2>1. challenge[c].state # "free"
    BY <1>1
  <2> QED BY <1>1, <2>1, CodeSteps DEF AccountsInv, KeptCode, IssuedCode, FreeCode
<1>2. AccountsInv /\ [Next]_vars =>
        [/\ \A s \in Session : session[s].state \in {"lapsed", "revoked"} =>
              session'[s].state \in {"lapsed", "revoked"} /\ session'[s].account = session[s].account
         /\ \A c \in Challenge : challenge[c].state \in {"replaced", "consumed"} =>
              /\ challenge'[c].state = challenge[c].state
              /\ challenge'[c].material => challenge[c].material
         /\ \A a \in Account : account[a].state = "retired" => account'[a] = account[a]]_vars
  BY <1>1, SessionSteady, RetiredSteady DEF AccountsInv
<1> QED BY <1>2, Invariance, PTL DEF Spec, NoRevival

=============================================================================
