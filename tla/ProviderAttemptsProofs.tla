------------------------ MODULE ProviderAttemptsProofs ------------------------
(* Theorems about ProviderAttempts, for every value of its constants.       *)
EXTENDS ProviderAttempts, FiniteSetTheorems, TLAPS

LEMMA InitInv == Init => ProviderInv
<1> SUFFICES ASSUME Init PROVE ProviderInv
  OBVIOUS
<1>1. TypeOK
  BY ConstantsAssumption DEF Init, TypeOK, NoAttempt, NoCallback, NoExchange, AttemptRow, CallbackState,
    ExchangeState, SessionRow
<1>2. CallbacksFit /\ ResultsFit
  BY DEF Init, CallbacksFit, ResultsFit, NoAttempt, NoCallback
<1>3. ExchangesFit
  BY DEF Init, ExchangesFit, PresentedFits, ClaimFits, SpentFits, InsertFits, FoundFits, Exclusion,
    InsertedAccount, InsertedLink, Claiming, Spent, NoExchange
<1>4. SessionsFit /\ AccountsStayLinked
  BY DEF Init, SessionsFit, AccountsStayLinked, ActiveAccount, NoExchange
<1>5. RejectionsCount
  BY DEF Init, RejectionsCount, Counts, Unexpired, NoAttempt
<1> QED BY <1>1, <1>2, <1>3, <1>4, <1>5 DEF ProviderInv

-----------------------------------------------------------------------------
(* What follows from the invariant.                                        *)

\* The row that a claim holds.
LEMMA HeldRow ==
  ASSUME ProviderInv, NEW x \in Exchange, exchange[x].at \in Claiming
  PROVE  /\ exchange[x].attempt \in Attempt /\ ClaimedRow(x) \in AttemptRow
         /\ ClaimedRow(x).code \in Callback /\ ClaimedRow(x).code = exchange[x].code
         /\ ClaimedRow(x).identity \in Identity
         /\ ClaimedRow(x).consumed /\ ClaimedRow(x).state = "stored" /\ ~ClaimedRow(x).claimed
<1>1. exchange[x] \in ExchangeState
  BY DEF ProviderInv, TypeOK
<1>2. exchange[x].at \notin {"idle", "failed"}
  BY DEF Claiming
<1>3. exchange[x].attempt \in Attempt
  BY <1>1, <1>2 DEF ProviderInv, ExchangesFit, PresentedFits, ExchangeState
<1>4. ClaimedRow(x) \in AttemptRow
  BY <1>3 DEF ProviderInv, TypeOK, ClaimedRow
<1>5. ClaimedRow(x).code = exchange[x].code /\ ClaimedRow(x).code # None /\ ~ClaimedRow(x).claimed
  BY DEF ProviderInv, ExchangesFit, ClaimFits
<1>6. ClaimedRow(x).code \in Callback
  BY <1>4, <1>5 DEF AttemptRow
<1>7. /\ ClaimedRow(x).consumed /\ ClaimedRow(x).state = "stored"
      /\ callback[ClaimedRow(x).code].at = "shown"
      /\ ClaimedRow(x).identity = callback[ClaimedRow(x).code].identity
  BY <1>3, <1>5 DEF ProviderInv, ResultsFit, ClaimedRow
<1>8. ClaimedRow(x).identity \in Identity
  BY <1>6, <1>7 DEF ProviderInv, CallbacksFit, TypeOK, CallbackState
<1> QED BY <1>3, <1>4, <1>5, <1>6, <1>7, <1>8

LEMMA AttemptOf ==
  ASSUME ProviderInv, NEW x \in Exchange, exchange[x].at \notin {"idle", "failed"}
  PROVE  /\ exchange[x].attempt \in Attempt
         /\ attempt[exchange[x].attempt] \in AttemptRow
         /\ attempt[exchange[x].attempt].state # "free"
<1>1. exchange[x] \in ExchangeState /\ attempt \in [Attempt -> AttemptRow]
  BY DEF ProviderInv, TypeOK
<1>2. exchange[x].attempt # None /\ attempt[exchange[x].attempt].state # "free"
  BY DEF ProviderInv, ExchangesFit, PresentedFits
<1>3. exchange[x].attempt \in Attempt
  BY <1>1, <1>2 DEF ExchangeState
<1> QED BY <1>1, <1>2, <1>3

\* The attempt of a callback under way.
LEMMA AttemptOfCallback ==
  ASSUME ProviderInv, NEW k \in Callback, callback[k].at \in {"verify", "record", "shown"}
  PROVE  /\ callback[k].attempt \in Attempt
         /\ attempt[callback[k].attempt].consumed \/ attempt[callback[k].attempt].state = "purged"
<1>1. callback[k] \in CallbackState
  BY DEF ProviderInv, TypeOK
<1>2. callback[k].attempt # None
  BY DEF ProviderInv, CallbacksFit
<1>3. callback[k].attempt \in Attempt
  BY <1>1, <1>2 DEF CallbackState
<1> QED BY <1>2, <1>3 DEF ProviderInv, CallbacksFit

-----------------------------------------------------------------------------
(* Steps that leave the exchanges, the accounts and the sessions alone.    *)

\* It is enough that they change no row that a claim holds, and open no attempt again.
LEMMA ExchangesStand ==
  ASSUME ProviderInv, UNCHANGED <<exchange, accounts, session>>, TypeOK', CallbacksFit', ResultsFit',
         \A x \in Exchange : exchange[x].at \in Claiming => attempt'[exchange[x].attempt] = ClaimedRow(x),
         \A k \in Callback : callback[k].at = "shown" =>
           callback'[k].at = "shown" /\ callback'[k].attempt = callback[k].attempt,
         \A a \in Attempt :
           /\ attempt[a].state # "free" => attempt'[a].state # "free"
           /\ attempt[a].state # "free" /\ (attempt[a].claimed \/ attempt[a].state = "purged") =>
                attempt'[a].claimed \/ attempt'[a].state = "purged"
           /\ Counts(a)' => \/ attempt[a].state = "free"
                            \/ Counts(a) /\ attempt'[a].failures = attempt[a].failures
  PROVE  ProviderInv'
<1>0. /\ exchange' = exchange /\ account' = account /\ taken' = taken /\ link' = link
      /\ session' = session
  BY DEF accounts
<1>1. \A x \in Exchange : exchange[x].at \in Claiming => ClaimedRow(x)' = ClaimedRow(x)
  BY <1>0 DEF ClaimedRow
<1>2. \A x \in Exchange : /\ InsertedAccount(x)' = InsertedAccount(x) /\ InsertedLink(x)' = InsertedLink(x)
                          /\ (InsertedAccount(x) \/ InsertedLink(x) => exchange[x].at \in Claiming)
  BY <1>0 DEF InsertedAccount, InsertedLink, Claiming
<1>3. ASSUME NEW x \in Exchange PROVE PresentedFits(x)'
  <2>1. PresentedFits(x)
    BY DEF ProviderInv, ExchangesFit
  <2>2. exchange[x].at \notin {"idle", "failed"} => exchange[x].attempt \in Attempt
    BY AttemptOf
  <2> QED BY <1>0, <2>1, <2>2 DEF PresentedFits
<1>4. ASSUME NEW x \in Exchange PROVE ClaimFits(x)' /\ InsertFits(x)' /\ FoundFits(x)'
  <2>1. ClaimFits(x) /\ InsertFits(x) /\ FoundFits(x)
    BY DEF ProviderInv, ExchangesFit
  <2>2. ClaimFits(x)'
    BY <1>0, <1>1, <2>1 DEF ClaimFits
  <2>3. InsertFits(x)'
    <3>1. \A e : EmailTaken(e)' = EmailTaken(e)
      BY <1>0 DEF EmailTaken, ActiveAccount
    <3>2. exchange[x].at = "createAccount" => exchange[x].at \in Claiming
      BY DEF Claiming
    <3> QED BY <1>0, <1>1, <1>2, <2>1, <3>1, <3>2 DEF InsertFits
  <2>4. FoundFits(x)'
    <3>1. exchange[x].at \in {"commitSession", "openWindow", "commitWindow"} => exchange[x].at \in Claiming
      BY DEF Claiming
    <3> QED BY <1>0, <1>1, <2>1, <3>1 DEF FoundFits, ActiveAccount
  <2> QED BY <2>2, <2>3, <2>4
<1>5. ASSUME NEW x \in Exchange PROVE SpentFits(x)'
  <2>1. SpentFits(x) /\ exchange[x] \in ExchangeState
    BY DEF ProviderInv, ExchangesFit, TypeOK
  <2>2. CASE exchange[x].at \in Spent
    <3>1. exchange[x].attempt \in Attempt /\ attempt[exchange[x].attempt].state # "free"
      BY <2>2, AttemptOf DEF Spent
    <3>2. exchange[x].code \in Callback
      BY <2>1, <2>2 DEF SpentFits, ExchangeState
    <3> QED BY <1>0, <2>1, <2>2, <3>1, <3>2 DEF SpentFits, ClaimedRow
  <2>3. CASE exchange[x].at \notin Spent
    BY <1>0, <2>3 DEF SpentFits
  <2> QED BY <2>2, <2>3
<1>6. ASSUME NEW x \in Exchange, NEW y \in Exchange, x # y PROVE Exclusion(x, y)'
  <2>1. Exclusion(x, y)
    BY <1>6 DEF ProviderInv, ExchangesFit
  <2> QED BY <1>0, <1>1, <1>2, <2>1 DEF Exclusion, HoldsAttempt
<1>7. ExchangesFit'
  BY <1>3, <1>4, <1>5, <1>6 DEF ExchangesFit
<1>8. SessionsFit'
  BY <1>0 DEF ProviderInv, SessionsFit, ActiveAccount
<1>9. RejectionsCount'
  <2> SUFFICES ASSUME NEW a \in Attempt, Counts(a)'
               PROVE  IsFiniteSet(Rejected(a)') /\ Cardinality(Rejected(a)') <= attempt'[a].failures
    BY DEF RejectionsCount
  <2>1. Rejected(a)' = Rejected(a)
    BY <1>0 DEF Rejected
  <2>2. CASE attempt[a].state = "free"
    <3>1. Rejected(a) = {}
      BY <2>2, AttemptOf DEF Rejected
    <3>2. attempt'[a].failures \in Nat
      BY ConstantsAssumption DEF TypeOK, AttemptRow
    <3> QED BY <2>1, <3>1, <3>2, FS_EmptySet
  <2>3. CASE Counts(a) /\ attempt'[a].failures = attempt[a].failures
    BY <2>1, <2>3 DEF ProviderInv, RejectionsCount
  <2> QED BY <2>2, <2>3
<1>10. AccountsStayLinked'
  BY <1>0 DEF ProviderInv, AccountsStayLinked, ActiveAccount
<1> QED BY <1>7, <1>8, <1>9, <1>10 DEF ProviderInv

LEMMA StoreInv == ASSUME ProviderInv, NEW a \in Attempt, NEW s \in Exchange \cup {None}, StoreAttempt(a, s)
                  PROVE  ProviderInv'
<1> DEFINE row == NewAttempt(s)
<1>1. /\ attempt[a].state = "free" /\ attempt' = [attempt EXCEPT ![a] = row]
      /\ UNCHANGED <<callback, exchange, accounts, session, now>>
  BY DEF StoreAttempt
<1>2. /\ row \in AttemptRow /\ row.state = "stored" /\ ~row.consumed /\ row.code = None
      /\ row.failures = 0 /\ ~row.claimed
  <2>1. now + Lifetime \in 0..MaxTime + Lifetime
    BY ConstantsAssumption DEF ProviderInv, TypeOK
  <2>2. 0 \in 0..MaxFailures
    BY ConstantsAssumption
  <2> DEFINE fresh == NoAttempt("stored")
  <2>3. /\ fresh \in AttemptRow /\ fresh.state = "stored" /\ ~fresh.consumed /\ fresh.code = None
        /\ fresh.failures = 0 /\ ~fresh.claimed
    <3>1. 0 \in 0..MaxTime + Lifetime
      BY ConstantsAssumption
    <3> QED BY <2>2, <3>1 DEF NoAttempt, AttemptRow
  <2> HIDE DEF fresh
  <2>4. row = [fresh EXCEPT !.session = s, !.expires = now + Lifetime]
    BY DEF NewAttempt, fresh
  <2> HIDE DEF row
  <2> QED BY <2>1, <2>3, <2>4 DEF AttemptRow
<1> HIDE DEF row
<1>3. attempt'[a] = row /\ \A b \in Attempt : b # a => attempt'[b] = attempt[b]
  BY <1>1 DEF ProviderInv, TypeOK
<1>4. TypeOK'
  BY <1>1, <1>2 DEF ProviderInv, TypeOK, accounts
<1>5. \A k \in Callback : callback[k].attempt # None => callback[k].attempt \in Attempt
                         /\ callback[k].attempt # a
  BY <1>1 DEF ProviderInv, CallbacksFit, ResultsFit, TypeOK, CallbackState
<1>6. CallbacksFit'
  BY <1>1, <1>3, <1>5 DEF ProviderInv, CallbacksFit
<1>7. ResultsFit'
  BY <1>1, <1>2, <1>3 DEF ProviderInv, ResultsFit
<1>8. \A x \in Exchange : exchange[x].at \in Claiming => attempt'[exchange[x].attempt] = ClaimedRow(x)
  BY <1>1, <1>3, HeldRow DEF ClaimedRow
<1>9. ASSUME NEW b \in Attempt
      PROVE  /\ attempt[b].state # "free" => attempt'[b].state # "free"
             /\ attempt[b].state # "free" /\ (attempt[b].claimed \/ attempt[b].state = "purged") =>
                  attempt'[b].claimed \/ attempt'[b].state = "purged"
             /\ Counts(b)' => \/ attempt[b].state = "free"
                              \/ Counts(b) /\ attempt'[b].failures = attempt[b].failures
  <2>1. CASE b = a
    BY <1>1, <1>2, <1>3, <2>1
  <2>2. CASE b # a
    BY <1>1, <1>3, <2>2 DEF Counts, Unexpired
  <2> QED BY <2>1, <2>2
<1> QED BY <1>1, <1>4, <1>6, <1>7, <1>8, <1>9, ExchangesStand

LEMMA ConsumeInv ==
  ASSUME ProviderInv, NEW k \in Callback, NEW a \in Attempt, ConsumeProviderState(k, a)
  PROVE  ProviderInv'
<1> DEFINE row == [attempt[a] EXCEPT !.consumed = TRUE]
           c == [callback[k] EXCEPT !.at = "verify", !.attempt = a]
<1>1. /\ callback[k].at = "idle" /\ attempt[a].state = "stored" /\ ~attempt[a].consumed
      /\ attempt' = [attempt EXCEPT ![a] = row] /\ callback' = [callback EXCEPT ![k] = c]
      /\ UNCHANGED <<exchange, accounts, session, now>>
  BY DEF ConsumeProviderState, Unexpired
<1>2. attempt \in [Attempt -> AttemptRow] /\ callback \in [Callback -> CallbackState]
  BY DEF ProviderInv, TypeOK
<1>3. /\ row \in AttemptRow /\ row.consumed /\ row.state = "stored" /\ row.code = attempt[a].code
      /\ row.identity = attempt[a].identity /\ row.failures = attempt[a].failures
      /\ row.claimed = attempt[a].claimed /\ row.expires = attempt[a].expires
  BY <1>1, <1>2 DEF AttemptRow
<1>4. c \in CallbackState /\ c.at = "verify" /\ c.attempt = a
  BY <1>2 DEF CallbackState
<1> HIDE DEF row, c
<1>5. /\ attempt'[a] = row /\ \A b \in Attempt : b # a => attempt'[b] = attempt[b]
      /\ callback'[k] = c /\ \A j \in Callback : j # k => callback'[j] = callback[j]
  BY <1>1, <1>2
<1>6. TypeOK'
  BY <1>1, <1>3, <1>4 DEF ProviderInv, TypeOK, accounts
<1>7. /\ attempt[a].code = None
      /\ \A j \in Callback : callback[j].attempt # None => callback[j].attempt \in Attempt \ {a}
  BY <1>1, <1>2 DEF ProviderInv, CallbacksFit, ResultsFit, CallbackState
<1>8. None # a /\ None \notin Callback
  BY ConstantsAssumption
<1>9. CallbacksFit'
  BY <1>4, <1>3, <1>5, <1>7, <1>8 DEF ProviderInv, CallbacksFit
<1>10. ResultsFit'
  <2> SUFFICES ASSUME NEW b \in Attempt
               PROVE  /\ attempt'[b].consumed => attempt'[b].state = "stored"
                      /\ attempt'[b].code # None =>
                           /\ attempt'[b].consumed
                           /\ callback'[attempt'[b].code].at = "shown" /\ callback'[attempt'[b].code].attempt = b
                           /\ callback'[attempt'[b].code].identity = attempt'[b].identity
    BY DEF ResultsFit
  <2>1. CASE b = a
    BY <1>3, <1>5, <1>7, <2>1
  <2>2. CASE b # a
    <3>1. attempt'[b] = attempt[b]
      BY <1>5, <2>2
    <3>2. attempt[b].code # None => attempt[b].code \in Callback \ {k}
      BY <1>1, <1>2 DEF ProviderInv, ResultsFit, AttemptRow
    <3> QED BY <1>5, <3>1, <3>2 DEF ProviderInv, ResultsFit
  <2> QED BY <2>1, <2>2
<1>11. \A x \in Exchange : exchange[x].at \in Claiming => attempt'[exchange[x].attempt] = ClaimedRow(x)
  BY <1>1, <1>5, HeldRow DEF ClaimedRow
<1>12. ASSUME NEW b \in Attempt
       PROVE  /\ attempt[b].state # "free" => attempt'[b].state # "free"
              /\ attempt[b].state # "free" /\ (attempt[b].claimed \/ attempt[b].state = "purged") =>
                   attempt'[b].claimed \/ attempt'[b].state = "purged"
              /\ Counts(b)' => \/ attempt[b].state = "free"
                               \/ Counts(b) /\ attempt'[b].failures = attempt[b].failures
  BY <1>1, <1>3, <1>5 DEF Counts, Unexpired
<1>13. \A j \in Callback : callback[j].at = "shown" =>
         callback'[j].at = "shown" /\ callback'[j].attempt = callback[j].attempt
  BY <1>1, <1>5
<1> QED BY <1>1, <1>6, <1>9, <1>10, <1>11, <1>12, <1>13, ExchangesStand

\* A callback goes on, or ends, and stores nothing.
LEMMA CallbackMoves ==
  ASSUME ProviderInv, NEW k \in Callback, NEW c \in CallbackState, callback' = [callback EXCEPT ![k] = c],
         UNCHANGED <<attempt, exchange, accounts, session, now>>, callback[k].at \in {"verify", "record"},
         \/ c.at = "refused" /\ c.attempt = None
         \/ c.at = "record" /\ c.attempt = callback[k].attempt /\ c.identity # None
  PROVE  ProviderInv'
<1>1. attempt \in [Attempt -> AttemptRow] /\ callback \in [Callback -> CallbackState]
  BY DEF ProviderInv, TypeOK
<1>2. callback'[k] = c /\ \A j \in Callback : j # k => callback'[j] = callback[j]
  BY <1>1
<1>3. TypeOK'
  BY DEF ProviderInv, TypeOK, accounts
<1>4. CallbacksFit'
  BY <1>2 DEF ProviderInv, CallbacksFit
<1>5. ResultsFit'
  BY <1>1, <1>2 DEF ProviderInv, ResultsFit, AttemptRow
<1>6. \A a : Counts(a)' = Counts(a)
  BY DEF Counts, Unexpired
<1> QED BY <1>2, <1>3, <1>4, <1>5, <1>6, ExchangesStand DEF ClaimedRow

\* What a provider proves names an identity.
LEMMA ProofsName ==
  ASSUME NEW proof \in Proofs, proof # Refusal
  PROVE  proof.identity \in Identity /\ proof.email \in Email \cup {None}
<1>1. CASE \E answer \in GitHubAnswer : proof = GitHubProof(answer)
  BY <1>1 DEF GitHubAnswer, GitHubProof, UsableEmail
<1>2. CASE \E answer \in GoogleAnswer : proof = GoogleProof(answer)
  BY <1>2, ConstantsAssumption DEF GoogleAnswer, GoogleProof, UsableEmail
<1> QED BY <1>1, <1>2 DEF Proofs

LEMMA RefusedCallback == NoCallback("refused") \in CallbackState /\ NoCallback("refused").at = "refused"
                         /\ NoCallback("refused").attempt = None
  BY DEF NoCallback, CallbackState

LEMMA VerifyInv ==
  ASSUME ProviderInv, NEW k \in Callback, NEW proof \in Proofs, VerifyProviderIdentity(k, proof)
  PROVE  ProviderInv'
<1> DEFINE c == [callback[k] EXCEPT !.at = "record", !.identity = proof.identity, !.email = proof.email]
<1>1. /\ callback[k].at = "verify" /\ proof # Refusal /\ callback' = [callback EXCEPT ![k] = c]
      /\ UNCHANGED <<attempt, exchange, accounts, session, now>>
  BY DEF VerifyProviderIdentity
<1>2. callback[k] \in CallbackState
  BY DEF ProviderInv, TypeOK
<1>3. proof.identity \in Identity /\ proof.email \in Email \cup {None} /\ None \notin Identity
  BY <1>1, ProofsName, ConstantsAssumption
<1>4. c \in CallbackState /\ c.at = "record" /\ c.attempt = callback[k].attempt /\ c.identity # None
  BY <1>2, <1>3 DEF CallbackState
<1> HIDE DEF c
<1> QED BY <1>1, <1>4, CallbackMoves

LEMMA DiesInv == ASSUME ProviderInv, NEW k \in Callback, CallbackDies(k) PROVE ProviderInv'
  BY CallbackMoves, RefusedCallback DEF CallbackDies

LEMMA FailAttemptInv == ASSUME ProviderInv, NEW k \in Callback, FailProviderAttempt(k) PROVE ProviderInv'
<1> DEFINE a == callback[k].attempt
           row == [attempt[a] EXCEPT !.failed = TRUE]
           c == NoCallback("refused")
<1>1. /\ callback[k].at = "verify" /\ callback' = [callback EXCEPT ![k] = c]
      /\ UNCHANGED <<exchange, accounts, session, now>>
  BY DEF FailProviderAttempt
<1>2. CASE UNCHANGED attempt
  BY <1>1, <1>2, CallbackMoves, RefusedCallback
<1>3. CASE attempt[a].state = "stored" /\ attempt[a].code = None /\ attempt' = [attempt EXCEPT ![a] = row]
  <2>1. attempt \in [Attempt -> AttemptRow] /\ callback \in [Callback -> CallbackState]
    BY DEF ProviderInv, TypeOK
  <2>2. a \in Attempt
    BY <1>1, AttemptOfCallback
  <2>3. /\ row \in AttemptRow /\ row.consumed = attempt[a].consumed /\ row.state = "stored" /\ row.code = None
        /\ row.failures = attempt[a].failures /\ row.claimed = attempt[a].claimed
        /\ row.expires = attempt[a].expires
    <3>1. attempt[a] \in AttemptRow
      BY <2>1, <2>2
    <3> HIDE DEF a
    <3> QED BY <1>3, <3>1 DEF AttemptRow
  <2>4. c \in CallbackState /\ c.at = "refused" /\ c.attempt = None
    BY RefusedCallback
  <2> HIDE DEF row, c, a
  <2>5. /\ attempt'[a] = row /\ \A b \in Attempt : b # a => attempt'[b] = attempt[b]
        /\ callback'[k] = c /\ \A j \in Callback : j # k => callback'[j] = callback[j]
    BY <1>1, <1>3, <2>1, <2>2
  <2>6. TypeOK'
    BY <1>1, <1>3, <2>2, <2>3, <2>4 DEF ProviderInv, TypeOK, accounts
  <2>7. \A b \in Attempt : attempt'[b].consumed = attempt[b].consumed /\ attempt'[b].state = attempt[b].state
    BY <1>3, <2>3, <2>5
  <2>8. \A j \in Callback : \/ callback'[j] = callback[j]
                            \/ callback'[j].at = "refused" /\ callback'[j].attempt = None
    BY <2>4, <2>5
  <2>9. CallbacksFit'
    <3>1. \A j \in Callback : callback[j].attempt # None => callback[j].attempt \in Attempt
      BY <2>1 DEF CallbackState
    <3> QED BY <2>7, <2>8, <3>1 DEF ProviderInv, CallbacksFit
  <2>10. ResultsFit'
    <3> SUFFICES ASSUME NEW b \in Attempt
                 PROVE  /\ attempt'[b].consumed => attempt'[b].state = "stored"
                        /\ attempt'[b].code # None =>
                             /\ attempt'[b].consumed
                             /\ callback'[attempt'[b].code].at = "shown" /\ callback'[attempt'[b].code].attempt = b
                             /\ callback'[attempt'[b].code].identity = attempt'[b].identity
      BY DEF ResultsFit
    <3>1. CASE b = a
      BY <2>3, <2>5, <3>1
    <3>2. CASE b # a
      <4>1. attempt'[b] = attempt[b]
        BY <2>5, <3>2
      <4>2. attempt[b].code # None => attempt[b].code \in Callback \ {k}
        BY <1>1, <2>1 DEF ProviderInv, ResultsFit, AttemptRow
      <4> QED BY <2>5, <4>1, <4>2 DEF ProviderInv, ResultsFit
    <3> QED BY <3>1, <3>2
  <2>11. \A x \in Exchange : exchange[x].at \in Claiming => attempt'[exchange[x].attempt] = ClaimedRow(x)
    BY <1>3, <2>5, HeldRow, ConstantsAssumption DEF ClaimedRow
  <2>12. ASSUME NEW b \in Attempt
         PROVE  /\ attempt[b].state # "free" => attempt'[b].state # "free"
                /\ attempt[b].state # "free" /\ (attempt[b].claimed \/ attempt[b].state = "purged") =>
                     attempt'[b].claimed \/ attempt'[b].state = "purged"
                /\ Counts(b)' => \/ attempt[b].state = "free"
                                 \/ Counts(b) /\ attempt'[b].failures = attempt[b].failures
    BY <1>1, <1>3, <2>3, <2>5 DEF Counts, Unexpired
  <2>13. \A j \in Callback : callback[j].at = "shown" =>
           callback'[j].at = "shown" /\ callback'[j].attempt = callback[j].attempt
    BY <1>1, <2>5
  <2> QED BY <1>1, <2>6, <2>9, <2>10, <2>11, <2>12, <2>13, ExchangesStand
<1> QED BY <1>2, <1>3 DEF FailProviderAttempt

LEMMA RecordInv == ASSUME ProviderInv, NEW k \in Callback, RecordProviderResult(k) PROVE ProviderInv'
<1> DEFINE a == callback[k].attempt
           row == [attempt[a] EXCEPT !.code = k, !.identity = callback[k].identity, !.email = callback[k].email]
           c == [callback[k] EXCEPT !.at = "shown", !.email = None]
<1>1. callback[k].at = "record" /\ UNCHANGED <<exchange, accounts, session, now>>
  BY DEF RecordProviderResult
<1>2. CASE UNCHANGED attempt /\ callback' = [callback EXCEPT ![k] = NoCallback("refused")]
  BY <1>1, <1>2, CallbackMoves, RefusedCallback
<1>3. CASE MayRecord(a) /\ attempt' = [attempt EXCEPT ![a] = row] /\ callback' = [callback EXCEPT ![k] = c]
  <2>1. attempt \in [Attempt -> AttemptRow] /\ callback \in [Callback -> CallbackState]
    BY DEF ProviderInv, TypeOK
  <2>2. a \in Attempt /\ callback[k].identity # None
    BY <1>1, AttemptOfCallback DEF ProviderInv, CallbacksFit
  <2>3. /\ attempt[a].consumed /\ attempt[a].code = None /\ attempt[a].state = "stored"
    BY <1>3 DEF MayRecord, Unexpired
  <2>4. /\ row \in AttemptRow /\ row.consumed /\ row.state = "stored" /\ row.code = k
        /\ row.identity = callback[k].identity
        /\ row.failures = attempt[a].failures /\ row.claimed = attempt[a].claimed
        /\ row.expires = attempt[a].expires
    <3>1. attempt[a] \in AttemptRow /\ callback[k] \in CallbackState
      BY <2>1, <2>2
    <3> HIDE DEF a
    <3>2. callback[k].identity \in Identity \cup {None} /\ callback[k].email \in Email \cup {None}
      BY <3>1 DEF CallbackState
    <3> QED BY <2>3, <3>1, <3>2 DEF AttemptRow
  <2>5. /\ c \in CallbackState /\ c.at = "shown" /\ c.attempt = a /\ c.identity = callback[k].identity
    BY <2>1 DEF CallbackState
  <2> HIDE DEF row, c, a
  <2>6. /\ attempt'[a] = row /\ \A b \in Attempt : b # a => attempt'[b] = attempt[b]
        /\ callback'[k] = c /\ \A j \in Callback : j # k => callback'[j] = callback[j]
    BY <1>1, <1>3, <2>1, <2>2
  <2>7. TypeOK'
    BY <1>1, <1>3, <2>2, <2>4, <2>5 DEF ProviderInv, TypeOK, accounts
  <2>8. \A b \in Attempt : attempt'[b].consumed <=> attempt[b].consumed
    BY <2>3, <2>4, <2>6
  <2>9. \A b \in Attempt : attempt'[b].state = attempt[b].state
    BY <2>3, <2>4, <2>6
  <2>10. CallbacksFit'
    <3>1. \A j \in Callback : callback[j].attempt # None => callback[j].attempt \in Attempt
      BY <2>1 DEF CallbackState
    <3>2. \A j \in Callback : callback'[j].attempt = callback[j].attempt
      BY <2>5, <2>6 DEF a
    <3> QED BY <1>1, <2>2, <2>5, <2>6, <2>8, <2>9, <3>1, <3>2 DEF ProviderInv, CallbacksFit
  <2>11. ResultsFit'
    <3> SUFFICES ASSUME NEW b \in Attempt
                 PROVE  /\ attempt'[b].consumed => attempt'[b].state = "stored"
                        /\ attempt'[b].code # None =>
                             /\ attempt'[b].consumed
                             /\ callback'[attempt'[b].code].at = "shown" /\ callback'[attempt'[b].code].attempt = b
                             /\ callback'[attempt'[b].code].identity = attempt'[b].identity
      BY DEF ResultsFit
    <3>1. CASE b = a
      BY <2>4, <2>5, <2>6, <3>1
    <3>2. CASE b # a
      <4>1. attempt'[b] = attempt[b]
        BY <2>6, <3>2
      <4>2. attempt[b].code # None => attempt[b].code \in Callback \ {k}
        BY <1>1, <2>1 DEF ProviderInv, ResultsFit, AttemptRow
      <4> QED BY <2>6, <4>1, <4>2 DEF ProviderInv, ResultsFit
    <3> QED BY <3>1, <3>2
  <2>12. \A x \in Exchange : exchange[x].at \in Claiming => attempt'[exchange[x].attempt] = ClaimedRow(x)
    BY <2>3, <2>6, HeldRow, ConstantsAssumption DEF ClaimedRow
  <2>13. ASSUME NEW b \in Attempt
         PROVE  /\ attempt[b].state # "free" => attempt'[b].state # "free"
                /\ attempt[b].state # "free" /\ (attempt[b].claimed \/ attempt[b].state = "purged") =>
                     attempt'[b].claimed \/ attempt'[b].state = "purged"
                /\ Counts(b)' => \/ attempt[b].state = "free"
                                 \/ Counts(b) /\ attempt'[b].failures = attempt[b].failures
    BY <1>1, <2>3, <2>4, <2>6 DEF Counts, Unexpired
  <2>14. \A j \in Callback : callback[j].at = "shown" =>
           callback'[j].at = "shown" /\ callback'[j].attempt = callback[j].attempt
    BY <1>1, <2>6
  <2> QED BY <1>1, <2>7, <2>10, <2>11, <2>12, <2>13, <2>14, ExchangesStand
<1> QED BY <1>2, <1>3 DEF RecordProviderResult

LEMMA PurgeInv == ASSUME ProviderInv, PurgeExpired PROVE ProviderInv'
<1> DEFINE row == NoAttempt("purged")
<1>1. /\ UNCHANGED <<callback, exchange, accounts, session, now>>
      /\ attempt' = [a \in Attempt |-> IF a \in ExpiredAttempts THEN row ELSE attempt[a]]
      /\ \A a \in ExpiredAttempts : AttemptUnlocked(a)
  BY DEF PurgeExpired
<1>2. /\ row \in AttemptRow /\ row.state = "purged" /\ ~row.consumed /\ row.code = None
  <2>1. 0 \in 0..MaxTime + Lifetime /\ 0 \in 0..MaxFailures
    BY ConstantsAssumption
  <2> QED BY <2>1 DEF NoAttempt, AttemptRow
<1> HIDE DEF row
<1>3. TypeOK'
  BY <1>1, <1>2 DEF ProviderInv, TypeOK, accounts
<1>4. \A a \in Attempt : attempt'[a] = attempt[a] \/ (a \in ExpiredAttempts /\ attempt'[a] = row)
  BY <1>1
<1>5. CallbacksFit'
  <2>1. \A j \in Callback : callback[j].attempt # None => callback[j].attempt \in Attempt
    BY DEF ProviderInv, TypeOK, CallbackState
  <2> QED BY <1>1, <1>2, <1>4, <2>1 DEF ProviderInv, CallbacksFit
<1>6. ResultsFit'
  BY <1>1, <1>2, <1>4 DEF ProviderInv, ResultsFit
<1>7. \A x \in Exchange : exchange[x].at \in Claiming => attempt'[exchange[x].attempt] = ClaimedRow(x)
  BY <1>1, HeldRow DEF ClaimedRow, AttemptUnlocked, HoldsAttempt
<1>8. ASSUME NEW b \in Attempt
      PROVE  /\ attempt[b].state # "free" => attempt'[b].state # "free"
             /\ attempt[b].state # "free" /\ (attempt[b].claimed \/ attempt[b].state = "purged") =>
                  attempt'[b].claimed \/ attempt'[b].state = "purged"
             /\ Counts(b)' => \/ attempt[b].state = "free"
                              \/ Counts(b) /\ attempt'[b].failures = attempt[b].failures
  BY <1>1, <1>2, <1>4 DEF Counts, Unexpired
<1> QED BY <1>1, <1>3, <1>5, <1>6, <1>7, <1>8, ExchangesStand

LEMMA TickInv == ASSUME ProviderInv, Tick PROVE ProviderInv'
<1>1. UNCHANGED <<attempt, callback, exchange, accounts, session>> /\ now' = now + 1 /\ now < MaxTime
  BY DEF Tick, accounts
<1>2. now \in 0..MaxTime /\ MaxTime \in Nat /\ attempt \in [Attempt -> AttemptRow]
  BY ConstantsAssumption DEF ProviderInv, TypeOK
<1>3. TypeOK'
  <2>1. now' \in 0..MaxTime
    BY <1>1, <1>2
  <2> QED BY <1>1, <2>1 DEF ProviderInv, TypeOK, accounts
<1>4. CallbacksFit' /\ ResultsFit'
  BY <1>1 DEF ProviderInv, CallbacksFit, ResultsFit
<1>5. \A b \in Attempt : Counts(b)' => Counts(b)
  <2>1. \A b \in Attempt : now' < attempt[b].expires => now < attempt[b].expires
    <3>1. \A b \in Attempt : attempt[b].expires \in Int
      BY <1>2, ConstantsAssumption DEF AttemptRow
    <3> QED BY <1>1, <1>2, <3>1
  <2> QED BY <1>1, <2>1 DEF Counts, Unexpired
<1> QED BY <1>1, <1>3, <1>4, <1>5, ExchangesStand DEF ClaimedRow

-----------------------------------------------------------------------------
(* Steps of an exchange that write no row that others see.                 *)

LEMMA ExchangeMoves ==
  ASSUME ProviderInv, NEW x \in Exchange, NEW e \in ExchangeState, exchange' = [exchange EXCEPT ![x] = e],
         UNCHANGED <<tables, callback, now>>,
         exchange[x].at \notin Done, e.at \notin Spent \cup {"rejected"},
         PresentedFits(x)', ClaimFits(x)', InsertFits(x)', FoundFits(x)',
         \A y \in Exchange \ {x} : Exclusion(x, y)' /\ Exclusion(y, x)'
  PROVE  ProviderInv'
<1>0. /\ attempt' = attempt /\ account' = account /\ taken' = taken /\ link' = link
      /\ session' = session /\ callback' = callback /\ now' = now
  BY DEF tables, accounts
<1>1. exchange'[x] = e /\ \A y \in Exchange : y # x => exchange'[y] = exchange[y]
  BY DEF ProviderInv, TypeOK
<1>2. TypeOK'
  BY <1>0 DEF ProviderInv, TypeOK
<1>3. CallbacksFit' /\ ResultsFit' /\ AccountsStayLinked'
  BY <1>0 DEF ProviderInv, CallbacksFit, ResultsFit, AccountsStayLinked, ActiveAccount
<1>4. SpentFits(x)'
  BY <1>1 DEF SpentFits
<1>5. ASSUME NEW y \in Exchange, y # x
      PROVE  PresentedFits(y)' /\ ClaimFits(y)' /\ SpentFits(y)' /\ InsertFits(y)' /\ FoundFits(y)'
  <2>1. PresentedFits(y) /\ ClaimFits(y) /\ SpentFits(y) /\ InsertFits(y) /\ FoundFits(y)
    BY DEF ProviderInv, ExchangesFit
  <2>2. exchange'[y] = exchange[y] /\ ClaimedRow(y)' = ClaimedRow(y)
    BY <1>0, <1>1, <1>5 DEF ClaimedRow
  <2>3. InsertedAccount(y)' = InsertedAccount(y) /\ InsertedLink(y)' = InsertedLink(y)
    BY <2>2 DEF InsertedAccount, InsertedLink
  <2>4. PresentedFits(y)' /\ ClaimFits(y)' /\ SpentFits(y)'
    BY <1>0, <2>1, <2>2 DEF PresentedFits, ClaimFits, SpentFits
  <2>5. InsertFits(y)' /\ FoundFits(y)'
    BY <1>0, <2>1, <2>2, <2>3 DEF InsertFits, FoundFits, EmailTaken, ActiveAccount
  <2> QED BY <2>4, <2>5
<1>6. ASSUME NEW y \in Exchange, NEW z \in Exchange, y # z, y # x, z # x PROVE Exclusion(y, z)'
  <2>1. Exclusion(y, z)
    BY <1>6 DEF ProviderInv, ExchangesFit
  <2>2. /\ exchange'[y] = exchange[y] /\ ClaimedRow(y)' = ClaimedRow(y)
        /\ exchange'[z] = exchange[z] /\ ClaimedRow(z)' = ClaimedRow(z)
    BY <1>0, <1>1, <1>6 DEF ClaimedRow
  <2> QED BY <2>1, <2>2 DEF Exclusion, HoldsAttempt, InsertedAccount, InsertedLink
<1>7. ExchangesFit'
  BY <1>4, <1>5, <1>6 DEF ExchangesFit
<1>8. SessionsFit'
  <2>1. exchange[x].at # "session" /\ exchange'[x].at # "session"
    BY <1>1 DEF Done, Spent
  <2> QED BY <1>0, <1>1, <2>1 DEF ProviderInv, SessionsFit, ActiveAccount
<1>9. RejectionsCount'
  <2>1. exchange[x].at # "rejected" /\ exchange'[x].at # "rejected"
    BY <1>1 DEF Done
  <2>2. \A a : Rejected(a)' = Rejected(a) /\ Counts(a)' = Counts(a)
    BY <1>0, <1>1, <2>1 DEF Rejected, Counts, Unexpired
  <2> QED BY <1>0, <2>2 DEF ProviderInv, RejectionsCount
<1> QED BY <1>2, <1>3, <1>7, <1>8, <1>9 DEF ProviderInv

\* An exchange that holds no attempt excludes nobody.
LEMMA OutsideClaims ==
  ASSUME ProviderInv, NEW x \in Exchange, NEW e \in ExchangeState, exchange' = [exchange EXCEPT ![x] = e],
         UNCHANGED <<tables, callback, now>>,
         exchange[x].at \notin Done, e.at \in {"lockSession", "claim", "count", "failed"},
         PresentedFits(x)'
  PROVE  ProviderInv'
<1>1. exchange'[x] = e
  BY DEF ProviderInv, TypeOK
<1>2. e.at \notin Claiming /\ e.at \notin Spent \cup {"rejected"}
  BY DEF Claiming, Spent
<1>3. ~InsertedAccount(x)' /\ ~InsertedLink(x)'
  BY <1>1 DEF InsertedAccount, InsertedLink
<1>4. ClaimFits(x)' /\ InsertFits(x)' /\ FoundFits(x)'
  BY <1>1, <1>2, <1>3 DEF ClaimFits, InsertFits, FoundFits
<1>5. \A y \in Exchange \ {x} : Exclusion(x, y)' /\ Exclusion(y, x)'
  BY <1>1, <1>2, <1>3 DEF Exclusion, HoldsAttempt
<1> QED BY <1>2, <1>4, <1>5, ExchangeMoves

LEMMA GiveUpInv ==
  ASSUME ProviderInv, NEW x \in Exchange, exchange[x].at \notin Done, GiveUp(x), UNCHANGED <<tables, callback, now>>
  PROVE  ProviderInv'
<1> DEFINE e == NoExchange("failed")
<1>1. exchange' = [exchange EXCEPT ![x] = e]
  BY DEF GiveUp
<1>2. e \in ExchangeState /\ e.at = "failed" /\ e.session = None
  BY DEF NoExchange, ExchangeState, Done
<1> HIDE DEF e
<1>3. exchange'[x] = e
  BY <1>1 DEF ProviderInv, TypeOK
<1>4. PresentedFits(x)'
  BY <1>2, <1>3 DEF PresentedFits
<1> QED BY <1>1, <1>2, <1>4, OutsideClaims

\* A step of an exchange that holds its attempt and goes on to hold it.
LEMMA ClaimGoesOn ==
  ASSUME ProviderInv, NEW x \in Exchange, NEW e \in ExchangeState, exchange' = [exchange EXCEPT ![x] = e],
         UNCHANGED <<tables, callback, now>>,
         exchange[x].at \in Claiming, e.at \in Claiming,
         e.attempt = exchange[x].attempt, e.code = exchange[x].code, e.session = exchange[x].session,
         e.at \in {"checkLink", "openWindow", "commitWindow"} =>
           exchange[x].at \in {"checkLink", "openWindow", "commitWindow"},
         InsertFits(x)', FoundFits(x)',
         \A y \in Exchange \ {x} :
           /\ InsertedAccount(x)' /\ InsertedAccount(y) => ClaimedRow(x).email # ClaimedRow(y).email
           /\ InsertedLink(x)' /\ InsertedLink(y) => ClaimedRow(x).identity # ClaimedRow(y).identity
  PROVE  ProviderInv'
<1>0. attempt' = attempt /\ session' = session
  BY DEF tables
<1>1. exchange'[x] = e /\ \A y \in Exchange : y # x => exchange'[y] = exchange[y]
  BY DEF ProviderInv, TypeOK
<1>2. /\ exchange[x].at \notin Done /\ e.at \notin Spent \cup {"rejected"}
      /\ exchange[x].at \notin {"idle", "failed"} /\ e.at \notin {"lockSession", "window"}
  BY DEF Claiming, Spent, Done
<1>3. PresentedFits(x)'
  BY <1>0, <1>1, <1>2 DEF ProviderInv, ExchangesFit, PresentedFits
<1>4. \A y \in Exchange : ClaimedRow(y)' = ClaimedRow(y)
  BY <1>0, <1>1 DEF ClaimedRow
<1>5. ClaimFits(x)'
  BY <1>1, <1>4 DEF ProviderInv, ExchangesFit, ClaimFits
<1>6. ASSUME NEW y \in Exchange \ {x} PROVE Exclusion(x, y)' /\ Exclusion(y, x)'
  <2>1. Exclusion(x, y) /\ Exclusion(y, x)
    BY DEF ProviderInv, ExchangesFit
  <2>2. InsertedAccount(y)' = InsertedAccount(y) /\ InsertedLink(y)' = InsertedLink(y)
    BY <1>1 DEF InsertedAccount, InsertedLink
  <2>3. /\ InsertedAccount(x)' /\ InsertedAccount(y) => ClaimedRow(x).email # ClaimedRow(y).email
        /\ InsertedLink(x)' /\ InsertedLink(y) => ClaimedRow(x).identity # ClaimedRow(y).identity
    OBVIOUS
  <2>4. /\ exchange'[x].at \in Claiming => ~HoldsAttempt(y, exchange[x].attempt)'
        /\ exchange'[y].at \in Claiming => ~HoldsAttempt(x, exchange[y].attempt)'
    BY <1>1, <2>1 DEF Exclusion, HoldsAttempt
  <2> QED BY <1>4, <2>2, <2>3, <2>4 DEF Exclusion
<1> QED BY <1>2, <1>3, <1>5, <1>6, ExchangeMoves

LEMMA PresentInv ==
  ASSUME ProviderInv, NEW x \in Exchange, NEW a \in Attempt, NEW k \in Callback \cup {None},
         NEW s \in Exchange \cup {None}, NEW step \in {"claim", "lockSession"}, Present(x, a, k, s, step),
         s # None => session[s].state # "free", step = "lockSession" => s # None
  PROVE  ProviderInv'
<1> DEFINE e == [exchange[x] EXCEPT !.at = step, !.attempt = a, !.code = k, !.session = s]
<1>1. /\ exchange[x].at = "idle" /\ attempt[a].state # "free" /\ exchange' = [exchange EXCEPT ![x] = e]
      /\ UNCHANGED <<tables, callback, now>>
  BY DEF Present
<1>2. exchange[x] \in ExchangeState /\ step \in {"idle"} \cup Running \cup Done /\ None # a
  BY ConstantsAssumption DEF ProviderInv, TypeOK, Running
<1>3. e \in ExchangeState /\ e.at = step /\ e.attempt = a /\ e.session = s
  BY <1>2 DEF ExchangeState
<1> HIDE DEF e
<1>4. exchange'[x] = e /\ attempt' = attempt /\ session' = session
  BY <1>1 DEF ProviderInv, TypeOK, tables
<1>5. PresentedFits(x)'
  BY <1>1, <1>2, <1>3, <1>4 DEF PresentedFits
<1>6. exchange[x].at \notin Done
  BY <1>1 DEF Done, Spent
<1> QED BY <1>1, <1>3, <1>5, <1>6, OutsideClaims

LEMMA LockSessionInv ==
  ASSUME ProviderInv, NEW x \in Exchange, LockSessionForReauthentication(x) PROVE ProviderInv'
<1> DEFINE e == [exchange[x] EXCEPT !.at = "claim"]
<1>1. exchange[x].at = "lockSession" /\ UNCHANGED <<tables, callback, now>>
  BY DEF LockSessionForReauthentication
<1>2. exchange[x].at \notin Done
  BY <1>1 DEF Done, Spent
<1>3. CASE GiveUp(x)
  BY <1>1, <1>2, <1>3, GiveUpInv
<1>4. CASE GoTo(x, "claim")
  <2>1. exchange' = [exchange EXCEPT ![x] = e] /\ attempt' = attempt /\ session' = session
    BY <1>1, <1>4 DEF GoTo, tables
  <2>2. /\ e \in ExchangeState /\ e.at = "claim" /\ e.attempt = exchange[x].attempt
        /\ e.session = exchange[x].session
    <3>1. exchange[x] \in ExchangeState
      BY DEF ProviderInv, TypeOK
    <3> QED BY <3>1 DEF ExchangeState, Running
  <2> HIDE DEF e
  <2>3. PresentedFits(x)'
    <3>1. exchange'[x] = e
      BY <2>1 DEF ProviderInv, TypeOK
    <3> QED BY <1>1, <2>1, <2>2, <3>1 DEF ProviderInv, ExchangesFit, PresentedFits
  <2> QED BY <1>1, <1>2, <2>1, <2>2, <2>3, OutsideClaims
<1> QED BY <1>3, <1>4 DEF LockSessionForReauthentication

LEMMA ClaimInv ==
  ASSUME ProviderInv, NEW x \in Exchange, NEW step \in {"find", "checkLink"}, Claim(x, step),
         step = "checkLink" => exchange[x].session # None
  PROVE  ProviderInv'
<1> DEFINE e == [exchange[x] EXCEPT !.at = step]
<1>1. /\ exchange[x].at = "claim" /\ Matches(x) /\ AttemptUnlocked(exchange[x].attempt)
      /\ exchange' = [exchange EXCEPT ![x] = e] /\ UNCHANGED <<tables, callback, now>>
      /\ attempt' = attempt /\ session' = session
  BY DEF Claim, GoTo, tables
<1>2. /\ e \in ExchangeState /\ e.at = step /\ e.attempt = exchange[x].attempt
      /\ e.session = exchange[x].session /\ e.code = exchange[x].code
  <2>1. exchange[x] \in ExchangeState /\ step \in {"idle"} \cup Running \cup Done
    BY DEF ProviderInv, TypeOK, Running, Claiming
  <2> QED BY <2>1 DEF ExchangeState
<1> HIDE DEF e
<1>3. exchange'[x] = e /\ \A y \in Exchange : y # x => exchange'[y] = exchange[y]
  BY <1>1 DEF ProviderInv, TypeOK
<1>4. ClaimedRow(x)' = ClaimedRow(x)
  BY <1>1, <1>2, <1>3 DEF ClaimedRow
<1>5. PresentedFits(x)'
  BY <1>1, <1>2, <1>3 DEF ProviderInv, ExchangesFit, PresentedFits
<1>6. ClaimFits(x)'
  BY <1>1, <1>2, <1>3, <1>4 DEF ClaimFits, Matches, ClaimedRow
<1>7. ~InsertedAccount(x)' /\ ~InsertedLink(x)'
  BY <1>2, <1>3 DEF InsertedAccount, InsertedLink
<1>8. InsertFits(x)' /\ FoundFits(x)'
  BY <1>2, <1>3, <1>7 DEF InsertFits, FoundFits
<1>9. \A y \in Exchange \ {x} : Exclusion(x, y)' /\ Exclusion(y, x)'
  BY <1>1, <1>2, <1>3, <1>7 DEF Exclusion, AttemptUnlocked, HoldsAttempt
<1>10. exchange[x].at \notin Done /\ e.at \notin Spent \cup {"rejected"}
  BY <1>1, <1>2 DEF Done, Spent
<1> QED BY <1>1, <1>2, <1>5, <1>6, <1>8, <1>9, <1>10, ExchangeMoves

LEMMA RejectInv == ASSUME ProviderInv, NEW x \in Exchange, RejectClaim(x) PROVE ProviderInv'
<1> DEFINE e == [NoExchange("count") EXCEPT !.attempt = exchange[x].attempt]
<1>1. /\ exchange[x].at = "claim" /\ exchange' = [exchange EXCEPT ![x] = e]
      /\ UNCHANGED <<tables, callback, now>> /\ attempt' = attempt
  BY DEF RejectClaim, tables
<1>2. exchange[x] \in ExchangeState
  BY DEF ProviderInv, TypeOK
<1>3. e \in ExchangeState /\ e.at = "count" /\ e.attempt = exchange[x].attempt /\ e.session = None
  BY <1>2 DEF NoExchange, ExchangeState, Running
<1> HIDE DEF e
<1>4. exchange'[x] = e
  BY <1>1 DEF ProviderInv, TypeOK
<1>5. PresentedFits(x)'
  BY <1>1, <1>3, <1>4 DEF ProviderInv, ExchangesFit, PresentedFits
<1>6. exchange[x].at \notin Done
  BY <1>1 DEF Done, Spent
<1> QED BY <1>1, <1>3, <1>5, <1>6, OutsideClaims

\* The next statement of an exchange, when that is one that has inserted nothing.
LEMMA GoOn ==
  ASSUME ProviderInv, NEW x \in Exchange, NEW step \in {"commitUnavailable", "createAccount", "openWindow"},
         exchange[x].at \in {"find", "createAccount", "checkLink"}, GoTo(x, step), UNCHANGED <<tables, callback, now>>,
         step = "createAccount" => ClaimedRow(x).email # None,
         step = "openWindow" => /\ exchange[x].at = "checkLink"
                                /\ link[ClaimedRow(x).identity] = session[exchange[x].session].account
  PROVE  ProviderInv'
<1> DEFINE e == [exchange[x] EXCEPT !.at = step]
<1>1. /\ exchange' = [exchange EXCEPT ![x] = e] /\ attempt' = attempt /\ session' = session /\ link' = link
  BY DEF GoTo, tables, accounts
<1>2. /\ e \in ExchangeState /\ e.at = step /\ e.attempt = exchange[x].attempt
      /\ e.session = exchange[x].session /\ e.code = exchange[x].code
  <2>1. exchange[x] \in ExchangeState /\ step \in {"idle"} \cup Running \cup Done
    BY DEF ProviderInv, TypeOK, Running, Claiming
  <2> QED BY <2>1 DEF ExchangeState
<1> HIDE DEF e
<1>3. exchange'[x] = e
  BY <1>1 DEF ProviderInv, TypeOK
<1>4. ClaimedRow(x)' = ClaimedRow(x) /\ exchange[x].at \in Claiming /\ e.at \in Claiming
  BY <1>1, <1>2, <1>3 DEF ClaimedRow, Claiming
<1>5. ~InsertedAccount(x)' /\ ~InsertedLink(x)'
  BY <1>2, <1>3 DEF InsertedAccount, InsertedLink
<1>6. InsertFits(x)'
  BY <1>2, <1>3, <1>4, <1>5 DEF InsertFits
<1>7. FoundFits(x)'
  BY <1>1, <1>2, <1>3, <1>4 DEF FoundFits
<1>8. e.at \in {"checkLink", "openWindow", "commitWindow"} =>
        exchange[x].at \in {"checkLink", "openWindow", "commitWindow"}
  BY <1>2
<1> QED BY <1>1, <1>2, <1>4, <1>5, <1>6, <1>7, <1>8, ClaimGoesOn

LEMMA HasLinkInv == ASSUME ProviderInv, NEW x \in Exchange, HasProviderLink(x) PROVE ProviderInv'
  BY GoOn DEF HasProviderLink

LEMMA LockLinkedInv == ASSUME ProviderInv, NEW x \in Exchange, LockLinkedAccount(x) PROVE ProviderInv'
<1> DEFINE i == ClaimedRow(x).identity
           n == link[i]
           e == [exchange[x] EXCEPT !.at = "commitSession", !.account = n]
<1>1. exchange[x].at = "find" /\ UNCHANGED <<tables, callback, now>>
  BY DEF LockLinkedAccount
<1>2. CASE ~Known(i) /\ GoTo(x, IF ClaimedRow(x).email = None THEN "commitUnavailable" ELSE "createAccount")
  BY <1>1, <1>2, GoOn
<1>3. CASE Known(i) /\ exchange' = [exchange EXCEPT ![x] = e]
  <2>1. /\ attempt' = attempt /\ session' = session /\ link' = link /\ account' = account
    BY <1>1 DEF tables, accounts
  <2>2. i \in Identity /\ exchange[x].at \in Claiming
    BY <1>1, HeldRow DEF Claiming
  <2>3. n \in Exchange /\ n # None /\ ActiveAccount(n)
    BY <1>3, <2>2 DEF Known, ProviderInv, TypeOK
  <2>4. n # x
    BY <1>1, <2>3 DEF ActiveAccount, ProviderInv, SessionsFit
  <2> HIDE DEF n, i
  <2>5. /\ e \in ExchangeState /\ e.at = "commitSession" /\ e.attempt = exchange[x].attempt /\ e.account = n
        /\ e.session = exchange[x].session /\ e.code = exchange[x].code
    <3>1. exchange[x] \in ExchangeState
      BY DEF ProviderInv, TypeOK
    <3> QED BY <2>3, <3>1 DEF ExchangeState, Running, Claiming
  <2> HIDE DEF e
  <2>6. exchange'[x] = e
    BY <1>3 DEF ProviderInv, TypeOK
  <2>7. ClaimedRow(x)' = ClaimedRow(x) /\ e.at \in Claiming
    BY <2>1, <2>5, <2>6 DEF ClaimedRow, Claiming
  <2>8. ~InsertedAccount(x)' /\ ~InsertedLink(x)'
    BY <2>4, <2>5, <2>6 DEF InsertedAccount, InsertedLink
  <2>9. InsertFits(x)'
    BY <2>5, <2>6, <2>8 DEF InsertFits
  <2>10. FoundFits(x)'
    <3>1. link[i] = n
      BY DEF n
    <3> QED BY <2>1, <2>3, <2>5, <2>6, <2>7, <3>1 DEF FoundFits, ActiveAccount, i
  <2>11. e.at \notin {"checkLink", "openWindow", "commitWindow"}
    BY <2>5
  <2> QED BY <1>1, <1>3, <2>2, <2>5, <2>7, <2>8, <2>9, <2>10, <2>11, ClaimGoesOn
<1> QED BY <1>2, <1>3 DEF LockLinkedAccount

LEMMA CreateAccountInv == ASSUME ProviderInv, NEW x \in Exchange, CreateProviderAccount(x) PROVE ProviderInv'
<1> DEFINE e == [exchange[x] EXCEPT !.at = "createLink", !.account = x]
<1>1. /\ exchange[x].at = "createAccount" /\ UNCHANGED <<tables, callback, now>>
      /\ EmailSettled(ClaimedRow(x).email)
  BY DEF CreateProviderAccount
<1>2. CASE GoTo(x, "commitUnavailable")
  BY <1>1, <1>2, GoOn
<1>3. CASE ~EmailTaken(ClaimedRow(x).email) /\ exchange' = [exchange EXCEPT ![x] = e]
  <2>1. /\ attempt' = attempt /\ link' = link /\ account' = account /\ taken' = taken
    BY <1>1 DEF tables, accounts
  <2>2. /\ e \in ExchangeState /\ e.at = "createLink" /\ e.attempt = exchange[x].attempt /\ e.account = x
        /\ e.session = exchange[x].session /\ e.code = exchange[x].code
    <3>1. exchange[x] \in ExchangeState
      BY DEF ProviderInv, TypeOK
    <3> QED BY <3>1 DEF ExchangeState, Running, Claiming
  <2> HIDE DEF e
  <2>3. exchange'[x] = e
    BY <1>3 DEF ProviderInv, TypeOK
  <2>4. ClaimedRow(x)' = ClaimedRow(x) /\ e.at \in Claiming /\ exchange[x].at \in Claiming
    BY <1>1, <2>1, <2>2, <2>3 DEF ClaimedRow, Claiming
  <2>5. ~InsertedLink(x)'
    BY <2>2, <2>3 DEF InsertedLink
  <2>6. \A f : EmailTaken(f)' = EmailTaken(f)
    BY <2>1 DEF EmailTaken, ActiveAccount
  <2>7. ClaimedRow(x).email # None
    BY <1>1 DEF ProviderInv, ExchangesFit, InsertFits
  <2>8. InsertFits(x)'
    BY <1>3, <2>2, <2>3, <2>4, <2>5, <2>6, <2>7 DEF InsertFits
  <2>9. FoundFits(x)'
    BY <2>2, <2>3 DEF FoundFits
  <2>10. e.at \notin {"checkLink", "openWindow", "commitWindow"}
    BY <2>2
  <2>11. \A y \in Exchange : InsertedAccount(y) => ClaimedRow(x).email # ClaimedRow(y).email
    BY <1>1 DEF EmailSettled
  <2> QED BY <1>1, <1>3, <2>2, <2>4, <2>5, <2>8, <2>9, <2>10, <2>11, ClaimGoesOn
<1> QED BY <1>2, <1>3 DEF CreateProviderAccount

LEMMA CreateLinkInv == ASSUME ProviderInv, NEW x \in Exchange, CreateProviderLink(x) PROVE ProviderInv'
<1> DEFINE e == [exchange[x] EXCEPT !.at = "commitSession"]
<1>1. /\ exchange[x].at = "createLink" /\ UNCHANGED <<tables, callback, now>>
      /\ \A y \in Exchange : InsertedLink(y) => ClaimedRow(y).identity # ClaimedRow(x).identity
  BY DEF CreateProviderLink
<1>2. CASE GiveUp(x)
  BY <1>1, <1>2, GiveUpInv DEF Done, Spent
<1>3. CASE link[ClaimedRow(x).identity] = None /\ GoTo(x, "commitSession")
  <2>1. /\ attempt' = attempt /\ link' = link /\ account' = account /\ taken' = taken
    BY <1>1 DEF tables, accounts
  <2>2. exchange[x].account = x
    BY <1>1 DEF ProviderInv, ExchangesFit, InsertFits
  <2>3. /\ e \in ExchangeState /\ e.at = "commitSession" /\ e.attempt = exchange[x].attempt /\ e.account = x
        /\ e.session = exchange[x].session /\ e.code = exchange[x].code
    <3>1. exchange[x] \in ExchangeState
      BY DEF ProviderInv, TypeOK
    <3> QED BY <2>2, <3>1 DEF ExchangeState, Running, Claiming
  <2>4. exchange' = [exchange EXCEPT ![x] = e]
    BY <1>3 DEF GoTo
  <2> HIDE DEF e
  <2>5. exchange'[x] = e
    BY <2>4 DEF ProviderInv, TypeOK
  <2>6. ClaimedRow(x)' = ClaimedRow(x) /\ e.at \in Claiming /\ exchange[x].at \in Claiming
    BY <1>1, <2>1, <2>3, <2>5 DEF ClaimedRow, Claiming
  <2>7. InsertedAccount(x) /\ InsertedAccount(x)'
    BY <1>1, <2>2, <2>3, <2>5 DEF InsertedAccount
  <2>8. InsertFits(x)'
    <3>1. \A f : EmailTaken(f)' = EmailTaken(f)
      BY <2>1 DEF EmailTaken, ActiveAccount
    <3>2. ClaimedRow(x).email # None /\ ~EmailTaken(ClaimedRow(x).email)
      BY <2>7 DEF ProviderInv, ExchangesFit, InsertFits
    <3> QED BY <1>3, <2>1, <2>3, <2>5, <2>6, <3>1, <3>2 DEF InsertFits
  <2>9. FoundFits(x)'
    BY <2>3, <2>5 DEF FoundFits
  <2>10. e.at \notin {"checkLink", "openWindow", "commitWindow"}
    BY <2>3
  <2>11. \A y \in Exchange \ {x} : InsertedAccount(y) => ClaimedRow(x).email # ClaimedRow(y).email
    BY <2>7 DEF ProviderInv, ExchangesFit, Exclusion
  <2> QED BY <1>1, <2>3, <2>4, <2>6, <2>8, <2>9, <2>10, <2>11, ClaimGoesOn
<1> QED BY <1>2, <1>3 DEF CreateProviderLink

LEMMA OpenWindowInv == ASSUME ProviderInv, NEW x \in Exchange, OpenWindow(x) PROVE ProviderInv'
<1> DEFINE e == [exchange[x] EXCEPT !.at = "commitWindow", !.stamp = ~session[exchange[x].session].open]
<1>1. exchange[x].at = "openWindow" /\ UNCHANGED <<tables, callback, now>>
  BY DEF OpenWindow
<1>2. CASE GiveUp(x)
  BY <1>1, <1>2, GiveUpInv DEF Done, Spent
<1>3. CASE exchange' = [exchange EXCEPT ![x] = e]
  <2>1. /\ attempt' = attempt /\ link' = link /\ session' = session
    BY <1>1 DEF tables, accounts
  <2>2. /\ e \in ExchangeState /\ e.at = "commitWindow" /\ e.attempt = exchange[x].attempt
        /\ e.session = exchange[x].session /\ e.code = exchange[x].code
    <3>1. exchange[x] \in ExchangeState
      BY DEF ProviderInv, TypeOK
    <3> QED BY <3>1 DEF ExchangeState, Running, Claiming
  <2> HIDE DEF e
  <2>3. exchange'[x] = e
    BY <1>3 DEF ProviderInv, TypeOK
  <2>4. ClaimedRow(x)' = ClaimedRow(x) /\ e.at \in Claiming /\ exchange[x].at \in Claiming
    BY <1>1, <2>1, <2>2, <2>3 DEF ClaimedRow, Claiming
  <2>5. ~InsertedAccount(x)' /\ ~InsertedLink(x)'
    BY <2>2, <2>3 DEF InsertedAccount, InsertedLink
  <2>6. InsertFits(x)'
    BY <2>2, <2>3, <2>5 DEF InsertFits
  <2>7. FoundFits(x)'
    BY <1>1, <2>1, <2>2, <2>3, <2>4 DEF ProviderInv, ExchangesFit, FoundFits
  <2> QED BY <1>1, <1>3, <2>2, <2>4, <2>5, <2>6, <2>7, ClaimGoesOn
<1> QED BY <1>2, <1>3 DEF OpenWindow

LEMMA FailInv == ASSUME ProviderInv, NEW x \in Exchange, Fail(x) PROVE ProviderInv'
<1>1. exchange[x].at \notin Done
  BY DEF Fail, Running, Claiming, Done, Spent
<1> QED BY <1>1, GiveUpInv DEF Fail

-----------------------------------------------------------------------------
(* How an exchange ends.                                                   *)

\* What the commit of a claim does to the attempts, the callbacks and the other exchanges.
LEMMA ResultSpent ==
  ASSUME ProviderInv, NEW x \in Exchange, exchange[x].at \in Claiming, Claimed(x),
         NEW e \in ExchangeState, exchange' = [exchange EXCEPT ![x] = e], UNCHANGED <<callback, now>>,
         e.at \in Spent, e.attempt = exchange[x].attempt, e.code = exchange[x].code, e.session = exchange[x].session,
         e.at = "window" => e.session # None,
         \A s \in Exchange : session[s].state # "free" => session'[s].state # "free"
  PROVE  /\ attempt' \in [Attempt -> AttemptRow] /\ exchange' \in [Exchange -> ExchangeState]
         /\ CallbacksFit' /\ ResultsFit' /\ RejectionsCount'
         /\ \A y \in Exchange : PresentedFits(y)' /\ ClaimFits(y)' /\ SpentFits(y)'
         /\ \A y, z \in Exchange : y # z => Exclusion(y, z)'
         /\ exchange'[x] = e /\ ~InsertedAccount(x)' /\ ~InsertedLink(x)'
         /\ \A y \in Exchange \ {x} :
              /\ exchange'[y] = exchange[y]
              /\ InsertedAccount(y)' = InsertedAccount(y) /\ InsertedLink(y)' = InsertedLink(y)
              /\ exchange[y].at \in Claiming => ClaimedRow(y)' = ClaimedRow(y)
<1> DEFINE a == exchange[x].attempt
           row == [attempt[a] EXCEPT !.claimed = TRUE]
<1>1. attempt \in [Attempt -> AttemptRow] /\ callback \in [Callback -> CallbackState]
      /\ exchange \in [Exchange -> ExchangeState] /\ session \in [Exchange -> SessionRow]
  BY DEF ProviderInv, TypeOK
<1>2. /\ a \in Attempt /\ attempt[a] \in AttemptRow /\ attempt[a].code = e.code /\ e.code \in Callback
      /\ attempt[a].consumed /\ attempt[a].state = "stored" /\ ~attempt[a].claimed
  BY HeldRow DEF ClaimedRow
<1>3. attempt' = [attempt EXCEPT ![a] = row]
  BY DEF Claimed
<1> HIDE DEF a
<1>4. /\ row \in AttemptRow /\ row.claimed /\ row.state = "stored" /\ row.consumed
      /\ row.code = attempt[a].code /\ row.identity = attempt[a].identity
  BY <1>2 DEF AttemptRow
<1> HIDE DEF row
<1>5. attempt'[a] = row /\ \A b \in Attempt : b # a => attempt'[b] = attempt[b]
  BY <1>1, <1>2, <1>3
<1>6. exchange'[x] = e /\ \A y \in Exchange : y # x => exchange'[y] = exchange[y]
  BY <1>1
<1>7. attempt' \in [Attempt -> AttemptRow] /\ exchange' \in [Exchange -> ExchangeState]
  BY <1>1, <1>2, <1>3, <1>4
<1>8. e.at \notin Claiming /\ e.at \notin {"idle", "failed", "rejected", "lockSession"} /\ a = e.attempt
  BY DEF Claiming, Spent, a
<1>9. CallbacksFit'
  <2>1. \A b \in Attempt : /\ attempt[b].consumed => attempt'[b].consumed
                           /\ attempt[b].state = "purged" => attempt'[b].state = "purged"
    BY <1>2, <1>4, <1>5
  <2>2. \A j \in Callback : callback[j].attempt # None => callback[j].attempt \in Attempt
    BY <1>1 DEF CallbackState
  <2> QED BY <2>1, <2>2 DEF ProviderInv, CallbacksFit
<1>10. ResultsFit'
  BY <1>2, <1>4, <1>5 DEF ProviderInv, ResultsFit
<1>11. RejectionsCount'
  <2> SUFFICES ASSUME NEW b \in Attempt, Counts(b)'
               PROVE  IsFiniteSet(Rejected(b)') /\ Cardinality(Rejected(b)') <= attempt'[b].failures
    BY DEF RejectionsCount
  <2>1. b # a
    BY <1>4, <1>5 DEF Counts
  <2>2. exchange[x].at # "rejected" /\ exchange'[x].at # "rejected"
    BY <1>6, <1>8 DEF Claiming
  <2>3. Rejected(b)' = Rejected(b)
    BY <1>6, <2>2 DEF Rejected
  <2>4. attempt'[b] = attempt[b] /\ Counts(b)
    BY <1>5, <2>1 DEF Counts, Unexpired
  <2> QED BY <2>3, <2>4 DEF ProviderInv, RejectionsCount
<1>12. ASSUME NEW y \in Exchange \ {x}, exchange[y].at \in Claiming
       PROVE  ClaimedRow(y)' = ClaimedRow(y)
  <2>1. exchange[y].attempt # a
    BY <1>12 DEF ProviderInv, ExchangesFit, Exclusion, HoldsAttempt, a
  <2>2. exchange[y].attempt \in Attempt
    BY <1>12, HeldRow
  <2> QED BY <1>5, <1>6, <2>1, <2>2 DEF ClaimedRow
<1>13. ASSUME NEW y \in Exchange \ {x}
       PROVE  InsertedAccount(y)' = InsertedAccount(y) /\ InsertedLink(y)' = InsertedLink(y)
  BY <1>6 DEF InsertedAccount, InsertedLink
<1>14. ~InsertedAccount(x)' /\ ~InsertedLink(x)'
  BY <1>6, <1>8 DEF InsertedAccount, InsertedLink, Claiming
<1>15. ASSUME NEW y \in Exchange PROVE PresentedFits(y)' /\ ClaimFits(y)' /\ SpentFits(y)'
  <2>1. PresentedFits(y) /\ ClaimFits(y) /\ SpentFits(y) /\ PresentedFits(x) /\ exchange[y] \in ExchangeState
    BY <1>1 DEF ProviderInv, ExchangesFit
  <2>2. CASE y = x
    <3>1. exchange[x].at \notin {"idle", "failed"}
      BY DEF Claiming
    <3>2. e.session # None => session'[e.session].state # "free"
      BY <1>7, <2>1 DEF PresentedFits, ExchangeState
    <3>3. PresentedFits(x)'
      BY <1>4, <1>5, <1>6, <1>8, <2>1, <3>1, <3>2 DEF PresentedFits, Spent
    <3>4. ClaimFits(x)'
      BY <1>6, <1>8 DEF ClaimFits
    <3>5. SpentFits(x)'
      <4>1. callback[e.code].at = "shown" /\ callback[e.code].attempt = a
        BY <1>2, ConstantsAssumption DEF ProviderInv, ResultsFit
      <4> QED BY <1>2, <1>4, <1>5, <1>6, <1>8, <4>1, ConstantsAssumption DEF SpentFits, ClaimedRow
    <3> QED BY <2>2, <3>3, <3>4, <3>5
  <2>3. CASE y # x
    <3>1. exchange'[y] = exchange[y] /\ (exchange[y].at \in Claiming => ClaimedRow(y)' = ClaimedRow(y))
      BY <1>6, <1>12, <2>3
    <3>2. \A b \in Attempt : /\ attempt[b].state # "free" => attempt'[b].state # "free"
                             /\ attempt[b].claimed => attempt'[b].claimed
                             /\ attempt[b].state = "purged" => attempt'[b].state = "purged"
      BY <1>2, <1>4, <1>5
    <3>3. /\ exchange[y].at \notin {"idle", "failed"} => exchange[y].attempt \in Attempt
          /\ exchange[y].session # None => exchange[y].session \in Exchange
      BY <2>1, AttemptOf DEF ExchangeState
    <3>4. PresentedFits(y)'
      BY <2>1, <3>1, <3>2, <3>3 DEF PresentedFits
    <3>5. ClaimFits(y)'
      BY <2>1, <3>1 DEF ClaimFits
    <3>6. SpentFits(y)'
      <4>1. exchange[y].at \in Spent => exchange[y].attempt \in Attempt
        BY <3>3 DEF Spent
      <4> QED BY <2>1, <3>1, <3>2, <4>1 DEF SpentFits, ClaimedRow
    <3> QED BY <3>4, <3>5, <3>6
  <2> QED BY <2>2, <2>3
<1>16. ASSUME NEW y \in Exchange, NEW z \in Exchange, y # z PROVE Exclusion(y, z)'
  <2>1. Exclusion(y, z)
    BY <1>16 DEF ProviderInv, ExchangesFit
  <2>2. CASE y = x \/ z = x
    BY <1>6, <1>8, <1>14, <2>2 DEF Exclusion, HoldsAttempt
  <2>3. CASE y # x /\ z # x
    <3>1. /\ exchange'[y] = exchange[y] /\ exchange'[z] = exchange[z]
          /\ InsertedAccount(y)' = InsertedAccount(y) /\ InsertedLink(y)' = InsertedLink(y)
          /\ InsertedAccount(z)' = InsertedAccount(z) /\ InsertedLink(z)' = InsertedLink(z)
      BY <1>6, <1>13, <2>3
    <3>2. /\ InsertedAccount(y) \/ InsertedLink(y) => ClaimedRow(y)' = ClaimedRow(y)
          /\ InsertedAccount(z) \/ InsertedLink(z) => ClaimedRow(z)' = ClaimedRow(z)
      BY <1>12, <2>3 DEF InsertedAccount, InsertedLink, Claiming
    <3> QED BY <2>1, <3>1, <3>2 DEF Exclusion, HoldsAttempt
  <2> QED BY <2>2, <2>3
<1> QED BY <1>6, <1>7, <1>9, <1>10, <1>11, <1>12, <1>13, <1>14, <1>15, <1>16

\* What a step of another must leave alone for y to keep what it has inserted and found.
LEMMA OthersInsertAndFind ==
  ASSUME ProviderInv, NEW y \in Exchange, exchange'[y] = exchange[y],
         exchange[y].at \in Claiming => ClaimedRow(y)' = ClaimedRow(y),
         \A f \in Email : InsertedAccount(y) /\ ClaimedRow(y).email = f => (EmailTaken(f)' => EmailTaken(f)),
         \A i \in Identity : link[i] # None \/ (InsertedLink(y) /\ ClaimedRow(y).identity = i) => link'[i] = link[i],
         exchange[y].at = "commitSession" /\ ActiveAccount(exchange[y].account) => ActiveAccount(exchange[y].account)',
         \A s \in Exchange : session[s].state # "free" => session'[s].account = session[s].account
  PROVE  InsertFits(y)' /\ FoundFits(y)'
<1>1. InsertFits(y) /\ FoundFits(y) /\ PresentedFits(y) /\ exchange[y] \in ExchangeState
  BY DEF ProviderInv, ExchangesFit, TypeOK
<1>2. exchange[y].at \in {"createAccount", "createLink", "commitSession", "openWindow", "commitWindow"} =>
        ClaimedRow(y)' = ClaimedRow(y)
  BY DEF Claiming
<1>3. InsertedAccount(y)' = InsertedAccount(y) /\ InsertedLink(y)' = InsertedLink(y)
  BY DEF InsertedAccount, InsertedLink
<1>4. InsertFits(y)'
  <2>1. InsertedAccount(y) \/ InsertedLink(y) => exchange[y].at \in {"createLink", "commitSession"}
    BY DEF InsertedAccount, InsertedLink
  <2>2. ASSUME InsertedAccount(y), NEW f, f = ClaimedRow(y).email PROVE f # None /\ ~EmailTaken(f)'
    <3>1. f # None /\ ~EmailTaken(f)
      BY <1>1, <2>2 DEF InsertFits
    <3>2. f \in Email
      BY <2>1, <2>2, <3>1, HeldRow DEF Claiming, AttemptRow
    <3> QED BY <2>2, <3>1, <3>2
  <2>3. ASSUME InsertedAccount(y) PROVE ClaimedRow(y).email' # None /\ ~EmailTaken(ClaimedRow(y).email)'
    <3>1. PICK f : f = ClaimedRow(y).email
      OBVIOUS
    <3>2. ClaimedRow(y).email' = f
      BY <1>2, <2>1, <2>3, <3>1
    <3>3. f # None /\ ~EmailTaken(f)'
      BY <2>2, <2>3, <3>1
    <3> QED BY <3>2, <3>3 DEF EmailTaken
  <2>4. InsertedAccount(y)' => ClaimedRow(y).email' # None /\ ~EmailTaken(ClaimedRow(y).email)'
    BY <1>3, <2>3
  <2>5. InsertedLink(y)' => link'[ClaimedRow(y).identity'] = None
    <3>1. InsertedLink(y) => ClaimedRow(y).identity \in Identity
      BY <2>1, HeldRow DEF Claiming
    <3> QED BY <1>1, <1>2, <1>3, <2>1, <3>1 DEF InsertFits
  <2>6. /\ exchange'[y].at = "createAccount" => ClaimedRow(y).email' # None
        /\ exchange'[y].at = "createLink" => exchange'[y].account = y
    BY <1>1, <1>2 DEF InsertFits
  <2> QED BY <2>4, <2>5, <2>6 DEF InsertFits
<1>5. FoundFits(y)'
  <2>1. exchange[y].at \in {"openWindow", "commitWindow"} =>
          exchange[y].session \in Exchange /\ session[exchange[y].session].state # "free"
    BY <1>1 DEF PresentedFits, ExchangeState
  <2>2. CASE exchange[y].at \in {"openWindow", "commitWindow"}
    <3>1. link[ClaimedRow(y).identity] = session[exchange[y].session].account /\ ClaimedRow(y).identity \in Identity
      BY <1>1, <2>2, HeldRow DEF FoundFits, Claiming
    <3>2. session[exchange[y].session].account # None
      BY <2>1, <2>2 DEF ProviderInv, SessionsFit
    <3> QED BY <1>2, <2>1, <2>2, <3>1, <3>2 DEF FoundFits
  <2>3. CASE exchange[y].at = "commitSession" /\ exchange[y].account # y
    <3>1. /\ exchange[y].account # None /\ ActiveAccount(exchange[y].account)
          /\ link[ClaimedRow(y).identity] = exchange[y].account /\ ClaimedRow(y).identity \in Identity
      BY <1>1, <2>3, HeldRow DEF FoundFits, Claiming
    <3> QED BY <1>2, <2>3, <3>1 DEF FoundFits
  <2> QED BY <2>2, <2>3 DEF FoundFits
<1> QED BY <1>4, <1>5

LEMMA CommitUnavailableInv == ASSUME ProviderInv, NEW x \in Exchange, CommitUnavailable(x) PROVE ProviderInv'
<1> DEFINE e == [exchange[x] EXCEPT !.at = "unavailable"]
<1>1. /\ exchange[x].at = "commitUnavailable" /\ Claimed(x) /\ exchange' = [exchange EXCEPT ![x] = e]
      /\ account' = account /\ taken' = taken /\ link' = link /\ session' = session
      /\ callback' = callback /\ now' = now
  BY DEF CommitUnavailable, GoTo, accounts
<1>2. exchange[x].at \in Claiming
  BY <1>1 DEF Claiming
<1>3. /\ e \in ExchangeState /\ e.at = "unavailable" /\ e.attempt = exchange[x].attempt
      /\ e.session = exchange[x].session /\ e.code = exchange[x].code
  <2>1. exchange[x] \in ExchangeState
    BY DEF ProviderInv, TypeOK
  <2> QED BY <2>1 DEF ExchangeState, Done, Spent
<1> HIDE DEF e
<1>4. /\ attempt' \in [Attempt -> AttemptRow] /\ exchange' \in [Exchange -> ExchangeState]
      /\ CallbacksFit' /\ ResultsFit' /\ RejectionsCount'
      /\ \A y \in Exchange : PresentedFits(y)' /\ ClaimFits(y)' /\ SpentFits(y)'
      /\ \A y, z \in Exchange : y # z => Exclusion(y, z)'
      /\ exchange'[x] = e /\ ~InsertedAccount(x)' /\ ~InsertedLink(x)'
      /\ \A y \in Exchange \ {x} :
           /\ exchange'[y] = exchange[y]
           /\ InsertedAccount(y)' = InsertedAccount(y) /\ InsertedLink(y)' = InsertedLink(y)
           /\ exchange[y].at \in Claiming => ClaimedRow(y)' = ClaimedRow(y)
  <2>1. e.at \in Spent /\ (e.at = "window" => e.session # None)
    BY <1>3 DEF Spent
  <2> QED BY <1>1, <1>2, <1>3, <2>1, ResultSpent
<1>5. ASSUME NEW y \in Exchange PROVE InsertFits(y)' /\ FoundFits(y)'
  <2>1. CASE y = x
    BY <1>3, <1>4, <2>1 DEF InsertFits, FoundFits
  <2>2. CASE y # x
    <3>1. \A f : EmailTaken(f)' = EmailTaken(f) /\ ActiveAccount(f)' = ActiveAccount(f)
      BY <1>1 DEF EmailTaken, ActiveAccount
    <3>2. exchange[y].at = "commitSession" /\ ActiveAccount(exchange[y].account) => ActiveAccount(exchange[y].account)'
      BY <1>1, <1>4, <2>2 DEF ActiveAccount
    <3> QED BY <1>1, <1>4, <2>2, <3>1, <3>2, OthersInsertAndFind
  <2> QED BY <2>1, <2>2
<1>6. ExchangesFit'
  BY <1>4, <1>5 DEF ExchangesFit
<1>7. TypeOK'
  BY <1>1, <1>4 DEF ProviderInv, TypeOK
<1>8. SessionsFit' /\ AccountsStayLinked'
  BY <1>1, <1>3, <1>4 DEF ProviderInv, SessionsFit, AccountsStayLinked, ActiveAccount
<1> QED BY <1>4, <1>6, <1>7, <1>8 DEF ProviderInv

LEMMA CommitWindowInv == ASSUME ProviderInv, NEW x \in Exchange, CommitWindow(x) PROVE ProviderInv'
<1> DEFINE e == [exchange[x] EXCEPT !.at = "window", !.stamp = FALSE]
           s == exchange[x].session
           row == [session[s] EXCEPT !.open = @ \/ exchange[x].stamp]
<1>1. /\ exchange[x].at = "commitWindow"
      /\ account' = account /\ taken' = taken /\ link' = link /\ callback' = callback /\ now' = now
  BY DEF CommitWindow, accounts
<1>2. CASE GiveUp(x) /\ UNCHANGED <<attempt, session>>
  <2>1. UNCHANGED <<tables, callback, now>> /\ exchange[x].at \notin Done
    BY <1>1, <1>2 DEF tables, accounts, Done, Spent
  <2> QED BY <1>2, <2>1, GiveUpInv
<1>3. CASE /\ session[s].state = "live" /\ Claimed(x) /\ session' = [session EXCEPT ![s] = row]
           /\ exchange' = [exchange EXCEPT ![x] = e]
  <2>1. exchange[x].at \in Claiming
    BY <1>1 DEF Claiming
  <2>2. exchange[x] \in ExchangeState /\ session \in [Exchange -> SessionRow] /\ s \in Exchange /\ s # None
    BY <1>1, ConstantsAssumption DEF ProviderInv, TypeOK, ExchangesFit, PresentedFits, ExchangeState
  <2>3. /\ e \in ExchangeState /\ e.at = "window" /\ e.attempt = exchange[x].attempt
        /\ e.session = exchange[x].session /\ e.code = exchange[x].code
    BY <2>2 DEF ExchangeState, Done, Spent
  <2>4. session[s] \in SessionRow /\ exchange[x].stamp \in BOOLEAN
    BY <2>2 DEF ExchangeState
  <2>5. row \in SessionRow /\ row.state = session[s].state /\ row.account = session[s].account
    BY <2>4 DEF SessionRow
  <2> HIDE DEF e, row
  <2>6. /\ session' \in [Exchange -> SessionRow]
        /\ \A t \in Exchange : session'[t].state = session[t].state /\ session'[t].account = session[t].account
    BY <1>3, <2>2, <2>5
  <2>7. /\ attempt' \in [Attempt -> AttemptRow] /\ exchange' \in [Exchange -> ExchangeState]
        /\ CallbacksFit' /\ ResultsFit' /\ RejectionsCount'
        /\ \A y \in Exchange : PresentedFits(y)' /\ ClaimFits(y)' /\ SpentFits(y)'
        /\ \A y, z \in Exchange : y # z => Exclusion(y, z)'
        /\ exchange'[x] = e /\ ~InsertedAccount(x)' /\ ~InsertedLink(x)'
        /\ \A y \in Exchange \ {x} :
             /\ exchange'[y] = exchange[y]
             /\ InsertedAccount(y)' = InsertedAccount(y) /\ InsertedLink(y)' = InsertedLink(y)
             /\ exchange[y].at \in Claiming => ClaimedRow(y)' = ClaimedRow(y)
    <3>1. e.at \in Spent /\ e.session # None
      BY <2>2, <2>3 DEF Spent
    <3> QED BY <1>1, <1>3, <2>1, <2>3, <2>6, <3>1, ResultSpent
  <2>8. ASSUME NEW y \in Exchange PROVE InsertFits(y)' /\ FoundFits(y)'
    <3>1. CASE y = x
      BY <2>3, <2>7, <3>1 DEF InsertFits, FoundFits
    <3>2. CASE y # x
      <4>1. \A f : EmailTaken(f)' = EmailTaken(f) /\ ActiveAccount(f)' = ActiveAccount(f)
        BY <1>1 DEF EmailTaken, ActiveAccount
      <4>2. exchange[y].at = "commitSession" /\ ActiveAccount(exchange[y].account) => ActiveAccount(exchange[y].account)'
        BY <1>1, <2>7, <3>2 DEF ActiveAccount
      <4> QED BY <1>1, <2>6, <2>7, <3>2, <4>1, <4>2, OthersInsertAndFind
    <3> QED BY <3>1, <3>2
  <2>9. ExchangesFit'
    BY <2>7, <2>8 DEF ExchangesFit
  <2>10. TypeOK'
    BY <1>1, <2>6, <2>7 DEF ProviderInv, TypeOK
  <2>11. SessionsFit' /\ AccountsStayLinked'
    <3>1. exchange[x].at # "session" /\ exchange'[x].at # "session"
      BY <1>1, <2>3, <2>7
    <3>2. SessionsFit'
      BY <1>1, <2>6, <2>7, <3>1 DEF ProviderInv, SessionsFit, ActiveAccount
    <3> QED BY <1>1, <3>2 DEF ProviderInv, AccountsStayLinked, ActiveAccount
  <2> QED BY <2>7, <2>9, <2>10, <2>11 DEF ProviderInv
<1> QED BY <1>2, <1>3 DEF CommitWindow

\* The commit of a login: its session, and the account and link that it may have made.
LEMMA CommitSessionInv == ASSUME ProviderInv, NEW x \in Exchange, CommitSession(x) PROVE ProviderInv'
<1> DEFINE e == [exchange[x] EXCEPT !.at = "session"]
           n == exchange[x].account
           i == ClaimedRow(x).identity
           mail == ClaimedRow(x).email
           made == [state |-> "active", email |-> mail]
           opened == [state |-> "live", account |-> n, open |-> TRUE]
<1>1. /\ exchange[x].at = "commitSession" /\ Claimed(x) /\ exchange' = [exchange EXCEPT ![x] = e]
      /\ session' = [session EXCEPT ![x] = opened] /\ callback' = callback /\ taken' = taken /\ now' = now
      /\ IF n # x THEN account' = account /\ link' = link
                  ELSE account' = [account EXCEPT ![x] = made] /\ link' = [link EXCEPT ![i] = x]
  BY DEF CommitSession, GoTo
<1>2. /\ exchange[x] \in ExchangeState /\ session \in [Exchange -> SessionRow]
      /\ account \in [Exchange -> [state : {"free", "active", "retired"}, email : Email \cup {None}]]
      /\ link \in [Identity -> Exchange \cup {None}] /\ x # None
  BY ConstantsAssumption DEF ProviderInv, TypeOK
<1>3. exchange[x].at \in Claiming
  BY <1>1 DEF Claiming
<1>4. i \in Identity /\ mail \in Email \cup {None}
  BY <1>3, HeldRow DEF AttemptRow
<1>5. account[x].state = "free" /\ session[x].state = "free"
  BY <1>1 DEF ProviderInv, SessionsFit
<1>6. n # x => n \in Exchange /\ ActiveAccount(n) /\ link[i] = n
  BY <1>1, <1>2 DEF ProviderInv, ExchangesFit, FoundFits, ExchangeState
<1>7. n = x => mail # None /\ ~EmailTaken(mail) /\ link[i] = None
  <2>1. n = x => InsertedAccount(x) /\ InsertedLink(x)
    BY <1>1 DEF InsertedAccount, InsertedLink
  <2> QED BY <2>1 DEF ProviderInv, ExchangesFit, InsertFits
<1>8. /\ e \in ExchangeState /\ e.at = "session" /\ e.attempt = exchange[x].attempt /\ e.account = n
      /\ e.session = exchange[x].session /\ e.code = exchange[x].code
  BY <1>2 DEF ExchangeState, Done, Spent
<1>9. n \in Exchange /\ opened \in SessionRow /\ opened.state = "live" /\ opened.account = n
  BY <1>6 DEF SessionRow
<1>10. made \in [state : {"free", "active", "retired"}, email : Email \cup {None}]
       /\ made.state = "active" /\ made.email = mail
  BY <1>4
<1>11. \A y \in Exchange \ {x} : InsertedAccount(y) /\ n = x => ClaimedRow(y).email # mail
  BY <1>1 DEF ProviderInv, ExchangesFit, Exclusion, InsertedAccount
<1>12. \A y \in Exchange \ {x} : InsertedLink(y) /\ n = x => ClaimedRow(y).identity # i
  BY <1>1 DEF ProviderInv, ExchangesFit, Exclusion, InsertedLink
<1> HIDE DEF e, n, i, mail, made, opened
<1>13. session' \in [Exchange -> SessionRow] /\ session'[x] = opened
       /\ \A s \in Exchange : s # x => session'[s] = session[s]
  BY <1>1, <1>2, <1>9
<1>14. /\ account' \in [Exchange -> [state : {"free", "active", "retired"}, email : Email \cup {None}]]
       /\ account'[x] = (IF n = x THEN made ELSE account[x])
       /\ \A m \in Exchange : m # x => account'[m] = account[m]
  BY <1>1, <1>2, <1>10
<1>15. /\ link' \in [Identity -> Exchange \cup {None}]
       /\ link'[i] = n /\ \A j \in Identity : j # i => link'[j] = link[j]
  BY <1>1, <1>2, <1>4, <1>6
<1>16. /\ attempt' \in [Attempt -> AttemptRow] /\ exchange' \in [Exchange -> ExchangeState]
       /\ CallbacksFit' /\ ResultsFit' /\ RejectionsCount'
       /\ \A y \in Exchange : PresentedFits(y)' /\ ClaimFits(y)' /\ SpentFits(y)'
       /\ \A y, z \in Exchange : y # z => Exclusion(y, z)'
       /\ exchange'[x] = e /\ ~InsertedAccount(x)' /\ ~InsertedLink(x)'
       /\ \A y \in Exchange \ {x} :
            /\ exchange'[y] = exchange[y]
            /\ InsertedAccount(y)' = InsertedAccount(y) /\ InsertedLink(y)' = InsertedLink(y)
            /\ exchange[y].at \in Claiming => ClaimedRow(y)' = ClaimedRow(y)
  <2>1. e.at \in Spent /\ (e.at = "window" => e.session # None)
    BY <1>8 DEF Spent
  <2>2. \A s \in Exchange : session[s].state # "free" => session'[s].state # "free"
    BY <1>9, <1>13
  <2> QED BY <1>1, <1>3, <1>8, <2>1, <2>2, ResultSpent
<1>17. \A m \in Exchange : m = n \/ ActiveAccount(m) => ActiveAccount(m)'
  BY <1>5, <1>6, <1>9, <1>10, <1>14 DEF ActiveAccount
<1>18. \A f : EmailTaken(f)' => EmailTaken(f) \/ (n = x /\ f = mail)
  BY <1>1, <1>5, <1>10, <1>14 DEF EmailTaken, ActiveAccount
<1>19. ASSUME NEW y \in Exchange PROVE InsertFits(y)' /\ FoundFits(y)'
  <2>1. CASE y = x
    BY <1>8, <1>16, <2>1 DEF InsertFits, FoundFits
  <2>2. CASE y # x
    <3>1. \A f \in Email : InsertedAccount(y) /\ ClaimedRow(y).email = f => (EmailTaken(f)' => EmailTaken(f))
      BY <1>11, <1>18, <2>2
    <3>2. \A j \in Identity : link[j] # None \/ (InsertedLink(y) /\ ClaimedRow(y).identity = j) => link'[j] = link[j]
      BY <1>6, <1>7, <1>12, <1>15, <2>2
    <3>3. exchange[y].at = "commitSession" /\ ActiveAccount(exchange[y].account) => ActiveAccount(exchange[y].account)'
      <4>1. \A m : ActiveAccount(m) /\ m = exchange[y].account /\ m \in Exchange => ActiveAccount(m)'
        BY <1>17
      <4>2. exchange[y].account \in Exchange \cup {None} /\ exchange'[y] = exchange[y]
        BY <1>16, <2>2 DEF ProviderInv, TypeOK, ExchangeState
      <4>3. None \notin Exchange
        BY ConstantsAssumption
      <4>4. CASE exchange[y].account \in Exchange
        BY <4>1, <4>2, <4>4 DEF ActiveAccount
      <4>5. CASE exchange[y].account = None
        BY <4>3, <4>5 DEF ProviderInv, ExchangesFit, FoundFits
      <4> QED BY <4>2, <4>4, <4>5
    <3>4. \A s \in Exchange : session[s].state # "free" => session'[s].account = session[s].account
      BY <1>5, <1>13
    <3> QED BY <1>16, <2>2, <3>1, <3>2, <3>3, <3>4, OthersInsertAndFind
  <2> QED BY <2>1, <2>2
<1>20. ExchangesFit'
  BY <1>16, <1>19 DEF ExchangesFit
<1>21. TypeOK'
  BY <1>1, <1>13, <1>14, <1>15, <1>16 DEF ProviderInv, TypeOK
<1>22. SessionsFit'
  <2> SUFFICES ASSUME NEW y \in Exchange
               PROVE  /\ account'[y].state # "free" \/ session'[y].state # "free" => exchange'[y].at = "session"
                      /\ exchange'[y].at = "session" => exchange'[y].account # None
                      /\ ActiveAccount(y)' => account'[y].email # None
                      /\ session'[y].account # None <=> session'[y].state # "free"
                      /\ session'[y].state = "live" => ActiveAccount(session[y].account)'
    BY DEF SessionsFit
  <2>1. None \notin Exchange
    BY ConstantsAssumption
  <2>2. CASE y = x
    <3>1. /\ exchange'[y].at = "session" /\ exchange'[y].account = n
          /\ session'[y].account = n /\ session'[y].state = "live"
      BY <1>8, <1>9, <1>13, <1>16, <2>2
    <3>2. ActiveAccount(y)' => account'[y].email # None
      BY <1>5, <1>7, <1>10, <1>14, <2>2 DEF ActiveAccount
    <3>3. ActiveAccount(session[y].account)'
      <4>1. \A m \in Exchange : m = n => ActiveAccount(m)'
        BY <1>17
      <4> QED BY <1>9, <3>1, <4>1 DEF ActiveAccount
    <3> QED BY <1>9, <2>1, <3>1, <3>2, <3>3
  <2>3. CASE y # x
    <3>1. /\ account'[y] = account[y] /\ session'[y] = session[y] /\ exchange'[y] = exchange[y]
      BY <1>13, <1>14, <1>16, <2>3
    <3>2. session[y].state = "live" => ActiveAccount(session[y].account)'
      <4>1. \A m \in Exchange : ActiveAccount(m) /\ m = session[y].account => ActiveAccount(m)'
        BY <1>17
      <4>2. session[y].state = "live" => session[y].account \in Exchange /\ ActiveAccount(session[y].account)
        BY <1>2 DEF ProviderInv, SessionsFit, SessionRow
      <4> QED BY <3>1, <4>1, <4>2 DEF ActiveAccount
    <3> QED BY <3>1, <3>2 DEF ProviderInv, SessionsFit, ActiveAccount
  <2> QED BY <2>2, <2>3
<1>23. AccountsStayLinked'
  <2>1. CASE n # x
    BY <1>1, <2>1 DEF ProviderInv, AccountsStayLinked, ActiveAccount
  <2>2. CASE n = x
    <3>1. \A m \in Exchange : account'[m].state # "free" => \E j \in Identity : link'[j] = m
      <4> SUFFICES ASSUME NEW m \in Exchange, account'[m].state # "free" PROVE \E j \in Identity : link'[j] = m
        OBVIOUS
      <4>1. CASE m = x
        BY <1>4, <1>15, <2>2, <4>1
      <4>2. CASE m # x
        <5>1. PICK j \in Identity : link[j] = m
          BY <1>14, <4>2 DEF ProviderInv, AccountsStayLinked
        <5>2. m # None
          BY ConstantsAssumption
        <5>3. j # i
          BY <1>7, <2>2, <5>1, <5>2
        <5> QED BY <1>15, <5>1, <5>3
      <4> QED BY <4>1, <4>2
    <3>2. \A j \in Identity : link[j] # x
      BY <1>2, <1>5 DEF ProviderInv, AccountsStayLinked
    <3>3. \A j, k \in Identity : link'[j] # None /\ link'[j] = link'[k] => j = k
      BY <1>15, <2>2, <3>2 DEF ProviderInv, AccountsStayLinked
    <3>4. \A j \in Identity : link'[j] # None => account'[link'[j]].state # "free"
      <4> SUFFICES ASSUME NEW j \in Identity, link'[j] # None PROVE account'[link'[j]].state # "free"
        OBVIOUS
      <4>1. CASE j = i
        BY <1>10, <1>14, <1>15, <2>2, <4>1
      <4>2. CASE j # i
        <5>1. link'[j] = link[j] /\ link[j] \in Exchange /\ link[j] # x
          BY <1>2, <1>15, <3>2, <4>2
        <5> QED BY <1>14, <5>1 DEF ProviderInv, AccountsStayLinked
      <4> QED BY <4>1, <4>2
    <3>5. /\ \A m \in Exchange : ActiveAccount(m) => account[m].email # mail
          /\ mail \notin taken
      BY <1>7, <2>2 DEF EmailTaken
    <3>6. \A l, m \in Exchange : ActiveAccount(l)' /\ ActiveAccount(m)' /\ l # m => account'[l].email # account'[m].email
      BY <1>10, <1>14, <2>2, <3>5 DEF ProviderInv, AccountsStayLinked, ActiveAccount
    <3>7. \A m \in Exchange : ActiveAccount(m)' => account'[m].email \notin taken
      BY <1>10, <1>14, <2>2, <3>5 DEF ProviderInv, AccountsStayLinked, ActiveAccount
    <3> QED BY <1>1, <3>1, <3>3, <3>4, <3>6, <3>7 DEF AccountsStayLinked
  <2> QED BY <2>1, <2>2
<1> QED BY <1>16, <1>20, <1>21, <1>22, <1>23 DEF ProviderInv

\* A rejection that is counted is one failure more, and one answer of rejection more.
LEMMA FailureInv == ASSUME ProviderInv, NEW x \in Exchange, RecordProviderHandoffFailure(x) PROVE ProviderInv'
<1> DEFINE a == exchange[x].attempt
           e == [exchange[x] EXCEPT !.at = "rejected"]
           row == [attempt[a] EXCEPT !.failures = @ + 1]
<1>1. /\ exchange[x].at = "count" /\ (Counts(a) => AttemptUnlocked(a)) /\ exchange' = [exchange EXCEPT ![x] = e]
      /\ attempt' = IF Counts(a) THEN [attempt EXCEPT ![a] = row] ELSE attempt
      /\ account' = account /\ taken' = taken /\ link' = link /\ session' = session
      /\ callback' = callback /\ now' = now
  BY DEF RecordProviderHandoffFailure, GoTo, accounts
<1>2. /\ attempt \in [Attempt -> AttemptRow] /\ exchange \in [Exchange -> ExchangeState]
      /\ callback \in [Callback -> CallbackState]
  BY DEF ProviderInv, TypeOK
<1>3. a \in Attempt /\ attempt[a].state # "free" /\ attempt[a] \in AttemptRow /\ exchange[x] \in ExchangeState
  BY <1>1, <1>2, AttemptOf
<1>4. /\ e \in ExchangeState /\ e.at = "rejected" /\ e.attempt = a /\ e.session = exchange[x].session
      /\ e.code = exchange[x].code
  BY <1>3 DEF ExchangeState, Done
<1> HIDE DEF a, e
<1>5. /\ Counts(a) => row \in AttemptRow
      /\ row.failures = attempt[a].failures + 1 /\ row.state = attempt[a].state
      /\ row.consumed = attempt[a].consumed /\ row.code = attempt[a].code /\ row.identity = attempt[a].identity
      /\ row.claimed = attempt[a].claimed /\ row.expires = attempt[a].expires
  <2>1. Counts(a) => attempt[a].failures + 1 \in 0..MaxFailures
    BY <1>3, ConstantsAssumption DEF Counts, AttemptRow
  <2> QED BY <1>3, <2>1 DEF AttemptRow
<1> HIDE DEF row
<1>6. /\ attempt' \in [Attempt -> AttemptRow]
      /\ attempt'[a] = (IF Counts(a) THEN row ELSE attempt[a])
      /\ \A b \in Attempt : b # a => attempt'[b] = attempt[b]
  BY <1>1, <1>2, <1>3, <1>5
<1>7. /\ exchange' \in [Exchange -> ExchangeState] /\ exchange'[x] = e
      /\ \A y \in Exchange : y # x => exchange'[y] = exchange[y]
  BY <1>1, <1>2, <1>4
<1>8. TypeOK'
  BY <1>1, <1>6, <1>7 DEF ProviderInv, TypeOK
<1>9. \A b \in Attempt : /\ attempt'[b].state = attempt[b].state /\ attempt'[b].consumed = attempt[b].consumed
                         /\ attempt'[b].code = attempt[b].code /\ attempt'[b].identity = attempt[b].identity
                         /\ attempt'[b].claimed = attempt[b].claimed /\ attempt'[b].expires = attempt[b].expires
  BY <1>5, <1>6
<1>10. CallbacksFit' /\ ResultsFit'
  <2>1. \A j \in Callback : callback[j].attempt # None => callback[j].attempt \in Attempt
    BY <1>2 DEF CallbackState
  <2>2. CallbacksFit'
    BY <1>1, <1>9, <2>1 DEF ProviderInv, CallbacksFit
  <2> QED BY <1>1, <1>9, <2>2 DEF ProviderInv, ResultsFit
<1>11. ASSUME NEW y \in Exchange, exchange[y].at \in Claiming PROVE y # x /\ ClaimedRow(y)' = ClaimedRow(y)
  <2>1. y # x /\ exchange'[y] = exchange[y]
    BY <1>1, <1>7, <1>11 DEF Claiming
  <2>2. exchange[y].attempt \in Attempt
    BY <1>11, HeldRow
  <2>3. exchange[y].attempt = a => ~Counts(a)
    BY <1>1, <1>11 DEF AttemptUnlocked, HoldsAttempt
  <2> QED BY <1>6, <2>1, <2>2, <2>3 DEF ClaimedRow
<1>12. \A y \in Exchange : InsertedAccount(y)' = InsertedAccount(y) /\ InsertedLink(y)' = InsertedLink(y)
  BY <1>1, <1>4, <1>7 DEF InsertedAccount, InsertedLink
<1>13. ASSUME NEW y \in Exchange
       PROVE  PresentedFits(y)' /\ ClaimFits(y)' /\ SpentFits(y)' /\ InsertFits(y)' /\ FoundFits(y)'
  <2>1. PresentedFits(y) /\ ClaimFits(y) /\ SpentFits(y) /\ exchange[y] \in ExchangeState
    BY <1>2 DEF ProviderInv, ExchangesFit
  <2>2. CASE y = x
    <3>1. PresentedFits(x)'
      BY <1>1, <1>3, <1>4, <1>7, <1>9, <2>1, <2>2, ConstantsAssumption DEF PresentedFits
    <3>2. ClaimFits(x)' /\ SpentFits(x)'
      BY <1>4, <1>7 DEF ClaimFits, SpentFits, Claiming, Spent
    <3>3. ~InsertedAccount(x)' /\ ~InsertedLink(x)'
      BY <1>4, <1>7 DEF InsertedAccount, InsertedLink
    <3> QED BY <1>4, <1>7, <2>2, <3>1, <3>2, <3>3 DEF InsertFits, FoundFits
  <2>3. CASE y # x
    <3>1. exchange'[y] = exchange[y] /\ (exchange[y].at \in Claiming => ClaimedRow(y)' = ClaimedRow(y))
      BY <1>7, <1>11, <2>3
    <3>2. exchange[y].at \notin {"idle", "failed"} => exchange[y].attempt \in Attempt
      BY AttemptOf
    <3>3. PresentedFits(y)' /\ ClaimFits(y)'
      BY <1>1, <1>9, <2>1, <3>1, <3>2 DEF PresentedFits, ClaimFits
    <3>4. SpentFits(y)'
      <4>1. exchange[y].at \in Spent => exchange[y].attempt \in Attempt
        BY <3>2 DEF Spent
      <4> QED BY <1>1, <1>9, <2>1, <3>1, <4>1 DEF SpentFits, ClaimedRow
    <3>5. /\ \A f : EmailTaken(f)' = EmailTaken(f)
          /\ exchange[y].at = "commitSession" /\ ActiveAccount(exchange[y].account) => ActiveAccount(exchange[y].account)'
      BY <1>1, <3>1 DEF EmailTaken, ActiveAccount
    <3> QED BY <1>1, <3>1, <3>3, <3>4, <3>5, OthersInsertAndFind
  <2> QED BY <2>2, <2>3
<1>14. ASSUME NEW y \in Exchange, NEW z \in Exchange, y # z PROVE Exclusion(y, z)'
  <2>1. Exclusion(y, z)
    BY <1>14 DEF ProviderInv, ExchangesFit
  <2>2. \A w \in Exchange : InsertedAccount(w) \/ InsertedLink(w) => ClaimedRow(w)' = ClaimedRow(w)
    BY <1>11 DEF InsertedAccount, InsertedLink, Claiming
  <2>3. \A w \in Exchange : /\ exchange'[w].at \in Claiming <=> exchange[w].at \in Claiming
                            /\ exchange'[w].attempt = exchange[w].attempt
    BY <1>1, <1>4, <1>7 DEF Claiming, a
  <2> QED BY <1>12, <2>1, <2>2, <2>3 DEF Exclusion, HoldsAttempt
<1>15. ExchangesFit'
  BY <1>13, <1>14 DEF ExchangesFit
<1>16. SessionsFit' /\ AccountsStayLinked'
  BY <1>1, <1>4, <1>7 DEF ProviderInv, SessionsFit, AccountsStayLinked, ActiveAccount
<1>17. RejectionsCount'
  <2> SUFFICES ASSUME NEW b \in Attempt, Counts(b)'
               PROVE  IsFiniteSet(Rejected(b)') /\ Cardinality(Rejected(b)') <= attempt'[b].failures
    BY DEF RejectionsCount
  <2>1. Counts(b)
    <3>1. attempt'[b].failures < MaxFailures => attempt[b].failures < MaxFailures
      <4>1. attempt[b].failures \in Nat /\ MaxFailures \in Nat
        BY <1>2, ConstantsAssumption DEF AttemptRow
      <4>2. attempt'[b].failures \in {attempt[b].failures, attempt[b].failures + 1}
        BY <1>5, <1>6
      <4> QED BY <4>1, <4>2
    <3> QED BY <1>1, <1>9, <3>1 DEF Counts, Unexpired
  <2>2. IsFiniteSet(Rejected(b)) /\ Cardinality(Rejected(b)) <= attempt[b].failures
    BY <2>1 DEF ProviderInv, RejectionsCount
  <2>3. CASE b # a
    <3>1. Rejected(b)' = Rejected(b)
      BY <1>1, <1>4, <1>7, <2>3 DEF Rejected
    <3> QED BY <1>6, <2>2, <2>3, <3>1
  <2>4. CASE b = a
    <3>1. Rejected(b)' = Rejected(b) \cup {x} /\ x \notin Rejected(b)
      BY <1>1, <1>4, <1>7, <2>4 DEF Rejected
    <3>2. attempt'[b].failures = attempt[b].failures + 1
      BY <1>5, <1>6, <2>1, <2>4
    <3>3. IsFiniteSet(Rejected(b)') /\ Cardinality(Rejected(b)') = Cardinality(Rejected(b)) + 1
      BY <2>2, <3>1, FS_AddElement
    <3>4. Cardinality(Rejected(b)) \in Nat /\ attempt[b].failures \in Nat
      BY <1>2, <2>2, FS_CardinalityType, ConstantsAssumption DEF AttemptRow
    <3> QED BY <2>2, <3>2, <3>3, <3>4
  <2> QED BY <2>3, <2>4
<1> QED BY <1>8, <1>10, <1>15, <1>16, <1>17 DEF ProviderInv

-----------------------------------------------------------------------------
(* The rest of the service.                                                *)

\* Steps of others that leave attempts, callbacks and exchanges alone.
LEMMA OthersMove ==
  ASSUME ProviderInv, UNCHANGED <<attempt, callback, exchange, link, now>>, TypeOK', SessionsFit', AccountsStayLinked',
         \A x \in Exchange, f \in Email :
           InsertedAccount(x) /\ ClaimedRow(x).email = f => (EmailTaken(f)' => EmailTaken(f)),
         \A x, n \in Exchange :
           exchange[x].at = "commitSession" /\ exchange[x].account = n /\ ActiveAccount(n) => ActiveAccount(n)',
         \A s \in Exchange : session'[s].account = session[s].account
                           /\ (session[s].state # "free" => session'[s].state # "free")
  PROVE  ProviderInv'
<1>1. CallbacksFit' /\ ResultsFit'
  BY DEF ProviderInv, CallbacksFit, ResultsFit
<1>2. RejectionsCount'
  BY DEF ProviderInv, RejectionsCount, Counts, Unexpired, Rejected
<1>3. ASSUME NEW x \in Exchange
      PROVE  PresentedFits(x)' /\ ClaimFits(x)' /\ SpentFits(x)' /\ InsertFits(x)' /\ FoundFits(x)'
  <2>1. PresentedFits(x) /\ ClaimFits(x) /\ SpentFits(x) /\ FoundFits(x) /\ exchange[x] \in ExchangeState
    BY DEF ProviderInv, ExchangesFit, TypeOK
  <2>2. PresentedFits(x)'
    BY <2>1 DEF PresentedFits, ExchangeState
  <2>3. ClaimFits(x)' /\ SpentFits(x)'
    BY <2>1 DEF ClaimFits, SpentFits, ClaimedRow
  <2>4. ClaimedRow(x)' = ClaimedRow(x)
    BY DEF ClaimedRow
  <2>5. exchange[x].at = "commitSession" /\ ActiveAccount(exchange[x].account) => ActiveAccount(exchange[x].account)'
    <3> SUFFICES ASSUME exchange[x].at = "commitSession", ActiveAccount(exchange[x].account)
                 PROVE  ActiveAccount(exchange[x].account)'
      OBVIOUS
    <3>1. exchange[x].account \in Exchange
      BY <2>1, ConstantsAssumption DEF FoundFits, ExchangeState
    <3>2. PICK n \in Exchange : n = exchange[x].account
      BY <3>1
    <3>3. ActiveAccount(n)'
      BY <3>2
    <3> QED BY <3>2, <3>3 DEF ActiveAccount
  <2> QED BY <2>2, <2>3, <2>4, <2>5, OthersInsertAndFind
<1>4. ASSUME NEW x \in Exchange, NEW y \in Exchange, x # y PROVE Exclusion(x, y)'
  <2>1. Exclusion(x, y)
    BY <1>4 DEF ProviderInv, ExchangesFit
  <2> QED BY <2>1 DEF Exclusion, HoldsAttempt, InsertedAccount, InsertedLink, ClaimedRow
<1>5. ExchangesFit'
  BY <1>3, <1>4 DEF ExchangesFit
<1> QED BY <1>1, <1>2, <1>5 DEF ProviderInv

LEMMA SignupInv == ASSUME ProviderInv, NEW e \in Email, Signup(e) PROVE ProviderInv'
<1>1. /\ EmailSettled(e) /\ ~EmailTaken(e) /\ taken' = taken \cup {e}
      /\ UNCHANGED <<attempt, callback, exchange, account, link, session, now>>
  BY DEF Signup
<1>2. TypeOK' /\ SessionsFit'
  BY <1>1 DEF ProviderInv, TypeOK, SessionsFit, ActiveAccount
<1>3. AccountsStayLinked'
  BY <1>1 DEF ProviderInv, AccountsStayLinked, ActiveAccount, EmailTaken
<1>4. \A x \in Exchange, f \in Email :
        InsertedAccount(x) /\ ClaimedRow(x).email = f => (EmailTaken(f)' => EmailTaken(f))
  BY <1>1 DEF EmailSettled, EmailTaken, ActiveAccount
<1>5. \A n : ActiveAccount(n)' = ActiveAccount(n)
  BY <1>1 DEF ActiveAccount
<1> QED BY <1>1, <1>2, <1>3, <1>4, <1>5, OthersMove

LEMMA ClaimAccountInv == ASSUME ProviderInv, NEW n \in Exchange, ClaimAccount(n) PROVE ProviderInv'
<1> DEFINE retired == [account[n] EXCEPT !.state = "retired"]
           End(s) == [session[s] EXCEPT !.state = "ended", !.open = FALSE]
<1>1. /\ ActiveAccount(n) /\ AccountUnlocked(n) /\ account' = [account EXCEPT ![n] = retired]
      /\ taken' = taken \cup {account[n].email}
      /\ session' = [s \in Exchange |-> IF session[s].account = n THEN End(s) ELSE session[s]]
      /\ UNCHANGED <<attempt, callback, exchange, link, now>>
  BY DEF ClaimAccount
<1>2. /\ account \in [Exchange -> [state : {"free", "active", "retired"}, email : Email \cup {None}]]
      /\ session \in [Exchange -> SessionRow]
  BY DEF ProviderInv, TypeOK
<1>3. /\ retired \in [state : {"free", "active", "retired"}, email : Email \cup {None}]
      /\ retired.state = "retired" /\ retired.email = account[n].email
  BY <1>2
<1>4. \A s \in Exchange : /\ End(s) \in SessionRow /\ End(s).state = "ended"
                          /\ End(s).account = session[s].account
  <2> SUFFICES ASSUME NEW s \in Exchange
               PROVE  End(s) \in SessionRow /\ End(s).state = "ended" /\ End(s).account = session[s].account
    OBVIOUS
  <2>1. session[s] \in SessionRow
    BY <1>2
  <2> QED BY <2>1 DEF SessionRow
<1> HIDE DEF retired, End
<1>5. /\ account'[n] = retired /\ \A m \in Exchange : m # n => account'[m] = account[m]
      /\ account' \in [Exchange -> [state : {"free", "active", "retired"}, email : Email \cup {None}]]
  BY <1>1, <1>2, <1>3
<1>6. /\ session' \in [Exchange -> SessionRow]
      /\ \A s \in Exchange : session'[s] = IF session[s].account = n THEN End(s) ELSE session[s]
  BY <1>1, <1>2, <1>4
<1>7. account[n].email \in Email /\ account[n].state = "active"
  BY <1>1, <1>2 DEF ProviderInv, SessionsFit, ActiveAccount
<1>8. TypeOK'
  BY <1>1, <1>5, <1>6, <1>7 DEF ProviderInv, TypeOK
<1>9. \A m \in Exchange : ActiveAccount(m)' <=> ActiveAccount(m) /\ m # n
  BY <1>3, <1>5 DEF ActiveAccount
<1>10. SessionsFit'
  <2> SUFFICES ASSUME NEW s \in Exchange
               PROVE  /\ account'[s].state # "free" \/ session'[s].state # "free" => exchange[s].at = "session"
                      /\ exchange[s].at = "session" => exchange[s].account # None
                      /\ ActiveAccount(s)' => account'[s].email # None
                      /\ session'[s].account # None <=> session'[s].state # "free"
                      /\ session'[s].state = "live" => ActiveAccount(session[s].account)'
    BY <1>1 DEF SessionsFit
  <2>1. exchange[s].at = "session" => exchange[s].account # None
    BY DEF ProviderInv, SessionsFit
  <2>2. account'[s].state # "free" => exchange[s].at = "session"
    BY <1>5, <1>7 DEF ProviderInv, SessionsFit
  <2>3. session'[s].account = session[s].account
    BY <1>4, <1>6
  <2>4. ActiveAccount(s)' => account'[s].email # None
    BY <1>5, <1>7, <1>9 DEF ProviderInv, SessionsFit
  <2>5. CASE session[s].account = n
    <3>1. session'[s].state = "ended" /\ n # None
      BY <1>4, <1>6, <2>5, ConstantsAssumption
    <3>2. exchange[s].at = "session"
      BY <2>5, ConstantsAssumption DEF ProviderInv, SessionsFit
    <3> QED BY <2>1, <2>3, <2>4, <2>5, <3>1, <3>2
  <2>6. CASE session[s].account # n
    <3>1. session'[s] = session[s]
      BY <1>6, <2>6
    <3>2. session[s].state = "live" => ActiveAccount(session[s].account)'
      <4>1. session[s].state = "live" => session[s].account \in Exchange /\ ActiveAccount(session[s].account)
        BY <1>2, ConstantsAssumption DEF ProviderInv, SessionsFit, SessionRow
      <4> QED BY <1>5, <2>6, <3>1, <4>1 DEF ActiveAccount
    <3> QED BY <2>1, <2>2, <2>4, <3>1, <3>2 DEF ProviderInv, SessionsFit
  <2> QED BY <2>5, <2>6
<1>11. AccountsStayLinked'
  <2>1. \A m \in Exchange : account'[m].state # "free" <=> account[m].state # "free"
    BY <1>3, <1>5, <1>7
  <2>2. \A m \in Exchange : account'[m].email = account[m].email
    BY <1>3, <1>5
  <2>3. \A i \in Identity : link[i] # None => link[i] \in Exchange
    BY DEF ProviderInv, TypeOK
  <2>4. /\ \A m \in Exchange : account'[m].state # "free" => \E i \in Identity : link[i] = m
        /\ \A i, j \in Identity : link[i] # None /\ link[i] = link[j] => i = j
        /\ \A i \in Identity : link[i] # None => account'[link[i]].state # "free"
    BY <2>1, <2>3 DEF ProviderInv, AccountsStayLinked
  <2>5. \A l, m \in Exchange : ActiveAccount(l)' /\ ActiveAccount(m)' /\ l # m => account'[l].email # account'[m].email
    BY <1>9, <2>2 DEF ProviderInv, AccountsStayLinked
  <2>6. \A m \in Exchange : ActiveAccount(m)' => account'[m].email \notin taken'
    BY <1>1, <1>9, <2>2 DEF ProviderInv, AccountsStayLinked
  <2> QED BY <1>1, <2>4, <2>5, <2>6 DEF AccountsStayLinked
<1>12. \A f : EmailTaken(f)' => EmailTaken(f)
  BY <1>1, <1>5, <1>9 DEF EmailTaken
<1>13. \A x, m \in Exchange :
         exchange[x].at = "commitSession" /\ exchange[x].account = m /\ ActiveAccount(m) => ActiveAccount(m)'
  BY <1>1, <1>9 DEF AccountUnlocked, HoldsAccount
<1>14. \A s \in Exchange : session'[s].account = session[s].account
                          /\ (session[s].state # "free" => session'[s].state # "free")
  BY <1>4, <1>6
<1> QED BY <1>1, <1>8, <1>10, <1>11, <1>12, <1>13, <1>14, OthersMove

\* A session ends, or its window closes.
LEMMA SessionMoves ==
  ASSUME ProviderInv, NEW s \in Exchange, session[s].state = "live", NEW row \in SessionRow,
         session' = [session EXCEPT ![s] = row], UNCHANGED <<attempt, callback, exchange, accounts, now>>,
         row.state \in {"live", "ended"}, row.account = session[s].account
  PROVE  ProviderInv'
<1>1. UNCHANGED <<account, taken, link>>
  BY DEF accounts
<1>2. /\ session' \in [Exchange -> SessionRow] /\ session'[s] = row
      /\ \A t \in Exchange : t # s => session'[t] = session[t]
  BY DEF ProviderInv, TypeOK
<1>3. TypeOK' /\ AccountsStayLinked'
  BY <1>1, <1>2 DEF ProviderInv, TypeOK, AccountsStayLinked, ActiveAccount
<1>4. SessionsFit'
  BY <1>1, <1>2 DEF ProviderInv, SessionsFit, ActiveAccount
<1>5. \A m : ActiveAccount(m)' = ActiveAccount(m) /\ EmailTaken(m)' = EmailTaken(m)
  BY <1>1 DEF ActiveAccount, EmailTaken
<1>6. \A t \in Exchange : session'[t].account = session[t].account
                         /\ (session[t].state # "free" => session'[t].state # "free")
  BY <1>2
<1> QED BY <1>1, <1>3, <1>4, <1>5, <1>6, OthersMove

LEMMA EndedSession ==
  ASSUME ProviderInv, NEW s \in Exchange
  PROVE  /\ [session[s] EXCEPT !.state = "ended", !.open = FALSE] \in SessionRow
         /\ [session[s] EXCEPT !.state = "ended", !.open = FALSE].state = "ended"
         /\ [session[s] EXCEPT !.state = "ended", !.open = FALSE].account = session[s].account
         /\ [session[s] EXCEPT !.open = FALSE] \in SessionRow
         /\ [session[s] EXCEPT !.open = FALSE].state = session[s].state
         /\ [session[s] EXCEPT !.open = FALSE].account = session[s].account
<1>1. session[s] \in SessionRow
  BY DEF ProviderInv, TypeOK
<1> QED BY <1>1 DEF SessionRow

LEMMA SessionEndInv ==
  ASSUME ProviderInv, NEW s \in Exchange, Logout(s) \/ SessionLapses(s) \/ WindowCloses(s) PROVE ProviderInv'
<1> DEFINE ended == [session[s] EXCEPT !.state = "ended", !.open = FALSE]
           closed == [session[s] EXCEPT !.open = FALSE]
<1>1. /\ session[s].state = "live" /\ UNCHANGED <<attempt, callback, exchange, accounts, now>>
      /\ session' = [session EXCEPT ![s] = ended] \/ session' = [session EXCEPT ![s] = closed]
  BY DEF Logout, SessionLapses, WindowCloses, EndSession
<1>2. /\ ended \in SessionRow /\ ended.state = "ended" /\ ended.account = session[s].account
      /\ closed \in SessionRow /\ closed.state = "live" /\ closed.account = session[s].account
  BY <1>1, EndedSession
<1> HIDE DEF ended, closed
<1> QED BY <1>1, <1>2, SessionMoves

-----------------------------------------------------------------------------
(* The invariant.                                                          *)

LEMMA NextInv == ProviderInv /\ [Next]_vars => ProviderInv'
<1> SUFFICES ASSUME ProviderInv, [Next]_vars PROVE ProviderInv'
  OBVIOUS
<1>1. ASSUME NEW a \in Attempt, StartProviderLogin(a) \/ \E s \in Exchange : StartProviderReauthentication(a, s)
      PROVE  ProviderInv'
  BY <1>1, StoreInv DEF StartProviderLogin, StartProviderReauthentication
<1>2. ASSUME NEW k \in Callback, CallbackStep(k) PROVE ProviderInv'
  BY <1>2, ConsumeInv, VerifyInv, FailAttemptInv, RecordInv, DiesInv DEF CallbackStep
<1>3. ASSUME NEW x \in Exchange, ExchangeStep(x) PROVE ProviderInv'
  <2>1. ASSUME NEW a \in Attempt, NEW k \in Callback \cup {None}, CreateProviderSession(x, a, k) PROVE ProviderInv'
    BY <2>1, PresentInv DEF CreateProviderSession
  <2>2. ASSUME NEW a \in Attempt, NEW k \in Callback \cup {None}, NEW s \in Exchange,
               CompleteProviderReauthentication(x, a, k, s)
        PROVE  ProviderInv'
    <3>1. s # None
      BY ConstantsAssumption
    <3> QED BY <2>2, <3>1, PresentInv DEF CompleteProviderReauthentication
  <2>3. ASSUME ClaimProviderResult(x) \/ ClaimProviderReauthenticationResult(x) PROVE ProviderInv'
    BY <2>3, ClaimInv DEF ClaimProviderResult, ClaimProviderReauthenticationResult
  <2>4. ASSUME \/ LockSessionForReauthentication(x) \/ RejectClaim(x) \/ LockLinkedAccount(x)
               \/ CreateProviderAccount(x) \/ CreateProviderLink(x) \/ HasProviderLink(x) \/ OpenWindow(x) \/ Fail(x)
        PROVE  ProviderInv'
    BY <2>4, LockSessionInv, RejectInv, LockLinkedInv, CreateAccountInv, CreateLinkInv, HasLinkInv, OpenWindowInv,
       FailInv
  <2>5. ASSUME CommitSession(x) \/ CommitUnavailable(x) \/ CommitWindow(x) \/ RecordProviderHandoffFailure(x)
        PROVE  ProviderInv'
    BY <2>5, CommitSessionInv, CommitUnavailableInv, CommitWindowInv, FailureInv
  <2> QED BY <1>3, <2>1, <2>2, <2>3, <2>4, <2>5 DEF ExchangeStep
<1>4. CASE Environment
  BY <1>4, SignupInv, ClaimAccountInv, SessionEndInv, PurgeInv, TickInv DEF Environment
<1>5. CASE UNCHANGED vars
  <2>1. UNCHANGED <<attempt, callback, exchange, account, taken, link, session, now>>
    BY <1>5 DEF vars, accounts
  <2>2. TypeOK' /\ SessionsFit' /\ AccountsStayLinked'
    BY <2>1 DEF ProviderInv, TypeOK, SessionsFit, AccountsStayLinked, ActiveAccount
  <2>3. \A m : ActiveAccount(m)' = ActiveAccount(m) /\ EmailTaken(m)' = EmailTaken(m)
    BY <2>1 DEF ActiveAccount, EmailTaken
  <2> QED BY <2>1, <2>2, <2>3, OthersMove
<1> QED BY <1>1, <1>2, <1>3, <1>4, <1>5 DEF Next

\* Whatever attempts, callbacks, exchanges, identities and emails there are, and however they
\* interleave with signups, claims, purges and the end of sessions: accounts stay linked, a
\* claim keeps what it has found, and a live session has an active account.
THEOREM Invariance == Spec => []ProviderInv
  BY InitInv, NextInv, PTL DEF Spec

-----------------------------------------------------------------------------
(* What a step can do to an exchange, and what it never undoes.            *)

\* Most steps write one place of one exchange.
LEMMA OneMoves ==
  ASSUME ProviderInv, NEW x \in Exchange, NEW step, GoTo(x, step)
  PROVE  exchange'[x].at = step /\ \A y \in Exchange \ {x} : exchange'[y] = exchange[y]
<1>1. exchange \in [Exchange -> ExchangeState]
  BY DEF ProviderInv, TypeOK
<1> QED BY <1>1 DEF GoTo, ExchangeState

LEMMA OneGivesUp ==
  ASSUME ProviderInv, NEW x \in Exchange, GiveUp(x)
  PROVE  exchange'[x].at = "failed" /\ \A y \in Exchange \ {x} : exchange'[y] = exchange[y]
  BY DEF GiveUp, NoExchange, ProviderInv, TypeOK

\* A step of x is a step of no other exchange, and only a commit spends a result.
LEMMA StepOfOne ==
  ASSUME ProviderInv, NEW x \in Exchange, ExchangeStep(x)
  PROVE  /\ \A y \in Exchange \ {x} : exchange'[y] = exchange[y]
         /\ exchange[x].at \notin Done /\ callback' = callback /\ now' = now
         /\ \/ exchange'[x].at \notin Spent /\ UNCHANGED <<account, taken, link, session>>
            \/ CommitSession(x) \/ CommitUnavailable(x) \/ CommitWindow(x)
         /\ \/ attempt' = attempt /\ exchange'[x].at # "rejected"
            \/ RecordProviderHandoffFailure(x)
            \/ CommitSession(x) \/ CommitUnavailable(x) \/ CommitWindow(x)
<1>1. exchange \in [Exchange -> ExchangeState]
  BY DEF ProviderInv, TypeOK
<1>2. ASSUME NEW a \in Attempt, NEW k, NEW s, NEW step \in {"claim", "lockSession"}, Present(x, a, k, s, step)
      PROVE  /\ exchange[x].at = "idle" /\ exchange'[x].at = step
             /\ \A y \in Exchange \ {x} : exchange'[y] = exchange[y]
             /\ UNCHANGED <<attempt, account, taken, link, session, callback, now>>
  BY <1>1, <1>2 DEF Present, tables, accounts
<1>3. ASSUME LockSessionForReauthentication(x) \/ Claim(x, "find") \/ Claim(x, "checkLink") \/ RejectClaim(x)
      PROVE  /\ exchange[x].at \in {"lockSession", "claim"}
             /\ exchange'[x].at \in {"claim", "failed", "find", "checkLink", "count"}
             /\ \A y \in Exchange \ {x} : exchange'[y] = exchange[y]
             /\ UNCHANGED <<attempt, account, taken, link, session, callback, now>>
  <2>1. CASE LockSessionForReauthentication(x)
    BY <2>1, OneMoves, OneGivesUp DEF LockSessionForReauthentication, tables, accounts
  <2>2. CASE Claim(x, "find") \/ Claim(x, "checkLink")
    BY <2>2, OneMoves DEF Claim, tables, accounts
  <2>3. CASE RejectClaim(x)
    <3>1. [NoExchange("count") EXCEPT !.attempt = exchange[x].attempt].at = "count"
      BY DEF NoExchange
    <3> QED BY <1>1, <2>3, <3>1 DEF RejectClaim, tables, accounts
  <2> QED BY <1>3, <2>1, <2>2, <2>3
<1>4. ASSUME LockLinkedAccount(x) \/ CreateProviderAccount(x) \/ CreateProviderLink(x)
      PROVE  /\ exchange[x].at \in {"find", "createAccount", "createLink"}
             /\ exchange'[x].at \in {"commitSession", "commitUnavailable", "createAccount", "createLink", "failed"}
             /\ \A y \in Exchange \ {x} : exchange'[y] = exchange[y]
             /\ UNCHANGED <<attempt, account, taken, link, session, callback, now>>
  <2>1. CASE LockLinkedAccount(x)
    <3>1. /\ exchange[x].at = "find" /\ UNCHANGED <<attempt, account, taken, link, session, callback, now>>
          /\ \/ \E n : exchange' = [exchange EXCEPT ![x] = [@ EXCEPT !.at = "commitSession", !.account = n]]
             \/ \E step \in {"commitUnavailable", "createAccount"} : GoTo(x, step)
      BY <2>1 DEF LockLinkedAccount, tables, accounts
    <3>2. CASE \E n : exchange' = [exchange EXCEPT ![x] = [@ EXCEPT !.at = "commitSession", !.account = n]]
      BY <1>1, <3>1, <3>2 DEF ExchangeState
    <3> QED BY <3>1, <3>2, OneMoves
  <2>2. CASE CreateProviderAccount(x)
    <3>1. /\ exchange[x].at = "createAccount" /\ UNCHANGED <<attempt, account, taken, link, session, callback, now>>
          /\ \/ exchange' = [exchange EXCEPT ![x] = [@ EXCEPT !.at = "createLink", !.account = x]]
             \/ GoTo(x, "commitUnavailable")
      BY <2>2 DEF CreateProviderAccount, tables, accounts
    <3>2. CASE exchange' = [exchange EXCEPT ![x] = [@ EXCEPT !.at = "createLink", !.account = x]]
      BY <1>1, <3>1, <3>2 DEF ExchangeState
    <3> QED BY <3>1, <3>2, OneMoves
  <2>3. CASE CreateProviderLink(x)
    BY <2>3, OneMoves, OneGivesUp DEF CreateProviderLink, tables, accounts
  <2> QED BY <1>4, <2>1, <2>2, <2>3
<1>5. ASSUME HasProviderLink(x) \/ OpenWindow(x)
      PROVE  /\ exchange[x].at \in {"checkLink", "openWindow"}
             /\ exchange'[x].at \in {"openWindow", "commitWindow", "commitUnavailable", "failed"}
             /\ \A y \in Exchange \ {x} : exchange'[y] = exchange[y]
             /\ UNCHANGED <<attempt, account, taken, link, session, callback, now>>
  <2>1. CASE HasProviderLink(x)
    <3>1. /\ exchange[x].at = "checkLink" /\ UNCHANGED <<attempt, account, taken, link, session, callback, now>>
          /\ \E step \in {"openWindow", "commitUnavailable"} : GoTo(x, step)
      BY <2>1 DEF HasProviderLink, tables, accounts
    <3> QED BY <3>1, OneMoves
  <2>2. CASE OpenWindow(x)
    <3>1. /\ exchange[x].at = "openWindow" /\ UNCHANGED <<attempt, account, taken, link, session, callback, now>>
          /\ \/ \E stamp : exchange' = [exchange EXCEPT ![x] = [@ EXCEPT !.at = "commitWindow",
                                                                         !.stamp = stamp]]
             \/ GiveUp(x)
      BY <2>2 DEF OpenWindow, tables, accounts
    <3>2. CASE \E stamp : exchange' = [exchange EXCEPT ![x] = [@ EXCEPT !.at = "commitWindow", !.stamp = stamp]]
      BY <1>1, <3>1, <3>2 DEF ExchangeState
    <3> QED BY <3>1, <3>2, OneGivesUp
  <2> QED BY <1>5, <2>1, <2>2
<1>6. ASSUME CommitSession(x) \/ CommitUnavailable(x) \/ CommitWindow(x)
      PROVE  /\ exchange[x].at \in {"commitSession", "commitUnavailable", "commitWindow"}
             /\ \A y \in Exchange \ {x} : exchange'[y] = exchange[y]
             /\ UNCHANGED <<callback, now>>
  BY <1>1, <1>6 DEF CommitSession, CommitUnavailable, CommitWindow, GoTo, GiveUp
<1>7. ASSUME RecordProviderHandoffFailure(x)
      PROVE  /\ exchange[x].at = "count" /\ exchange'[x].at = "rejected"
             /\ \A y \in Exchange \ {x} : exchange'[y] = exchange[y]
             /\ UNCHANGED <<account, taken, link, session, callback, now>>
  BY <1>1, <1>7 DEF RecordProviderHandoffFailure, GoTo, accounts
<1>8. ASSUME Fail(x)
      PROVE  /\ exchange[x].at \in Running /\ exchange'[x].at = "failed"
             /\ \A y \in Exchange \ {x} : exchange'[y] = exchange[y]
             /\ UNCHANGED <<attempt, account, taken, link, session, callback, now>>
  BY <1>1, <1>8 DEF Fail, GiveUp, NoExchange, tables, accounts
<1> USE DEF Done, Spent, Running, Claiming
<1>9. CASE \E a \in Attempt, k \in Callback \cup {None} :
             \/ CreateProviderSession(x, a, k)
             \/ \E s \in Exchange : CompleteProviderReauthentication(x, a, k, s)
  <2>1. PICK a \in Attempt, k \in Callback \cup {None} :
             \/ CreateProviderSession(x, a, k)
             \/ \E s \in Exchange : CompleteProviderReauthentication(x, a, k, s)
    BY <1>9
  <2>2. CASE CreateProviderSession(x, a, k)
    BY <1>2, <2>2 DEF CreateProviderSession
  <2>3. CASE \E s \in Exchange : CompleteProviderReauthentication(x, a, k, s)
    BY <1>2, <2>3 DEF CompleteProviderReauthentication
  <2> QED BY <2>1, <2>2, <2>3
<1>10. CASE LockSessionForReauthentication(x) \/ ClaimProviderResult(x) \/ ClaimProviderReauthenticationResult(x)
            \/ RejectClaim(x)
  BY <1>3, <1>10 DEF ClaimProviderResult, ClaimProviderReauthenticationResult
<1>11. CASE LockLinkedAccount(x) \/ CreateProviderAccount(x) \/ CreateProviderLink(x)
  BY <1>4, <1>11
<1>12. CASE HasProviderLink(x) \/ OpenWindow(x)
  BY <1>5, <1>12
<1>13. CASE CommitSession(x) \/ CommitUnavailable(x) \/ CommitWindow(x)
  BY <1>6, <1>13
<1>14. CASE RecordProviderHandoffFailure(x)
  BY <1>7, <1>14
<1>15. CASE Fail(x)
  BY <1>8, <1>15
<1> QED BY <1>9, <1>10, <1>11, <1>12, <1>13, <1>14, <1>15 DEF ExchangeStep

\* What no step undoes: a code that is shown, a link, the account of a session, the end
\* of an exchange; and what has spent a result did so in a commit.
Kept ==
  /\ \A k \in Callback : callback[k].at = "shown" =>
       /\ callback'[k].at = "shown" /\ callback'[k].attempt = callback[k].attempt
       /\ callback'[k].identity = callback[k].identity
  /\ \A i \in Identity : link[i] # None => link'[i] = link[i]
  /\ \A s \in Exchange : session[s].account # None => session'[s].account = session[s].account
  /\ \A x \in Exchange : exchange[x].at \in Done => exchange'[x] = exchange[x]
  /\ \A x \in Exchange : exchange[x].at \notin Spent /\ exchange'[x].at \in Spent =>
       CommitSession(x) \/ CommitUnavailable(x) \/ CommitWindow(x)

\* A callback moves on from every place but "shown".
LEMMA CallbackKeeps ==
  ASSUME ProviderInv, NEW k \in Callback, CallbackStep(k)
  PROVE  /\ \A j \in Callback : callback[j].at = "shown" => callback'[j] = callback[j]
         /\ UNCHANGED <<exchange, account, taken, link, session, now>>
<1>1. callback \in [Callback -> CallbackState]
  BY DEF ProviderInv, TypeOK
<1>2. CASE \E a \in Attempt : ConsumeProviderState(k, a)
  BY <1>1, <1>2 DEF ConsumeProviderState, accounts
<1>3. CASE \E proof \in Proofs : VerifyProviderIdentity(k, proof)
  BY <1>1, <1>3 DEF VerifyProviderIdentity, accounts
<1>4. CASE FailProviderAttempt(k)
  BY <1>1, <1>4 DEF FailProviderAttempt, accounts
<1>5. CASE RecordProviderResult(k)
  BY <1>1, <1>5 DEF RecordProviderResult, accounts
<1>6. CASE CallbackDies(k)
  BY <1>1, <1>6 DEF CallbackDies, accounts
<1> QED BY <1>2, <1>3, <1>4, <1>5, <1>6 DEF CallbackStep

LEMMA EnvironmentKeeps ==
  ASSUME ProviderInv, Environment
  PROVE  /\ \A s \in Exchange : session'[s].account = session[s].account
         /\ UNCHANGED <<callback, exchange, link>>
<1>1. session \in [Exchange -> SessionRow]
  BY DEF ProviderInv, TypeOK
<1>2. CASE \E e \in Email : Signup(e)
  BY <1>2 DEF Signup
<1>3. CASE \E n \in Exchange : ClaimAccount(n)
  <2>1. PICK n \in Exchange : ClaimAccount(n)
    BY <1>3
  <2>2. /\ UNCHANGED <<callback, exchange, link>>
        /\ \A s \in Exchange : session'[s] \in {session[s], [session[s] EXCEPT !.state = "ended", !.open = FALSE]}
    BY <2>1 DEF ClaimAccount
  <2>3. \A s \in Exchange : [session[s] EXCEPT !.state = "ended", !.open = FALSE].account = session[s].account
    BY <1>1 DEF SessionRow
  <2> QED BY <2>2, <2>3
<1>4. CASE \E s \in Exchange : Logout(s) \/ SessionLapses(s) \/ WindowCloses(s)
  <2>1. PICK s \in Exchange : Logout(s) \/ SessionLapses(s) \/ WindowCloses(s)
    BY <1>4
  <2>2. UNCHANGED <<callback, exchange, link>>
    BY <2>1 DEF Logout, SessionLapses, WindowCloses, accounts
  <2>3. EndSession(s) \/ session' = [session EXCEPT ![s].open = FALSE]
    BY <2>1 DEF Logout, SessionLapses, WindowCloses
  <2>4. \A t \in Exchange : session'[t].account = session[t].account
    <3>1. \A row \in SessionRow : /\ [row EXCEPT !.state = "ended", !.open = FALSE].account = row.account
                                  /\ [row EXCEPT !.open = FALSE].account = row.account
      BY DEF SessionRow
    <3>2. PICK row \in {[session[s] EXCEPT !.state = "ended", !.open = FALSE], [session[s] EXCEPT !.open = FALSE]} :
            session' = [session EXCEPT ![s] = row]
      BY <2>3 DEF EndSession
    <3>3. row.account = session[s].account
      BY <1>1, <3>1, <3>2
    <3> QED BY <1>1, <3>2, <3>3
  <2> QED BY <2>2, <2>4
<1>5. CASE PurgeExpired \/ Tick
  BY <1>5 DEF PurgeExpired, Tick, accounts
<1> QED BY <1>2, <1>3, <1>4, <1>5 DEF Environment

\* The session that x creates is free before, and the identity that it links is unknown.
LEMMA ExchangeKeeps ==
  ASSUME ProviderInv, NEW x \in Exchange, ExchangeStep(x)
  PROVE  Kept
<1>1. /\ \A y \in Exchange \ {x} : exchange'[y] = exchange[y]
      /\ exchange[x].at \notin Done /\ callback' = callback
      /\ \/ exchange'[x].at \notin Spent /\ link' = link /\ session' = session
         \/ CommitSession(x) \/ CommitUnavailable(x) \/ CommitWindow(x)
  BY StepOfOne
<1>2. /\ session \in [Exchange -> SessionRow] /\ link \in [Identity -> Exchange \cup {None}]
  BY DEF ProviderInv, TypeOK
<1>3. /\ \A i \in Identity : link[i] # None => link'[i] = link[i]
      /\ \A s \in Exchange : session[s].account # None => session'[s].account = session[s].account
  <2>1. CASE link' = link /\ session' = session
    BY <2>1
  <2>2. CASE CommitSession(x)
    <3>1. exchange[x].at = "commitSession"
      BY <2>2 DEF CommitSession
    <3>2. session[x].account = None
      BY <3>1 DEF ProviderInv, SessionsFit
    <3>3. exchange[x].account = x => link[ClaimedRow(x).identity] = None
      BY <3>1 DEF ProviderInv, ExchangesFit, InsertFits, InsertedLink
    <3>4. ClaimedRow(x).identity \in Identity
      BY <3>1, HeldRow DEF Claiming
    <3> QED BY <1>2, <2>2, <3>2, <3>3, <3>4 DEF CommitSession
  <2>3. CASE CommitUnavailable(x)
    BY <2>3 DEF CommitUnavailable, accounts
  <2>4. CASE CommitWindow(x)
    BY <1>2, <2>4 DEF CommitWindow, accounts, SessionRow
  <2> QED BY <1>1, <2>1, <2>2, <2>3, <2>4
<1> QED BY <1>1, <1>3 DEF Kept

LEMMA Permanence == ASSUME ProviderInv, [Next]_vars PROVE Kept
<1>1. ASSUME NEW a \in Attempt, NEW s, StoreAttempt(a, s) PROVE Kept
  BY <1>1 DEF StoreAttempt, Kept, accounts
<1>2. CASE \E a \in Attempt : StartProviderLogin(a) \/ \E s \in Exchange : StartProviderReauthentication(a, s)
  BY <1>1, <1>2 DEF StartProviderLogin, StartProviderReauthentication
<1>3. CASE \E k \in Callback : CallbackStep(k)
  BY <1>3, CallbackKeeps DEF Kept
<1>4. CASE \E x \in Exchange : ExchangeStep(x)
  BY <1>4, ExchangeKeeps
<1>5. CASE Environment
  BY <1>5, EnvironmentKeeps DEF Kept
<1>6. CASE UNCHANGED vars
  BY <1>6 DEF vars, accounts, Kept
<1> QED BY <1>2, <1>3, <1>4, <1>5, <1>6 DEF Next

-----------------------------------------------------------------------------
(* What the handoff promises.                                              *)

\* Who has entered an account did so as the identity that is linked to it.
OwnerEntered(x) ==
  exchange[x].at \in {"session", "window"} => link[callback[exchange[x].code].identity] = Entered(x)

\* What a claim has found is what the callback of the presented code has proved.
LEMMA ProvedIdentity ==
  ASSUME ProviderInv, NEW x \in Exchange, exchange[x].at \in Claiming
  PROVE  /\ exchange[x].code \in Callback /\ callback[exchange[x].code].at = "shown"
         /\ callback[exchange[x].code].identity = ClaimedRow(x).identity
<1>1. /\ exchange[x].attempt \in Attempt /\ ClaimedRow(x).code \in Callback
      /\ ClaimedRow(x).code = exchange[x].code
  BY HeldRow
<1>2. ClaimedRow(x).code # None
  BY <1>1, ConstantsAssumption
<1> QED BY <1>1, <1>2 DEF ProviderInv, ResultsFit, ClaimedRow

\* The commit of a session enters the account that the claim has found or made.
LEMMA OwnerBySession ==
  ASSUME ProviderInv, NEW x \in Exchange, CommitSession(x), Kept
  PROVE  OwnerEntered(x)'
<1> DEFINE i == ClaimedRow(x).identity
           n == exchange[x].account
           k == exchange[x].code
<1>1. exchange[x].at = "commitSession" /\ callback' = callback
  BY DEF CommitSession
<1>2. k \in Callback /\ callback[k].identity = i /\ i \in Identity
  BY <1>1, ProvedIdentity, HeldRow DEF Claiming
<1>3. exchange \in [Exchange -> ExchangeState] /\ link \in [Identity -> Exchange \cup {None}]
  BY DEF ProviderInv, TypeOK
<1>4. exchange'[x].at = "session" /\ exchange'[x].account = n /\ exchange'[x].code = k
  BY <1>3 DEF CommitSession, GoTo, ExchangeState
<1>5. link'[i] = n
  <2>1. CASE n = x
    BY <1>2, <1>3, <2>1 DEF CommitSession
  <2>2. CASE n # x
    BY <1>1, <2>2 DEF CommitSession, ProviderInv, ExchangesFit, FoundFits
  <2> QED BY <2>1, <2>2
<1>6. \A m, j : m = n /\ j = i => link'[j] = m
  BY <1>5
<1> QED BY <1>1, <1>2, <1>4, <1>5 DEF OwnerEntered, Entered

\* The commit of a window enters the account of the session that was asked for.
LEMMA OwnerByWindow ==
  ASSUME ProviderInv, NEW x \in Exchange, CommitWindow(x), exchange'[x].at \in Spent
  PROVE  OwnerEntered(x)'
<1> DEFINE i == ClaimedRow(x).identity
           s == exchange[x].session
           k == exchange[x].code
<1>1. exchange[x].at = "commitWindow" /\ callback' = callback /\ link' = link
  BY DEF CommitWindow, accounts
<1>2. k \in Callback /\ callback[k].identity = i
  BY <1>1, ProvedIdentity DEF Claiming
<1>3. exchange \in [Exchange -> ExchangeState] /\ session \in [Exchange -> SessionRow]
  BY DEF ProviderInv, TypeOK
<1>4. /\ exchange'[x].at = "window" /\ exchange'[x].session = s /\ exchange'[x].code = k
      /\ session' = [session EXCEPT ![s].open = @ \/ exchange[x].stamp]
  <2>1. CASE session[s].state = "ended" /\ GiveUp(x)
    BY <1>3, <2>1 DEF GiveUp, NoExchange, Spent
  <2>2. CASE /\ session' = [session EXCEPT ![s].open = @ \/ exchange[x].stamp]
             /\ exchange' = [exchange EXCEPT ![x] = [@ EXCEPT !.at = "window", !.stamp = FALSE]]
    BY <1>3, <2>2 DEF ExchangeState
  <2> QED BY <2>1, <2>2 DEF CommitWindow
<1>5. session'[s].account = session[s].account
  BY <1>3, <1>4 DEF SessionRow
<1>6. link[i] = session[s].account
  BY <1>1 DEF ProviderInv, ExchangesFit, FoundFits
<1> QED BY <1>1, <1>2, <1>4, <1>5, <1>6 DEF OwnerEntered, Entered

\* Who has entered stays the owner: neither link nor session change hands.
LEMMA OwnerStays ==
  ASSUME ProviderInv, NEW x \in Exchange, OwnerEntered(x), Kept, exchange'[x] = exchange[x]
  PROVE  OwnerEntered(x)'
<1> SUFFICES ASSUME exchange[x].at \in {"session", "window"} PROVE OwnerEntered(x)'
  BY DEF OwnerEntered
<1> DEFINE k == exchange[x].code
           s == exchange[x].session
<1>1. exchange[x] \in ExchangeState /\ callback[k].at = "shown" /\ k # None
  BY DEF ProviderInv, TypeOK, ExchangesFit, SpentFits, Spent
<1>2. k \in Callback
  BY <1>1 DEF ExchangeState
<1>3. callback[k].identity # None /\ callback[k] \in CallbackState
  BY <1>1, <1>2 DEF ProviderInv, TypeOK, CallbacksFit
<1>4. callback[k].identity \in Identity /\ callback'[k].identity = callback[k].identity
  BY <1>1, <1>2, <1>3 DEF CallbackState, Kept
<1>5. Entered(x) # None /\ Entered(x)' = Entered(x)
  <2>1. CASE exchange[x].at = "session"
    BY <2>1 DEF ProviderInv, SessionsFit, Entered
  <2>2. CASE exchange[x].at = "window"
    <3>1. s # None /\ session[s].state # "free"
      BY <2>2 DEF ProviderInv, ExchangesFit, PresentedFits
    <3>2. s \in Exchange
      BY <1>1, <3>1 DEF ExchangeState
    <3>3. session[s].account # None
      BY <3>1, <3>2 DEF ProviderInv, SessionsFit
    <3> QED BY <2>2, <3>2, <3>3 DEF Entered, Kept
  <2> QED BY <2>1, <2>2
<1>6. link[callback[k].identity] = Entered(x)
  BY DEF OwnerEntered
<1> QED BY <1>4, <1>5, <1>6 DEF OwnerEntered, Kept

\* Who gets a session or a window proved, in the callback of the very attempt, the
\* identity that is linked to the account (claimSession, claim).
THEOREM OnlyOwnersEnter == Spec => []OnlyTheOwner
<1> DEFINE Owners == \A x \in Exchange : OwnerEntered(x)
<1>1. Init => Owners
  BY DEF Init, OwnerEntered, NoExchange
<1>2. ProviderInv /\ Owners /\ [Next]_vars => Owners'
  <2> SUFFICES ASSUME ProviderInv, Owners, [Next]_vars, NEW x \in Exchange PROVE OwnerEntered(x)'
    OBVIOUS
  <2>1. Kept
    BY Permanence
  <2>2. CASE exchange'[x].at \notin Spent
    BY <2>2 DEF OwnerEntered, Spent
  <2>3. CASE exchange[x].at \in Spent
    BY <2>1, <2>3, OwnerStays DEF Kept, Done
  <2>4. CASE exchange[x].at \notin Spent /\ exchange'[x].at \in Spent
    <3>1. CASE CommitUnavailable(x)
      BY <3>1 DEF CommitUnavailable, GoTo, OwnerEntered, ProviderInv, TypeOK
    <3>2. CASE CommitSession(x)
      BY <2>1, <3>2, OwnerBySession
    <3>3. CASE CommitWindow(x)
      BY <2>4, <3>3, OwnerByWindow
    <3> QED BY <2>1, <2>4, <3>1, <3>2, <3>3 DEF Kept
  <2> QED BY <2>2, <2>3, <2>4
<1>3. ProviderInv /\ Owners => OnlyTheOwner
  <2> SUFFICES ASSUME ProviderInv, Owners, NEW x \in Exchange, exchange[x].at \in {"session", "window"}
               PROVE  /\ exchange[x].code \in Callback
                      /\ callback[exchange[x].code].attempt = exchange[x].attempt
                      /\ link[callback[exchange[x].code].identity] = Entered(x)
    BY DEF OnlyTheOwner
  <2>1. exchange[x] \in ExchangeState
    BY DEF ProviderInv, TypeOK
  <2> QED BY <2>1 DEF OwnerEntered, ProviderInv, ExchangesFit, SpentFits, Spent, ExchangeState
<1> QED BY <1>1, <1>2, <1>3, Invariance, PTL DEF Spec

\* Five failed claims exhaust an attempt: after that many answers of rejection no
\* exchange spends it, the one that was under way meanwhile included.
THEOREM ExhaustedForGood == Spec => ExhaustedIsOver
<1>1. ASSUME ProviderInv, [Next]_vars, NEW x \in Exchange, exchange[x].at \notin Spent, exchange'[x].at \in Spent,
             Unexpired(exchange[x].attempt)
      PROVE  Cardinality(Rejected(exchange[x].attempt)) < MaxFailures
  <2> DEFINE a == exchange[x].attempt
  <2>1. exchange[x].at \in Claiming
    BY <1>1, Permanence DEF Kept, CommitSession, CommitUnavailable, CommitWindow, Claiming
  <2>2. a \in Attempt /\ attempt[a] \in AttemptRow
    BY <1>1, <2>1, HeldRow DEF ClaimedRow
  <2>3. ~attempt[a].claimed /\ attempt[a].failures < MaxFailures
    BY <1>1, <2>1 DEF ProviderInv, ExchangesFit, ClaimFits, ClaimedRow
  <2>4. Counts(a)
    BY <1>1, <2>3 DEF Counts
  <2>5. IsFiniteSet(Rejected(a)) /\ Cardinality(Rejected(a)) <= attempt[a].failures
    BY <1>1, <2>2, <2>4 DEF ProviderInv, RejectionsCount
  <2>6. Cardinality(Rejected(a)) \in Nat
    BY <2>5, FS_CardinalityType
  <2>7. attempt[a].failures \in Nat /\ MaxFailures \in Nat
    BY <2>2, ConstantsAssumption DEF AttemptRow
  <2> QED BY <2>3, <2>5, <2>6, <2>7
<1>2. ProviderInv /\ [Next]_vars =>
        [\A x \in Exchange :
           /\ exchange[x].at \notin Spent /\ exchange'[x].at \in Spent
           /\ Unexpired(exchange[x].attempt)
           => Cardinality(Rejected(exchange[x].attempt)) < MaxFailures]_vars
  BY <1>1
<1> QED BY <1>2, Invariance, PTL DEF Spec, ExhaustedIsOver

-----------------------------------------------------------------------------
(* The handoff is a voucher.                                               *)

Offers(a) == attempt[a].code # None /\ ~attempt[a].claimed /\ attempt[a].failures < MaxFailures
VoucherFor(a) == VoucherOf(a, attempt[a].code, attempt[a].session)

LEMMA OfferedAre == Offered = {VoucherFor(a) : a \in {a \in Attempt : Offers(a)}}
  BY DEF Offered, Offers, VoucherFor

\* A step that shows no code, spends no result and offers nothing new.
Withdraws ==
  /\ \A k \in Callback : callback'[k].at = "shown" => callback[k].at = "shown"
  /\ \A x \in Exchange : exchange'[x].at \in Spent => exchange[x].at \in Spent
  /\ \A a \in Attempt : Offers(a)' =>
       Offers(a) /\ attempt'[a].code = attempt[a].code /\ attempt'[a].session = attempt[a].session

LEMMA MadeStays ==
  ASSUME Kept, \A k \in Callback : callback'[k].at = "shown" => callback[k].at = "shown"
  PROVE  Made' = Made
<1>1. \A k \in Callback : callback[k].at = "shown" <=> callback'[k].at = "shown"
  BY DEF Kept
<1>2. Shown' = Shown
  BY <1>1 DEF Shown
<1>3. \A k \in Shown : callback'[k].attempt = callback[k].attempt
  BY DEF Kept, Shown
<1> QED BY <1>2, <1>3 DEF Made

LEMMA SpentStays ==
  ASSUME Kept, \A x \in Exchange : exchange'[x].at \in Spent => exchange[x].at \in Spent
  PROVE  SpentBy' = SpentBy
<1>1. \A x \in Exchange : exchange[x].at \in Spent => exchange'[x] = exchange[x]
  BY DEF Kept, Done
<1>2. \A x \in Exchange : exchange[x].at \in Spent <=> exchange'[x].at \in Spent
  BY <1>1
<1> QED BY <1>1, <1>2 DEF SpentBy

LEMMA WithdrawnSome == ASSUME Kept, Withdraws PROVE Handoff!Next
<1>1. Made' = Made /\ SpentBy' = SpentBy
  BY MadeStays, SpentStays DEF Withdraws
<1>2. Offered' \subseteq Offered
  <2>1. \A a \in Attempt : Offers(a)' => Offers(a) /\ VoucherFor(a)' = VoucherFor(a)
    BY DEF Withdraws, VoucherFor
  <2>2. Offered' = {VoucherFor(a)' : a \in {a \in Attempt : Offers(a)'}}
    BY DEF Offered, Offers, VoucherFor
  <2> QED BY <2>1, <2>2, OfferedAre
<1> DEFINE V == Offered \ Offered'
<1>3. V \subseteq Offered /\ Offered' = Offered \ V
  BY <1>2
<1>4. Handoff!Withdraw(V)
  BY <1>1, <1>3 DEF Handoff!Withdraw
<1> QED BY <1>3, <1>4 DEF Handoff!Next

\* A result that is recorded makes a voucher, unless the attempt is dead already.
LEMMA ResultIsMade ==
  ASSUME ProviderInv, Kept, NEW k \in Callback, RecordProviderResult(k), MayRecord(callback[k].attempt)
  PROVE  Handoff!Next
<1> DEFINE a == callback[k].attempt
<1>1. /\ callback[k].at = "record" /\ exchange' = exchange /\ attempt[a].code = None
      /\ attempt' = [attempt EXCEPT ![a] = [@ EXCEPT !.code = k, !.identity = callback[k].identity,
                                                     !.email = callback[k].email]]
      /\ callback' = [callback EXCEPT ![k] = [@ EXCEPT !.at = "shown", !.email = None]]
  BY DEF RecordProviderResult, MayRecord
<1>2. /\ attempt \in [Attempt -> AttemptRow] /\ callback \in [Callback -> CallbackState]
  BY DEF ProviderInv, TypeOK
<1>3. a \in Attempt /\ a # None
  BY <1>1, AttemptOfCallback, ConstantsAssumption
<1>4. k \notin Shown /\ \A j \in Shown : callback[j].attempt # a
  BY <1>1, <1>3 DEF Shown, ProviderInv, CallbacksFit
<1>5. /\ callback'[k].at = "shown" /\ callback'[k].attempt = a
      /\ \A j \in Callback \ {k} : callback'[j] = callback[j]
  BY <1>1, <1>2 DEF CallbackState
<1>6. Made' = Made \cup {<<k, a>>}
  <2>1. Shown' = Shown \cup {k}
    BY <1>5 DEF Shown
  <2>2. \A j \in Shown : callback'[j].attempt = callback[j].attempt
    BY <1>4, <1>5 DEF Shown
  <2> QED BY <1>5, <2>1, <2>2 DEF Made
<1>7. k \in Callback \ {p[1] : p \in Made} /\ a \in Attempt \ {p[2] : p \in Made}
  BY <1>3, <1>4 DEF Made
<1>8. SpentBy' = SpentBy
  BY <1>1 DEF SpentBy
<1>9. /\ attempt'[a].code = k /\ attempt'[a].session = attempt[a].session
      /\ \A b \in Attempt \ {a} : attempt'[b] = attempt[b]
  BY <1>1, <1>2, <1>3 DEF AttemptRow
<1>10. ~Offers(a) /\ \A b \in Attempt \ {a} : Offers(b)' = Offers(b) /\ VoucherFor(b)' = VoucherFor(b)
  BY <1>1, <1>9 DEF Offers, VoucherFor
<1>11. Offered' = {VoucherFor(b)' : b \in {b \in Attempt : Offers(b)'}}
  BY DEF Offered, Offers, VoucherFor
<1>12. ASSUME NEW b, b = a
       PROVE  /\ Offered' = Offered \/ Offered' = Offered \cup {VoucherFor(b)'}
              /\ VoucherFor(b)' = [attempt |-> a, code |-> k, purpose |-> attempt[a].session]
  <2>1. VoucherFor(b)' = [attempt |-> a, code |-> k, purpose |-> attempt[a].session]
    BY <1>9, <1>12 DEF VoucherFor, VoucherOf
  <2>2. ~Offers(b) /\ b \in Attempt
    BY <1>3, <1>10, <1>12
  <2>3. \A c \in Attempt \ {b} : Offers(c)' = Offers(c) /\ VoucherFor(c)' = VoucherFor(c)
    BY <1>10, <1>12
  <2>4. \A w \in Offered : w \in Offered'
    BY <2>2, <2>3, <1>11, OfferedAre
  <2>5. \A w \in Offered' : w \in Offered \/ (Offers(b)' /\ w = VoucherFor(b)')
    BY <2>3, <1>11, OfferedAre
  <2>6. Offers(b)' => VoucherFor(b)' \in Offered'
    BY <2>2, <1>11
  <2>7. CASE Offers(b)'
    BY <2>1, <2>4, <2>5, <2>6, <2>7
  <2>8. CASE ~Offers(b)'
    BY <2>1, <2>4, <2>5, <2>8
  <2> QED BY <2>1, <2>7, <2>8
<1>13. \/ Offered' = Offered
       \/ Offered' = Offered \cup {[attempt |-> a, code |-> k, purpose |-> attempt[a].session]}
  BY <1>12
<1>14. attempt[a].session \in Exchange \cup {None}
  BY <1>2, <1>3 DEF AttemptRow
<1>15. Handoff!Make(k, a)
  BY <1>6, <1>8, <1>13, <1>14 DEF Handoff!Make
<1> QED BY <1>7, <1>15 DEF Handoff!Next

\* A commit that claims the result spends the voucher, which nobody has spent before.
LEMMA ResultIsSpent ==
  ASSUME ProviderInv, Kept, NEW x \in Exchange, exchange[x].at \in Claiming, Claimed(x), callback' = callback,
         exchange'[x].at \in Spent, exchange'[x].attempt = exchange[x].attempt, exchange'[x].code = exchange[x].code,
         exchange'[x].session = exchange[x].session, \A y \in Exchange \ {x} : exchange'[y] = exchange[y]
  PROVE  Handoff!Next
<1> DEFINE a == exchange[x].attempt
           v == VoucherOf(a, exchange[x].code, exchange[x].session)
<1>1. /\ a \in Attempt /\ attempt[a].code = exchange[x].code /\ exchange[x].code \in Callback
      /\ ~attempt[a].claimed /\ attempt[a].state = "stored"
  BY HeldRow DEF ClaimedRow
<1>2. attempt[a].session = exchange[x].session /\ attempt[a].failures < MaxFailures /\ exchange[x].code # None
  BY DEF ProviderInv, ExchangesFit, ClaimFits, ClaimedRow
<1>3. /\ attempt \in [Attempt -> AttemptRow] /\ exchange \in [Exchange -> ExchangeState]
  BY DEF ProviderInv, TypeOK
<1>4. /\ attempt'[a].claimed
      /\ \A b \in Attempt \ {a} : attempt'[b] = attempt[b]
  BY <1>1, <1>3 DEF Claimed, AttemptRow
<1>5. Offers(a) /\ VoucherFor(a) = v
  BY <1>1, <1>2 DEF Offers, VoucherFor
<1>6. v \in Offered
  BY <1>1, <1>5, OfferedAre
<1>7. v # None
  <2>1. exchange[x].session \in Exchange \cup {None}
    BY <1>3 DEF ExchangeState
  <2>2. v \in [attempt: Attempt, code: Callback, purpose: Exchange \cup {None}]
    BY <1>1, <2>1 DEF VoucherOf
  <2> QED BY <2>2, ConstantsAssumption
<1>8. ASSUME NEW y \in Exchange PROVE SpentBy[y] # v
  <2>1. CASE exchange[y].at \in Spent
    <3>1. attempt[exchange[y].attempt].claimed \/ attempt[exchange[y].attempt].state = "purged"
      BY <2>1 DEF ProviderInv, ExchangesFit, SpentFits, ClaimedRow
    <3>2. exchange[y].attempt # a
      BY <1>1, <3>1
    <3> QED BY <2>1, <3>2 DEF SpentBy, VoucherOf
  <2>2. CASE exchange[y].at \notin Spent
    BY <1>7, <2>2 DEF SpentBy
  <2> QED BY <2>1, <2>2
<1>9. exchange[x].at \notin Spent
  BY DEF Claiming, Spent
<1>10. SpentBy[x] = None
  BY <1>9 DEF SpentBy
<1>11. SpentBy' = [SpentBy EXCEPT ![x] = v]
  BY DEF SpentBy
<1>12. Offered' = Offered \ {v}
  <2>1. Offered' = {VoucherFor(b)' : b \in {b \in Attempt : Offers(b)'}}
    BY DEF Offered, Offers, VoucherFor
  <2>2. \A b \in Attempt \ {a} : Offers(b)' = Offers(b) /\ VoucherFor(b)' = VoucherFor(b)
    BY <1>4 DEF Offers, VoucherFor
  <2>3. \A b \in Attempt : b = a => ~Offers(b)'
    BY <1>4 DEF Offers
  <2>4. \A b \in Attempt \ {a} : VoucherFor(b) # v
    BY DEF VoucherFor, VoucherOf
  <2> HIDE DEF v
  <2>5. Offered' \subseteq Offered \ {v}
    BY <2>1, <2>2, <2>3, <2>4, OfferedAre
  <2>6. Offered \ {v} \subseteq Offered'
    BY <1>5, <2>1, <2>2, OfferedAre
  <2> QED BY <2>5, <2>6
<1>13. Made' = Made
  BY MadeStays
<1>14. Handoff!Spend(x, v)
  BY <1>6, <1>8, <1>11, <1>12, <1>13 DEF Handoff!Spend
<1> QED BY <1>6, <1>10, <1>14 DEF Handoff!Next

\* Beginnings, proofs and refusals of callbacks offer nothing.
LEMMA CallbackIsHandoff ==
  ASSUME ProviderInv, Kept, NEW k \in Callback, CallbackStep(k) PROVE Handoff!Next
<1>1. attempt \in [Attempt -> AttemptRow] /\ callback \in [Callback -> CallbackState]
  BY DEF ProviderInv, TypeOK
<1>2. exchange' = exchange
  BY CallbackKeeps
<1>3. ASSUME \A j \in Callback : callback'[j].at = "shown" => callback[j].at = "shown",
             \A a \in Attempt : /\ attempt'[a].code = attempt[a].code /\ attempt'[a].session = attempt[a].session
                                /\ attempt'[a].claimed = attempt[a].claimed
                                /\ attempt'[a].failures = attempt[a].failures
      PROVE  Handoff!Next
  BY <1>2, <1>3, WithdrawnSome DEF Withdraws, Offers
<1>4. CASE \E a \in Attempt : ConsumeProviderState(k, a)
  BY <1>1, <1>3, <1>4 DEF ConsumeProviderState, AttemptRow, CallbackState
<1>5. CASE \E proof \in Proofs : VerifyProviderIdentity(k, proof)
  BY <1>1, <1>3, <1>5 DEF VerifyProviderIdentity, CallbackState
<1>6. CASE FailProviderAttempt(k)
  BY <1>1, <1>3, <1>6 DEF FailProviderAttempt, NoCallback, AttemptRow, CallbackState
<1>7. CASE RecordProviderResult(k) /\ MayRecord(callback[k].attempt)
  BY <1>7, ResultIsMade
<1>8. CASE RecordProviderResult(k) /\ ~MayRecord(callback[k].attempt)
  BY <1>1, <1>3, <1>8 DEF RecordProviderResult, NoCallback, CallbackState
<1>9. CASE CallbackDies(k)
  BY <1>1, <1>3, <1>9 DEF CallbackDies, NoCallback, CallbackState
<1> QED BY <1>4, <1>5, <1>6, <1>7, <1>8, <1>9 DEF CallbackStep

LEMMA ExchangeIsHandoff ==
  ASSUME ProviderInv, Kept, NEW x \in Exchange, ExchangeStep(x) PROVE Handoff!Next
<1>1. /\ \A y \in Exchange \ {x} : exchange'[y] = exchange[y]
      /\ callback' = callback
      /\ \/ exchange'[x].at \notin Spent
         \/ CommitSession(x) \/ CommitUnavailable(x) \/ CommitWindow(x)
      /\ \/ attempt' = attempt
         \/ RecordProviderHandoffFailure(x)
         \/ CommitSession(x) \/ CommitUnavailable(x) \/ CommitWindow(x)
  BY StepOfOne
<1>2. attempt \in [Attempt -> AttemptRow] /\ exchange \in [Exchange -> ExchangeState]
  BY DEF ProviderInv, TypeOK
<1>3. CASE exchange'[x].at \notin Spent /\ attempt' = attempt
  BY <1>1, <1>3, WithdrawnSome DEF Withdraws, Offers
<1>4. CASE RecordProviderHandoffFailure(x)
  <2> DEFINE a == exchange[x].attempt
  <2>1. exchange[x].at = "count" /\ exchange'[x].at \notin Spent
    BY <1>4, OneMoves DEF RecordProviderHandoffFailure, Spent
  <2>2. a \in Attempt /\ attempt[a] \in AttemptRow
    BY <2>1, AttemptOf
  <2>3. \A b \in Attempt : /\ attempt'[b].code = attempt[b].code /\ attempt'[b].session = attempt[b].session
                           /\ attempt'[b].claimed = attempt[b].claimed
                           /\ attempt'[b].failures = attempt[b].failures
                              \/ attempt'[b].failures = attempt[b].failures + 1
    BY <1>2, <1>4, <2>2 DEF RecordProviderHandoffFailure, AttemptRow
  <2>4. \A b \in Attempt : attempt'[b].failures < MaxFailures => attempt[b].failures < MaxFailures
    BY <1>2, <2>3, ConstantsAssumption DEF AttemptRow
  <2> QED BY <1>1, <2>1, <2>3, <2>4, WithdrawnSome DEF Withdraws, Offers
<1>5. CASE CommitSession(x)
  BY <1>1, <1>2, <1>5, ResultIsSpent DEF CommitSession, GoTo, Claiming, Spent, ExchangeState
<1>6. CASE CommitUnavailable(x)
  BY <1>1, <1>2, <1>6, ResultIsSpent DEF CommitUnavailable, GoTo, Claiming, Spent, ExchangeState
<1>7. CASE CommitWindow(x)
  <2>1. CASE GiveUp(x) /\ attempt' = attempt
    <3>1. exchange'[x].at \notin Spent
      BY <2>1, OneGivesUp DEF Spent
    <3> QED BY <1>3, <2>1, <3>1
  <2>2. CASE Claimed(x) /\ exchange' = [exchange EXCEPT ![x] = [@ EXCEPT !.at = "window", !.stamp = FALSE]]
    <3>1. /\ exchange'[x].at = "window" /\ exchange'[x].attempt = exchange[x].attempt
          /\ exchange'[x].code = exchange[x].code /\ exchange'[x].session = exchange[x].session
      BY <1>2, <2>2 DEF ExchangeState
    <3>2. exchange[x].at \in Claiming
      BY <1>7 DEF CommitWindow, Claiming
    <3> QED BY <1>1, <2>2, <3>1, <3>2, ResultIsSpent DEF Spent
  <2> QED BY <1>7, <2>1, <2>2 DEF CommitWindow
<1> QED BY <1>1, <1>3, <1>4, <1>5, <1>6, <1>7

LEMMA EnvironmentIsHandoff ==
  ASSUME ProviderInv, Kept, Environment PROVE Handoff!Next
<1>1. callback' = callback /\ exchange' = exchange
  BY EnvironmentKeeps
<1>2. CASE PurgeExpired
  <2>1. NoAttempt("purged").code = None
    BY DEF NoAttempt
  <2>2. \A a \in Attempt : attempt'[a] = attempt[a] \/ attempt'[a].code = None
    BY <1>2, <2>1 DEF PurgeExpired
  <2> QED BY <1>1, <2>2, WithdrawnSome DEF Withdraws, Offers
<1>3. CASE attempt' = attempt
  BY <1>1, <1>3, WithdrawnSome DEF Withdraws, Offers
<1>4. PurgeExpired \/ attempt' = attempt
  BY DEF Environment, Signup, ClaimAccount, Logout, SessionLapses, WindowCloses, Tick
<1> QED BY <1>2, <1>3, <1>4

LEMMA StepsOfTheHandoff ==
  ASSUME ProviderInv, [Next]_vars PROVE [Handoff!Next]_Handoff!vars
<1>1. Kept
  BY Permanence
<1>2. ASSUME NEW a \in Attempt, NEW s, StoreAttempt(a, s) PROVE Handoff!Next
  <2>1. NewAttempt(s).code = None
    BY DEF NewAttempt, NoAttempt
  <2>2. callback' = callback /\ exchange' = exchange /\ attempt' = [attempt EXCEPT ![a] = NewAttempt(s)]
    BY <1>2 DEF StoreAttempt
  <2>3. \A b \in Attempt : attempt'[b] = attempt[b] \/ attempt'[b].code = None
    BY <2>1, <2>2 DEF ProviderInv, TypeOK
  <2> QED BY <1>1, <2>2, <2>3, WithdrawnSome DEF Withdraws, Offers
<1>3. CASE \E a \in Attempt : StartProviderLogin(a) \/ \E s \in Exchange : StartProviderReauthentication(a, s)
  BY <1>2, <1>3 DEF StartProviderLogin, StartProviderReauthentication
<1>4. CASE \E k \in Callback : CallbackStep(k)
  BY <1>1, <1>4, CallbackIsHandoff
<1>5. CASE \E x \in Exchange : ExchangeStep(x)
  BY <1>1, <1>5, ExchangeIsHandoff
<1>6. CASE Environment
  BY <1>1, <1>6, EnvironmentIsHandoff
<1>7. CASE UNCHANGED vars
  <2>1. attempt' = attempt /\ callback' = callback /\ exchange' = exchange
    BY <1>7 DEF vars
  <2> QED BY <1>1, <2>1, WithdrawnSome DEF Withdraws, Offers
<1> QED BY <1>3, <1>4, <1>5, <1>6, <1>7 DEF Next

\* Attempts, callbacks and claims implement a voucher that is made and spent once, by
\* the one who shows its code, for the session or the login that it was made for.
THEOREM HandoffIsVoucher == Spec => ImplementsVoucher
<1>1. Init => Handoff!Init
  <2> SUFFICES ASSUME Init PROVE Handoff!Init
    OBVIOUS
  <2>1. Made = {} /\ SpentBy = [x \in Exchange |-> None]
    BY DEF Init, NoCallback, NoExchange, Made, Shown, SpentBy, Spent
  <2>2. \A a \in Attempt : ~Offers(a)
    BY DEF Init, NoAttempt, Offers
  <2>3. Offered = {}
    BY <2>2, OfferedAre
  <2> QED BY <2>1, <2>3 DEF Handoff!Init
<1>2. ProviderInv /\ [Next]_vars => [Handoff!Next]_Handoff!vars
  BY StepsOfTheHandoff
<1> QED BY <1>1, <1>2, Invariance, PTL DEF Spec, ImplementsVoucher, Handoff!Spec
=============================================================================
