----------------------------- MODULE TokenChain -----------------------------
(* What the refresh of a session promises: the tokens of a session form a  *)
(* chain, a token is exchanged for the next one at most once, and a token  *)
(* that comes back after its exchange ends the session.                    *)
(*                                                                         *)
(* A token is named by what drew it: the login that created the session,   *)
(* or the refresh request that it is the answer to.                        *)
CONSTANTS
  Session,  \* sessions, each also the name of its first token
  Request,  \* refresh requests, each also the name of the token it draws
  NoToken   \* a token that no session has

VARIABLES
  offered,  \* the token that a request presents
  answer,   \* what became of a request
  current,  \* the token of a session that can be exchanged
  spent,    \* the tokens exchanged before, with their session
  ended     \* the sessions that were revoked

vars == <<offered, answer, current, spent, ended>>

Token == Session \cup Request

Init ==
  /\ offered = [r \in Request |-> NoToken]
  /\ answer = [r \in Request |-> "none"]
  /\ current = [s \in Session |-> s]
  /\ spent = {}
  /\ ended = {}

Offer(r, t) ==
  /\ answer[r] = "none"
  /\ answer' = [answer EXCEPT ![r] = "pending"]
  /\ offered' = [offered EXCEPT ![r] = t]
  /\ UNCHANGED <<current, spent, ended>>

\* The exchange: only the current token of a session that goes on.
Grant(r, s) ==
  /\ answer[r] = "pending"
  /\ s \notin ended
  /\ current[s] = offered[r]
  /\ answer' = [answer EXCEPT ![r] = "granted"]
  /\ current' = [current EXCEPT ![s] = r]
  /\ spent' = spent \cup {<<offered[r], s>>}
  /\ UNCHANGED <<offered, ended>>

\* A token that was exchanged before ends its session.
Replay(r, s) ==
  /\ answer[r] = "pending"
  /\ <<offered[r], s>> \in spent
  /\ answer' = [answer EXCEPT ![r] = "replayed"]
  /\ ended' = ended \cup {s}
  /\ UNCHANGED <<offered, current, spent>>

\* An unknown token, an inactive session, or an error: nothing changes.
Refuse(r) ==
  /\ answer[r] = "pending"
  /\ answer' = [answer EXCEPT ![r] = "refused"]
  /\ UNCHANGED <<offered, current, spent, ended>>

\* Logout, password reset or claim.
End(S) ==
  /\ ended' = ended \cup S
  /\ UNCHANGED <<offered, answer, current, spent>>

Next ==
  \/ \E r \in Request :
       \/ \E t \in Token \cup {NoToken} : Offer(r, t)
       \/ \E s \in Session : Grant(r, s) \/ Replay(r, s)
       \/ Refuse(r)
  \/ \E S \in SUBSET Session : End(S)

Spec == Init /\ [][Next]_vars
=============================================================================
