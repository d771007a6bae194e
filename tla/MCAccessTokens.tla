--------------------------- MODULE MCAccessTokens ---------------------------
(* Two pods, so that a rollout replaces one with the other, three keys, so *)
(* that a second rotation follows the first, and one session with a token  *)
(* that refreshes replace.  A claim gives the session to the account c.    *)
EXTENDS AccessTokens, TLC

CONSTANTS p1, p2, a1, a2, s1, t1, q1

MCOwner == s1 :> a1
Pods == Permutations({p1, p2})
=============================================================================
