-------------------------- MODULE MCReauthentication --------------------------
(* Two sessions of one account and two requests, with a pool of two         *)
(* connections and one hash slot.  The requests ask all there is to ask, of  *)
(* one session or of both, but for pairs that differ in names only.         *)
EXTENDS Reauthentication, TLC

CONSTANTS alice, s1, s2, r1, r2

MCOwner == [s \in {s1, s2} |-> alice]

Rank == "password" :> 1 @@ "code" :> 2 @@ "issue" :> 3 @@ "change" :> 4

MCAsked ==
  {r1 :> [kind |-> k, session |-> s1] @@ r2 :> [kind |-> l, session |-> s] :
     <<k, l, s>> \in {u \in Kind \X Kind \X {s1, s2} : Rank[u[1]] <= Rank[u[2]]}}
=============================================================================
