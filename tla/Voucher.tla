------------------------------- MODULE Voucher -------------------------------
(* What the handoff of a provider login promises: a voucher made from one  *)
(* provider proof, under one code, for one purpose, and spent once.        *)
CONSTANTS
  Attempt,   \* what a voucher belongs to
  Code,      \* the codes that vouchers are made under
  Exchange,  \* those who present a voucher
  Purpose,   \* what a voucher is good for
  None       \* an exchange that has spent nothing

VARIABLES
  made,     \* pairs of a code and its attempt
  offered,  \* the vouchers that can be spent
  spent     \* the voucher that each exchange has spent

vars == <<made, offered, spent>>

Init ==
  /\ made = {}
  /\ offered = {}
  /\ spent = [x \in Exchange |-> None]

\* One code for an attempt, never a second one.  The voucher may be dead from the start.
Make(c, a) ==
  /\ made' = made \cup {<<c, a>>}
  /\ \/ UNCHANGED offered
     \/ \E purpose \in Purpose : offered' = offered \cup {[attempt |-> a, code |-> c, purpose |-> purpose]}
  /\ UNCHANGED spent

Spend(x, v) ==
  /\ v \in offered
  /\ \A y \in Exchange : spent[y] # v
  /\ spent' = [spent EXCEPT ![x] = v]
  /\ offered' = offered \ {v}
  /\ UNCHANGED made

\* Vouchers expire, or are withdrawn after too many wrong codes.
Withdraw(V) ==
  /\ V \subseteq offered
  /\ offered' = offered \ V
  /\ UNCHANGED <<made, spent>>

Next ==
  \/ \E V \in SUBSET offered : Withdraw(V)
  \/ \E c \in Code \ {p[1] : p \in made}, a \in Attempt \ {p[2] : p \in made} : Make(c, a)
  \/ \E x \in Exchange : spent[x] = None /\ \E v \in offered : Spend(x, v)

Spec == Init /\ [][Next]_vars
=============================================================================
