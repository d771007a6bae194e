------------------------------- MODULE Courier -------------------------------
(* What the delivery of codes and notices promises, whoever stops and      *)
(* whatever fails: an item that is accepted is kept until it was mailed or *)
(* is void, a carrier has the item in its hand to itself, and it mails only *)
(* what was due when it took it.  An item that a carrier holds is not      *)
(* withdrawn; a hold that breaks leaves the carrier with the item in its   *)
(* hand, which it may still mail but not settle.                           *)
CONSTANTS
  Item,       \* what is accepted for delivery
  Carrier,    \* those who deliver
  Nothing,    \* in the hand of a carrier that has no item
  HoldsBreak  \* whether a carrier can lose its hold of the item in its hand

VARIABLES
  accepted,   \* the items that were accepted
  withdrawn,  \* accepted items that are not to be mailed any more
  lapsed,     \* accepted items whose time is over
  kept,       \* accepted items that may still be taken
  hand,       \* the item that each carrier is at
  holders,    \* the carriers that hold their item
  mailed

vars == <<accepted, withdrawn, lapsed, kept, hand, holders, mailed>>

Void == withdrawn \cup lapsed
Held(i) == \E k \in holders : hand[k] = i
Busy == {k \in Carrier : hand[k] # Nothing}

Init ==
  /\ {accepted, withdrawn, lapsed, kept, holders, mailed} = {{}}
  /\ hand = [k \in Carrier |-> Nothing]

Accept(i) ==
  /\ i \notin accepted
  /\ accepted' = accepted \cup {i}
  /\ kept' = kept \cup {i}
  /\ UNCHANGED <<withdrawn, lapsed, hand, holders, mailed>>

Withdraw(i) ==
  /\ i \in accepted /\ ~Held(i)
  /\ withdrawn' = withdrawn \cup {i}
  /\ kept' \in {kept, kept \ {i}}
  /\ UNCHANGED <<accepted, lapsed, hand, holders, mailed>>

\* Time does not wait for a hold.
Lapse(i) ==
  /\ i \in accepted
  /\ lapsed' = lapsed \cup {i}
  /\ UNCHANGED <<accepted, withdrawn, kept, hand, holders, mailed>>

Take(k, i) ==
  /\ i \in kept \ Void /\ ~Held(i)
  /\ hand[k] = Nothing
  /\ hand' = [hand EXCEPT ![k] = i]
  /\ holders' = holders \cup {k}
  /\ UNCHANGED <<accepted, withdrawn, lapsed, kept, mailed>>

Mail(k) ==
  /\ mailed' = mailed \cup {hand[k]}
  /\ UNCHANGED <<accepted, withdrawn, lapsed, kept, hand, holders>>

LetGo(K) ==
  /\ hand' = [k \in Carrier |-> IF k \in K THEN Nothing ELSE hand[k]]
  /\ holders' = holders \ K

\* The item was mailed and is not kept any more.
Settle(k) ==
  /\ k \in holders /\ hand[k] \in mailed
  /\ kept' = kept \ {hand[k]}
  /\ LetGo({k})
  /\ UNCHANGED <<accepted, withdrawn, lapsed, mailed>>

\* Carriers that fail or stop let go of their items, which stay kept.  An item may have been
\* mailed by a carrier that knows only that it failed.
Fail(K) ==
  /\ \/ UNCHANGED mailed
     \/ \E k \in K : mailed' = mailed \cup {hand[k]}
  /\ LetGo(K)
  /\ UNCHANGED <<accepted, withdrawn, lapsed, kept>>

BreakHold(k) ==
  /\ HoldsBreak
  /\ holders' = holders \ {k}
  /\ UNCHANGED <<accepted, withdrawn, lapsed, kept, hand, mailed>>

\* Void items that nobody holds need not be kept.
Discard(I) ==
  /\ I \subseteq Void /\ \A i \in I : ~Held(i)
  /\ kept' = kept \ I
  /\ UNCHANGED <<accepted, withdrawn, lapsed, hand, holders, mailed>>

Next ==
  \/ \E i \in Item : Accept(i) \/ Withdraw(i) \/ Lapse(i) \/ \E k \in Carrier : Take(k, i)
  \/ \E k \in Busy : Mail(k) \/ Settle(k) \/ BreakHold(k)
  \/ \E K \in SUBSET Busy : Fail(K)
  \/ \E I \in SUBSET Void : Discard(I)

Spec == Init /\ [][Next]_vars

(* What follows from it.                                                   *)

\* An item that is due is kept until it was mailed; what a carrier holds is kept, was not
\* withdrawn, and is held by no other; and every item in a hand is held if no hold breaks.
Promise ==
  /\ \A i \in accepted \ Void : i \in kept \cup mailed
  /\ \A k \in holders : hand[k] \in kept \ withdrawn
  /\ \A j, k \in holders : hand[j] = hand[k] => j = k
  /\ ~HoldsBreak => \A k \in Carrier : hand[k] # Nothing => k \in holders
=============================================================================
