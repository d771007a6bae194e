----------------------------- MODULE CreateOnce -----------------------------
(* What an idempotency key promises: while the record of a key lasts, the  *)
(* calls that carry the key make one workspace between them, and those     *)
(* that ask for the same name are told of the same one.                    *)
(*                                                                         *)
(* A workspace is named by the call that made it.                          *)
EXTENDS Integers

CONSTANTS
  Call,     \* calls of CreateWorkspace, each also the name of the workspace it makes
  Scope,    \* what a key identifies: a subject and a key of that subject
  NoCall,   \* no workspace
  ScopeOf,  \* the scope of a call
  NameOf,   \* the name that a call asks for
  Lifetime  \* how long a key remembers

VARIABLES
  memory,  \* the workspace that a scope remembers, and since when
  told,    \* the workspace that a call was told of
  now

vars == <<memory, told, now>>

Nothing == [workspace |-> NoCall, since |-> 0]

Init ==
  /\ memory = [s \in Scope |-> Nothing]
  /\ told = [c \in Call |-> NoCall]
  /\ now = 0

Forgotten(s, t) == memory[s] = Nothing \/ memory[s].since + Lifetime <= t

\* A new workspace, remembered from a moment t of the call.  The caller may not hear of it.
Create(c, t) ==
  /\ Forgotten(ScopeOf[c], t)
  /\ memory' = [memory EXCEPT ![ScopeOf[c]] = [workspace |-> c, since |-> t]]
  /\ told' \in {told, [told EXCEPT ![c] = c]}
  /\ UNCHANGED now

\* The workspace of an earlier call that asked for the same name.
Replay(c) ==
  LET w == memory[ScopeOf[c]].workspace IN
  /\ w # NoCall
  /\ NameOf[w] = NameOf[c]
  /\ told' = [told EXCEPT ![c] = w]
  /\ UNCHANGED <<memory, now>>

Tick == now' = now + 1 /\ UNCHANGED <<memory, told>>

Next ==
  \/ \E c \in Call : told[c] = NoCall /\ ((\E t \in 0..now : Create(c, t)) \/ Replay(c))
  \/ Tick

Spec == Init /\ [][Next]_vars
=============================================================================
