----------------------- MODULE WorkspaceAndServerProofs -----------------------
(* Theorems about WorkspaceCreation, for every value of its constants: any  *)
(* number of calls, keys and subjects, any collision of lock identifiers;   *)
(* and about ServerLifecycle, for every configuration of its three          *)
(* processes, any number of requests and any timeouts in the order that     *)
(* TimeoutsAssumption states.                                               *)
EXTENDS WorkspaceCreation, ServerLifecycle, FiniteSetTheorems, TLAPS

-----------------------------------------------------------------------------
(* The creation of workspaces.                                             *)

\* The parts from which the others follow.
Core ==
  TypeOK /\ NoKeyCollision /\ LocksEndWithTransactions /\ TransactionsAreLocked /\ ReadsStayTrue
  /\ RecordsMatchWorkspaces /\ AnswersStand

\* Two workspaces of a key are a lifetime apart, for one of them is that of the record or
\* both are older; the parts that clients see follow from the core.
LEMMA CoreSuffices ==
  ASSUME Core, OneWorkspacePerLifetime
  PROVE  CreationInv
<1>1. AllOrNothing
  <2>1. \A w \in workspaces : \E s \in Subject : <<w, s>> \in owners
    BY ConstantsAssumption DEF Core, RecordsMatchWorkspaces, TypeOK, Caller
  <2>2. \A s \in Scope : creations[s].workspace \in workspaces \cup {NoCall}
    BY DEF Core, RecordsMatchWorkspaces, Made, NoRecord
  <2>3. \A s \in Scope : Made(s) # {} => creations[s].workspace \in Made(s)
    <3> SUFFICES ASSUME NEW s \in Scope, NEW w \in Made(s) PROVE creations[s].workspace \in Made(s)
      OBVIOUS
    <3>1. w \in workspaces /\ ScopeOf[w] = s
      BY DEF Made
    <3>2. creations[s] # NoRecord
      BY <3>1 DEF Core, RecordsMatchWorkspaces
    <3> QED BY <3>2 DEF Core, RecordsMatchWorkspaces
  <2> QED BY <2>1, <2>2, <2>3 DEF AllOrNothing, Core, RecordsMatchWorkspaces
<1>2. EndedSessionsGetNothing
  BY DEF EndedSessionsGetNothing, Core, AnswersStand, Answered
<1> QED BY <1>1, <1>2 DEF CreationInv, Core

\* It holds before the first call.
LEMMA InitInv == Init => CreationInv
<1> SUFFICES ASSUME Init PROVE CreationInv
  OBVIOUS
<1>1. TypeOK
  BY ConstantsAssumption DEF Init, TypeOK, CallState, NoRecord
<1>2. NoKeyCollision /\ TransactionsAreLocked /\ ReadsStayTrue /\ AnswersStand
  BY DEF Init, NoKeyCollision, TransactionsAreLocked, ReadsStayTrue, AnswersStand, Locked
<1>3. LocksEndWithTransactions
  BY DEF Init, LocksEndWithTransactions
<1>4. RecordsMatchWorkspaces /\ OneWorkspacePerLifetime
  BY DEF Init, RecordsMatchWorkspaces, OneWorkspacePerLifetime, Made
<1> QED BY <1>1, <1>2, <1>3, <1>4, CoreSuffices DEF Core

\* What a step leaves of a call that moves from one statement to another.
LEMMA Moves ==
  ASSUME TypeOK, NEW c \in Call, NEW state \in CallState, call' = [call EXCEPT ![c] = state]
  PROVE  /\ call' \in [Call -> CallState] /\ call'[c] = state
         /\ \A d \in Call \ {c} : call'[d] = call[d]
BY DEF TypeOK

\* The same, for a call that only moves on.
LEMMA Goes ==
  ASSUME TypeOK, NEW c \in Call, NEW step \in {"idle"} \cup Running \cup Done, GoTo(c, step)
  PROVE  /\ call' \in [Call -> CallState] /\ call'[c] = [call[c] EXCEPT !.at = step]
         /\ \A d \in Call \ {c} : call'[d] = call[d]
<1>1. [call[c] EXCEPT !.at = step] \in CallState
  BY DEF TypeOK, CallState
<1>2. call' = [call EXCEPT ![c] = [call[c] EXCEPT !.at = step]]
  BY DEF GoTo
<1> QED BY <1>1, <1>2, Moves

-----------------------------------------------------------------------------
(* Locks.                                                                  *)

\* Two transactions of one scope never run at once.
LEMMA Exclusion ==
  ASSUME CreationInv, NEW c \in Call, NEW d \in Call,
         call[c].at \in Locked, call[d].at \in Locked, LockId(c) = LockId(d)
  PROVE  c = d
BY DEF CreationInv, TransactionsAreLocked

\* A step of c that keeps the locks, and stays on its side of the lock.
LEMMA KeepsLocks ==
  ASSUME CreationInv, NEW c \in Call, lock' = lock, \A d \in Call \ {c} : call'[d] = call[d],
         call[c].at \in Locked <=> call'[c].at \in Locked
  PROVE  LocksEndWithTransactions' /\ TransactionsAreLocked'
<1>1. LocksEndWithTransactions'
  BY DEF CreationInv, LocksEndWithTransactions, TypeOK, LockId
<1>2. TransactionsAreLocked'
  BY DEF CreationInv, TransactionsAreLocked, LockId
<1> QED BY <1>1, <1>2

\* The end of a transaction gives back its lock, and no other.
LEMMA Releases ==
  ASSUME CreationInv, NEW c \in Call, Release(c), \A d \in Call \ {c} : call'[d] = call[d],
         call'[c].at \notin Locked
  PROVE  LocksEndWithTransactions' /\ TransactionsAreLocked' /\ lock' \in [Lock -> Call \cup {NoCall}]
<1>1. /\ lock' \in [Lock -> Call \cup {NoCall}]
      /\ \A l \in Lock : lock'[l] = IF lock[l] = c THEN NoCall ELSE lock[l]
  BY DEF Release, CreationInv, TypeOK
<1>2. LocksEndWithTransactions'
  BY <1>1 DEF CreationInv, LocksEndWithTransactions, TypeOK, LockId
<1>3. TransactionsAreLocked'
  <2> SUFFICES ASSUME NEW d \in Call, call'[d].at \in Locked PROVE lock'[LockId(d)] = d
    BY DEF TransactionsAreLocked, LockId
  <2>1. d # c /\ call[d].at \in Locked
    OBVIOUS
  <2>2. lock[LockId(d)] = d /\ LockId(d) \in Lock
    BY <2>1, ConstantsAssumption DEF CreationInv, TransactionsAreLocked, LockId
  <2> QED BY <1>1, <2>1, <2>2
<1> QED BY <1>1, <1>2, <1>3

-----------------------------------------------------------------------------
(* Steps that write no table.                                              *)

\* A step of c that writes no table and does not move the clock: what c has read, and what
\* it is answered, are all that may change.
LEMMA WritesNothing ==
  ASSUME CreationInv, NEW c \in Call, TypeOK', LocksEndWithTransactions', TransactionsAreLocked',
         UNCHANGED <<workspaces, owners, creations, now, active>>,
         \A d \in Call \ {c} : call'[d] = call[d],
         c \notin workspaces,
         call'[c].at \in {"insert", "own", "record", "commitCreation"} => Visible(c)' = NoRecord,
         LET record == creations[ScopeOf[c]] IN
           /\ call'[c].at \in Locked \ {"sweep"} /\ call'[c].swept => Expired(ScopeOf[c])
           /\ call'[c].at = "commitReplay" =>
                record.workspace = call'[c].found /\ SameRequest(c, call'[c].found)
           /\ call'[c].at = "commitCreation" => /\ call'[c].since <= now
                                                /\ record = NoRecord \/ record.since + Lifetime <= call'[c].since,
         call'[c].at # "created",
         call'[c].at = "replayed" =>
           call'[c].found \in Made(ScopeOf[c]) /\ NameOf[call'[c].found] = NameOf[c],
         call'[c].late => call'[c].at \in {"check", "unauthenticated", "failed"} /\ Caller(c) \notin active
  PROVE  CreationInv'
<1>1. NoKeyCollision'
  BY DEF CreationInv, NoKeyCollision, Visible
<1>2. ReadsStayTrue'
  <2> SUFFICES ASSUME NEW d \in Call
               PROVE  LET record == creations[ScopeOf[d]] IN
                 /\ call'[d].at \in Locked \ {"sweep"} /\ call'[d].swept => Expired(ScopeOf[d])
                 /\ call'[d].at = "commitReplay" =>
                      record.workspace = call'[d].found /\ SameRequest(d, call'[d].found)
                 /\ call'[d].at = "commitCreation" =>
                      /\ call'[d].since <= now
                      /\ record = NoRecord \/ record.since + Lifetime <= call'[d].since
    BY DEF ReadsStayTrue, Expired, SameRequest, NameOf
  <2> QED BY DEF CreationInv, ReadsStayTrue
<1>3. RecordsMatchWorkspaces'
  <2>1. \A w \in workspaces : w \in Call /\ w # c /\ call'[w] = call[w]
    BY DEF CreationInv, TypeOK
  <2>2. \A s \in Scope : Made(s)' = Made(s) /\ Made(s) \subseteq workspaces
    BY DEF Made
  <2> QED BY <2>1, <2>2 DEF CreationInv, RecordsMatchWorkspaces, Caller
<1>4. AnswersStand'
  BY DEF CreationInv, AnswersStand, Made, NameOf, Caller
<1>5. OneWorkspacePerLifetime'
  <2>1. \A w \in workspaces : w \in Call /\ w # c /\ call'[w] = call[w]
    BY DEF CreationInv, TypeOK
  <2> QED BY <2>1 DEF CreationInv, OneWorkspacePerLifetime, Made
<1>6. Core'
  BY <1>1, <1>2, <1>3, <1>4 DEF Core
<1>7. (Core /\ OneWorkspacePerLifetime => CreationInv)'
  BY CoreSuffices, PTL
<1> QED BY <1>5, <1>6, <1>7

\* A step of c that writes no table is an admission, a statement, a replay or an error.
LEMMA QuietStep ==
  ASSUME CreationInv, NEW c \in Call, Begin(c) \/ (Step(c) /\ ~CommitCreation(c)) \/ Fail(c)
  PROVE  CreationInv'
<1> USE ConstantsAssumption
<1>1. /\ TypeOK /\ c \in Call /\ call[c] \in CallState
      /\ ScopeOf[c] \in Scope /\ Caller(c) \in Subject /\ LockId(c) \in Lock
  BY DEF CreationInv, TypeOK, Caller, LockId
<1>2. ASSUME call[c].at \notin {"created", "failed"} PROVE c \notin workspaces
  BY <1>2 DEF CreationInv, RecordsMatchWorkspaces
<1>3. \A d \in Call : call[d].late => call[d].at \in {"check", "unauthenticated", "failed"} /\ Caller(d) \notin active
  BY DEF CreationInv, AnswersStand
<1>4. CASE Begin(c)
  <2>1. /\ call'[c] = [call[c] EXCEPT !.at = "check", !.late = Caller(c) \notin active]
        /\ \A d \in Call \ {c} : call'[d] = call[d]
        /\ call[c].at = "idle" /\ UNCHANGED <<tables, lock, environment>>
    BY <1>1, <1>4 DEF Begin, TypeOK
  <2>2. TypeOK'
    BY <1>1, <1>4 DEF Begin, TypeOK, CallState, Running, tables, environment
  <2>3. LocksEndWithTransactions' /\ TransactionsAreLocked'
    BY <1>1, <2>1, KeepsLocks DEF Locked, CallState
  <2> QED BY <1>1, <1>2, <2>1, <2>2, <2>3, WritesNothing DEF tables, environment, Locked, CallState
<1>5. CASE CheckSession(c)
  <2>1. /\ call'[c] = [call[c] EXCEPT !.at = call'[c].at]
        /\ call'[c].at \in {"unauthenticated", "lock", "invalid"}
        /\ Caller(c) \notin active => call'[c].at = "unauthenticated"
        /\ \A d \in Call \ {c} : call'[d] = call[d]
        /\ call[c].at = "check" /\ UNCHANGED <<tables, lock, environment>>
    BY <1>1, <1>5 DEF CheckSession, GoTo, TypeOK, CallState
  <2>2. TypeOK'
    BY <1>1, <1>5 DEF CheckSession, GoTo, TypeOK, CallState, Running, Done, tables, environment
  <2>3. LocksEndWithTransactions' /\ TransactionsAreLocked'
    BY <1>1, <2>1, KeepsLocks DEF Locked, CallState
  <2> QED BY <1>1, <1>2, <1>3, <2>1, <2>2, <2>3, WritesNothing DEF tables, environment, Locked, CallState
<1>6. CASE TryCreateWorkspaceLock(c)
  <2>1. /\ call'[c] = [call[c] EXCEPT !.at = call'[c].at] /\ call'[c].at \in {"sweep", "aborted"}
        /\ \A d \in Call \ {c} : call'[d] = call[d]
        /\ call[c].at = "lock" /\ UNCHANGED <<tables, environment>>
        /\ call' \in [Call -> CallState]
    <3>1. PICK step \in {"sweep", "aborted"} : GoTo(c, step)
      BY <1>6 DEF TryCreateWorkspaceLock
    <3>2. /\ call' \in [Call -> CallState] /\ call'[c] = [call[c] EXCEPT !.at = step]
          /\ \A d \in Call \ {c} : call'[d] = call[d]
      BY <1>1, <3>1, Goes DEF Running, Locked, Done
    <3> QED BY <1>1, <1>6, <3>1, <3>2 DEF TryCreateWorkspaceLock, CallState
  <2>2. TypeOK'
    <3>1. lock' \in [Lock -> Call \cup {NoCall}]
      BY <1>1, <1>6 DEF TryCreateWorkspaceLock, TypeOK
    <3> QED BY <1>1, <2>1, <3>1 DEF TypeOK, tables, environment
  <2>3. LocksEndWithTransactions' /\ TransactionsAreLocked'
    <3>1. CASE call'[c].at = "aborted"
      <4>1. lock' = lock
        BY <1>1, <1>6, <3>1 DEF TryCreateWorkspaceLock, GoTo, TypeOK, CallState
      <4> QED BY <2>1, <3>1, <4>1, KeepsLocks DEF Locked
    <3>2. CASE call'[c].at = "sweep"
      <4>1. lock[LockId(c)] = NoCall /\ lock' = [lock EXCEPT ![LockId(c)] = c]
        BY <1>1, <1>6, <3>2 DEF TryCreateWorkspaceLock, GoTo, TypeOK, CallState
      <4>2. \A l \in Lock : lock'[l] = IF l = LockId(c) THEN c ELSE lock[l]
        BY <1>1, <4>1 DEF TypeOK
      <4>3. \A d \in Call : LockId(d)' = LockId(d) /\ LockId(d) \in Lock
        BY DEF LockId
      <4>4. LocksEndWithTransactions'
        <5> SUFFICES ASSUME NEW l \in Lock, lock'[l] # NoCall
                     PROVE  call'[lock'[l]].at \in Locked /\ LockId(lock'[l]) = l
          BY DEF LocksEndWithTransactions, LockId
        <5>1. CASE l = LockId(c)
          BY <3>2, <4>2, <5>1 DEF Locked, LockId
        <5>2. CASE l # LockId(c)
          <6>1. lock'[l] = lock[l] /\ lock[l] \in Call /\ call[lock[l]].at \in Locked /\ LockId(lock[l]) = l
            BY <4>2, <5>2 DEF CreationInv, LocksEndWithTransactions, TypeOK
          <6>2. call'[lock[l]] = call[lock[l]]
            BY <2>1, <5>2, <6>1
          <6> QED BY <6>1, <6>2 DEF LockId
        <5> QED BY <5>1, <5>2
      <4>5. TransactionsAreLocked'
        <5> SUFFICES ASSUME NEW d \in Call, call'[d].at \in Locked PROVE lock'[LockId(d)] = d
          BY <4>3 DEF TransactionsAreLocked
        <5>1. CASE d # c
          <6>1. lock[LockId(d)] = d
            BY <2>1, <5>1 DEF CreationInv, TransactionsAreLocked
          <6> QED BY <4>1, <4>2, <4>3, <6>1
        <5> QED BY <4>2, <4>3, <5>1
      <4> QED BY <4>4, <4>5
    <3> QED BY <2>1, <3>1, <3>2
  <2> QED BY <1>1, <1>2, <1>3, <2>1, <2>2, <2>3, WritesNothing DEF tables, environment, Locked, CallState
<1>7. CASE DeleteExpiredWorkspaceCreation(c)
  <2>1. /\ call'[c] = [call[c] EXCEPT !.at = "find", !.swept = Expired(ScopeOf[c])]
        /\ \A d \in Call \ {c} : call'[d] = call[d]
        /\ call[c].at = "sweep" /\ UNCHANGED <<tables, lock, environment>>
        /\ call' \in [Call -> CallState]
    <3>1. Expired(ScopeOf[c]) \in BOOLEAN
      BY <1>1 DEF Expired, TypeOK
    <3>2. [call[c] EXCEPT !.at = "find", !.swept = Expired(ScopeOf[c])] \in CallState
      BY <1>1, <3>1 DEF CallState, Running, Locked
    <3>3. call' = [call EXCEPT ![c] = [call[c] EXCEPT !.at = "find", !.swept = Expired(ScopeOf[c])]]
      BY <1>7 DEF DeleteExpiredWorkspaceCreation
    <3> QED BY <1>1, <1>7, <3>2, <3>3, Moves DEF DeleteExpiredWorkspaceCreation
  <2>2. TypeOK'
    BY <1>1, <2>1 DEF TypeOK, tables, environment
  <2>3. LocksEndWithTransactions' /\ TransactionsAreLocked'
    BY <1>1, <2>1, KeepsLocks DEF Locked, CallState
  <2> QED BY <1>1, <1>2, <1>3, <2>1, <2>2, <2>3, WritesNothing DEF tables, environment, Locked, CallState
<1>8. CASE GetWorkspaceCreation(c)
  <2> DEFINE found == Visible(c).workspace
  <2>1. /\ call'[c] = [call[c] EXCEPT !.at = call'[c].at, !.found = call'[c].found]
        /\ \A d \in Call \ {c} : call'[d] = call[d]
        /\ call[c].at = "find" /\ UNCHANGED <<tables, environment>>
        /\ call' \in [Call -> CallState]
        /\ \/ call'[c].at = "insert" /\ found = NoCall /\ lock' = lock
           \/ call'[c].at = "commitReplay" /\ call'[c].found = found /\ SameRequest(c, found) /\ lock' = lock
           \/ call'[c].at = "conflict" /\ Release(c)
    <3>1. ASSUME NEW step \in {"insert", "conflict"}, GoTo(c, step)
          PROVE  /\ call' \in [Call -> CallState] /\ call'[c].at = step
                 /\ call'[c] = [call[c] EXCEPT !.at = call'[c].at, !.found = call'[c].found]
                 /\ \A d \in Call \ {c} : call'[d] = call[d]
      <4>1. /\ call' \in [Call -> CallState] /\ call'[c] = [call[c] EXCEPT !.at = step]
            /\ \A d \in Call \ {c} : call'[d] = call[d]
        BY <1>1, <3>1, Goes DEF Running, Locked, Done
      <4> QED BY <1>1, <4>1 DEF CallState
    <3>2. CASE found = NoCall /\ GoTo(c, "insert") /\ UNCHANGED lock
      BY <1>8, <3>1, <3>2 DEF GetWorkspaceCreation
    <3>3. CASE /\ SameRequest(c, found) /\ UNCHANGED lock
               /\ call' = [call EXCEPT ![c] = [@ EXCEPT !.at = "commitReplay", !.found = found]]
      <4> DEFINE state == [call[c] EXCEPT !.at = "commitReplay", !.found = found]
      <4>1. found \in Call \cup {NoCall}
        BY <1>1 DEF Visible, NoRecord, TypeOK
      <4>2. /\ state \in CallState /\ state.at = "commitReplay" /\ state.found = found
            /\ state = [call[c] EXCEPT !.at = state.at, !.found = state.found]
        BY <1>1, <4>1 DEF CallState, Running, Locked
      <4>3. call' = [call EXCEPT ![c] = state]
        BY <3>3
      <4>4. /\ call' \in [Call -> CallState] /\ call'[c] = state
            /\ \A d \in Call \ {c} : call'[d] = call[d]
        BY <1>1, <4>2, <4>3, Moves
      <4> QED BY <1>8, <3>3, <4>2, <4>4 DEF GetWorkspaceCreation
    <3>4. CASE GoTo(c, "conflict") /\ Release(c)
      BY <1>8, <3>1, <3>4 DEF GetWorkspaceCreation
    <3> QED BY <1>8, <3>2, <3>3, <3>4 DEF GetWorkspaceCreation
  <2>2. TypeOK' /\ LocksEndWithTransactions' /\ TransactionsAreLocked'
    <3>1. CASE call'[c].at = "conflict"
      <4>1. LocksEndWithTransactions' /\ TransactionsAreLocked' /\ lock' \in [Lock -> Call \cup {NoCall}]
        BY <2>1, <3>1, Releases DEF Locked
      <4> QED BY <1>1, <2>1, <4>1 DEF TypeOK, tables, environment
    <3>2. CASE call'[c].at # "conflict"
      <4>1. LocksEndWithTransactions' /\ TransactionsAreLocked'
        BY <2>1, <3>2, KeepsLocks DEF Locked
      <4> QED BY <1>1, <2>1, <3>2, <4>1 DEF TypeOK, tables, environment
    <3> QED BY <3>1, <3>2
  <2>3. call'[c].at = "insert" => Visible(c) = NoRecord
    <3>1. creations[ScopeOf[c]] = NoRecord \/ creations[ScopeOf[c]].workspace \in Call
      BY <1>1 DEF CreationInv, RecordsMatchWorkspaces, Made, TypeOK
    <3> QED BY <2>1, <3>1, ConstantsAssumption DEF Visible
  <2>4. call'[c].at = "commitReplay" =>
          creations[ScopeOf[c]].workspace = call'[c].found /\ SameRequest(c, call'[c].found)
    BY <2>1 DEF Visible, NoRecord, SameRequest
  <2>5. call'[c].swept => Expired(ScopeOf[c])
    BY <1>1, <2>1 DEF CreationInv, ReadsStayTrue, Locked, CallState
  <2>6. Visible(c)' = Visible(c) /\ ~call'[c].late
    BY <1>1, <1>3, <2>1 DEF Visible, tables, CallState
  <2> QED BY <1>1, <1>2, <2>1, <2>2, <2>3, <2>4, <2>5, <2>6, WritesNothing DEF tables, environment, CallState
<1>9. CASE CreateWorkspace(c) \/ CreateWorkspaceOwner(c) \/ RecordWorkspaceCreation(c)
  <2>1. /\ call'[c] = [call[c] EXCEPT !.at = call'[c].at, !.since = call'[c].since]
        /\ call'[c].at \in {"own", "record", "commitCreation"}
        /\ call'[c].at = "commitCreation" => call'[c].since = now
        /\ \A d \in Call \ {c} : call'[d] = call[d]
        /\ call[c].at \in {"insert", "own", "record"} /\ UNCHANGED <<tables, lock, environment>>
        /\ call' \in [Call -> CallState]
    <3>1. CASE CreateWorkspace(c) \/ CreateWorkspaceOwner(c)
      <4>1. PICK step \in {"own", "record"} : GoTo(c, step)
        BY <3>1 DEF CreateWorkspace, CreateWorkspaceOwner
      <4>2. /\ call' \in [Call -> CallState] /\ call'[c] = [call[c] EXCEPT !.at = step]
            /\ \A d \in Call \ {c} : call'[d] = call[d]
        BY <1>1, <4>1, Goes DEF Running, Locked
      <4> QED BY <1>1, <3>1, <4>2 DEF CreateWorkspace, CreateWorkspaceOwner, CallState
    <3>2. CASE RecordWorkspaceCreation(c)
      <4> DEFINE state == [call[c] EXCEPT !.at = "commitCreation", !.since = now]
      <4>1. state \in CallState
        BY <1>1 DEF CallState, Running, Locked, TypeOK
      <4>2. call' = [call EXCEPT ![c] = state]
        BY <3>2 DEF RecordWorkspaceCreation
      <4>3. /\ call' \in [Call -> CallState] /\ call'[c] = state
            /\ \A d \in Call \ {c} : call'[d] = call[d]
        BY <1>1, <4>1, <4>2, Moves
      <4> QED BY <1>1, <3>2, <4>3 DEF RecordWorkspaceCreation, CallState
    <3> QED BY <1>9, <3>1, <3>2
  <2>2. TypeOK'
    BY <1>1, <2>1 DEF TypeOK, tables, environment
  <2>3. LocksEndWithTransactions' /\ TransactionsAreLocked'
    BY <1>1, <2>1, KeepsLocks DEF Locked, CallState
  <2>4. Visible(c) = NoRecord /\ Visible(c)' = Visible(c) /\ ~call[c].late
    BY <1>1, <1>3, <2>1 DEF CreationInv, NoKeyCollision, Visible, tables, CallState
  <2>5. call[c].swept => Expired(ScopeOf[c])
    BY <2>1 DEF CreationInv, ReadsStayTrue, Locked
  <2>6. creations[ScopeOf[c]] = NoRecord \/ creations[ScopeOf[c]].since + Lifetime <= now
    BY <2>4, <2>5 DEF Visible, Expired
  <2>7. /\ call'[c].at = "commitCreation" => call'[c].since <= now
        /\ call'[c].swept = call[c].swept /\ call'[c].late = call[c].late
    <3>1. now <= now
      BY <1>1 DEF TypeOK
    <3> QED BY <1>1, <2>1, <3>1 DEF CallState
  <2> QED BY <1>1, <1>2, <2>1, <2>2, <2>3, <2>4, <2>5, <2>6, <2>7, WritesNothing
          DEF tables, environment
<1>10. CASE CommitReplay(c)
  <2>1. /\ call'[c] = [call[c] EXCEPT !.at = "replayed"]
        /\ \A d \in Call \ {c} : call'[d] = call[d]
        /\ call[c].at = "commitReplay" /\ Release(c) /\ UNCHANGED <<tables, environment>>
    BY <1>1, <1>10 DEF CommitReplay, GoTo, TypeOK
  <2>2. LocksEndWithTransactions' /\ TransactionsAreLocked' /\ lock' \in [Lock -> Call \cup {NoCall}]
    BY <1>1, <2>1, Releases DEF Locked, CallState
  <2>3. TypeOK'
    BY <1>1, <1>10, <2>2 DEF CommitReplay, GoTo, TypeOK, CallState, Running, Done, tables, environment
  <2>4. call[c].found \in Made(ScopeOf[c]) /\ NameOf[call[c].found] = NameOf[c]
    <3>1. creations[ScopeOf[c]].workspace = call[c].found /\ SameRequest(c, call[c].found)
      BY <2>1 DEF CreationInv, ReadsStayTrue
    <3>2. creations[ScopeOf[c]] # NoRecord
      BY <3>1 DEF SameRequest, NoRecord
    <3> QED BY <1>1, <3>1, <3>2 DEF CreationInv, RecordsMatchWorkspaces, SameRequest
  <2> QED BY <1>1, <1>2, <1>3, <2>1, <2>2, <2>3, <2>4, WritesNothing DEF tables, environment, Locked, CallState
<1>11. CASE Fail(c)
  <2>1. /\ call'[c] = [call[c] EXCEPT !.at = "failed"]
        /\ \A d \in Call \ {c} : call'[d] = call[d]
        /\ call[c].at \in Running /\ Release(c) /\ UNCHANGED <<tables, active, now>>
    BY <1>1, <1>11 DEF Fail, GoTo, TypeOK
  <2>2. LocksEndWithTransactions' /\ TransactionsAreLocked' /\ lock' \in [Lock -> Call \cup {NoCall}]
    BY <1>1, <2>1, Releases DEF Locked, CallState
  <2>3. TypeOK'
    <3>1. call' \in [Call -> CallState]
      BY <1>1, <1>11, Goes DEF Fail, Done
    <3>2. faults' \in 0..MaxFaults
      BY <1>1, <1>11 DEF Fail, TypeOK
    <3> QED BY <1>1, <2>1, <2>2, <3>1, <3>2 DEF TypeOK, tables
  <2> QED BY <1>1, <1>2, <1>3, <2>1, <2>2, <2>3, WritesNothing DEF tables, Running, Locked, CallState
<1> QED BY <1>4, <1>5, <1>6, <1>7, <1>8, <1>9, <1>10, <1>11 DEF Step

-----------------------------------------------------------------------------
(* Steps that write the tables, and steps of the environment.              *)

\* What is known of the record that a commit replaces.
LEMMA BeforeCommit ==
  ASSUME CreationInv, NEW c \in Call, call[c].at = "commitCreation"
  PROVE  LET s == ScopeOf[c] IN
         /\ c \notin workspaces /\ ~call[c].late /\ call[c].since \in 0..now
         /\ creations[s] = NoRecord \/ creations[s].since + Lifetime <= call[c].since
         /\ \A w \in Made(s) : w \in Call /\ w # c /\ call[w].since + Lifetime <= call[c].since
<1> USE ConstantsAssumption
<1>1. c \notin workspaces /\ ~call[c].late
  BY DEF CreationInv, RecordsMatchWorkspaces, AnswersStand
<1>2. /\ call[c].since <= now
      /\ creations[ScopeOf[c]] = NoRecord \/ creations[ScopeOf[c]].since + Lifetime <= call[c].since
  BY DEF CreationInv, ReadsStayTrue
<1>3. ScopeOf[c] \in Scope /\ creations[ScopeOf[c]].since \in Nat /\ \A d \in Call : call[d].since \in Nat
  BY DEF CreationInv, TypeOK, CallState
<1>4. ASSUME NEW w \in Made(ScopeOf[c])
      PROVE  w \in Call /\ w # c /\ call[w].since + Lifetime <= call[c].since
  <2>1. w \in workspaces /\ w \in Call /\ ScopeOf[w] = ScopeOf[c]
    BY DEF Made, CreationInv, TypeOK
  <2>2. /\ creations[ScopeOf[c]] # NoRecord
        /\ creations[ScopeOf[c]].workspace = w \/ call[w].since + Lifetime <= creations[ScopeOf[c]].since
    BY <2>1 DEF CreationInv, RecordsMatchWorkspaces
  <2>3. call[w].since <= creations[ScopeOf[c]].since
    BY <1>3, <2>1, <2>2 DEF CreationInv, RecordsMatchWorkspaces
  <2> QED BY <1>1, <1>2, <1>3, <2>1, <2>2, <2>3
<1>5. now \in Nat
  BY DEF CreationInv, TypeOK
<1> QED BY <1>1, <1>2, <1>3, <1>4, <1>5

\* A commit, whether or not its answer arrives.
LEMMA CommitStep ==
  ASSUME CreationInv, NEW c \in Call, CommitRows(c), NEW end \in {"created", "failed"},
         call' = [call EXCEPT ![c] = [@ EXCEPT !.at = end, !.committed = now]],
         faults' \in 0..MaxFaults
  PROVE  CreationInv'
<1> USE ConstantsAssumption
<1>1. /\ TypeOK /\ call[c] \in CallState /\ call[c].at = "commitCreation"
      /\ ScopeOf[c] \in Scope /\ Caller(c) \in Subject /\ LockId(c) \in Lock
  BY DEF CreationInv, TypeOK, Caller, LockId, CommitRows
<1>2. /\ call' \in [Call -> CallState] /\ call'[c] = [call[c] EXCEPT !.at = end, !.committed = now]
      /\ \A d \in Call \ {c} : call'[d] = call[d]
  <2>1. [call[c] EXCEPT !.at = end, !.committed = now] \in CallState
    BY <1>1 DEF TypeOK, CallState, Done
  <2>2. call' = [call EXCEPT ![c] = [call[c] EXCEPT !.at = end, !.committed = now]]
    OBVIOUS
  <2> QED BY <1>1, <2>1, <2>2, Moves
<1>3. call'[c].at = end /\ call'[c].since = call[c].since /\ call'[c].late = call[c].late
  BY <1>1, <1>2 DEF CallState
<1>4. LocksEndWithTransactions' /\ TransactionsAreLocked' /\ lock' \in [Lock -> Call \cup {NoCall}]
  BY <1>2, <1>3, Releases DEF CommitRows, Locked
<1> DEFINE s == ScopeOf[c]
           record == [workspace |-> c, since |-> call[c].since]
<1>5. /\ workspaces' = workspaces \cup {c} /\ owners' = owners \cup {<<c, Caller(c)>>}
      /\ creations' = [creations EXCEPT ![s] = record] /\ UNCHANGED <<active, now>>
  BY DEF CommitRows
<1>6. creations'[s] = record /\ \A t \in Scope \ {s} : creations'[t] = creations[t]
  BY <1>1, <1>5 DEF TypeOK
<1> DEFINE madeThen(t) == {w \in workspaces \cup {c} : ScopeOf[w] = t}
<1>7. /\ \A t \in Scope : Made(t)' = madeThen(t)
      /\ \A t \in Scope : \A w : w \in madeThen(t) <=> w \in Made(t) \/ (w = c /\ t = s)
  BY <1>5 DEF Made
<1> HIDE DEF madeThen
<1>8. TypeOK'
  <2>1. record \in [workspace: Call \cup {NoCall}, since: 0..MaxTime]
    BY <1>1 DEF CallState
  <2>2. creations' \in [Scope -> [workspace: Call \cup {NoCall}, since: 0..MaxTime]]
    BY <1>1, <1>5, <2>1 DEF TypeOK
  <2> QED BY <1>1, <1>2, <1>4, <1>5, <2>2 DEF TypeOK
<1>9. ASSUME NEW d \in Call, d # c, call[d].at \in Locked PROVE ScopeOf[d] \in Scope \ {s}
  BY <1>1, <1>9, Exclusion DEF LockId, Locked
<1>10. NoKeyCollision'
  <2> SUFFICES ASSUME NEW d \in Call, call'[d].at \in {"insert", "own", "record", "commitCreation"}
               PROVE  Visible(d)' = NoRecord
    BY DEF NoKeyCollision
  <2>1. d # c /\ call'[d] = call[d] /\ call[d].at \in Locked
    BY <1>2, <1>3 DEF Locked
  <2>2. creations'[ScopeOf[d]] = creations[ScopeOf[d]]
    BY <1>6, <1>9, <2>1
  <2> QED BY <2>1, <2>2 DEF CreationInv, NoKeyCollision, Visible
<1>11. ReadsStayTrue'
  <2> SUFFICES ASSUME NEW d \in Call
               PROVE  LET r == creations'[ScopeOf[d]] IN
                 /\ call'[d].at \in Locked \ {"sweep"} /\ call'[d].swept => r.since + Lifetime <= now
                 /\ call'[d].at = "commitReplay" => r.workspace = call'[d].found /\ SameRequest(d, call'[d].found)
                 /\ call'[d].at = "commitCreation" =>
                      /\ call'[d].since <= now
                      /\ r = NoRecord \/ r.since + Lifetime <= call'[d].since
    <3>1. now' = now
      BY <1>5
    <3> QED BY <3>1 DEF ReadsStayTrue, Expired, SameRequest, NameOf
  <2>1. CASE d = c
    BY <1>3, <2>1 DEF Locked
  <2>2. CASE d # c /\ call[d].at \notin Locked
    BY <1>2, <2>2 DEF Locked
  <2>3. CASE d # c /\ call[d].at \in Locked
    <3>1. call'[d] = call[d] /\ creations'[ScopeOf[d]] = creations[ScopeOf[d]]
      BY <1>2, <1>6, <1>9, <2>3
    <3> QED BY <3>1 DEF CreationInv, ReadsStayTrue, Expired
  <2> QED BY <2>1, <2>2, <2>3
<1>12. RecordsMatchWorkspaces'
  <2>1. /\ c \notin workspaces /\ ~call[c].late
        /\ \A w \in Made(s) : w \in Call /\ w # c /\ call[w].since + Lifetime <= call[c].since
    BY <1>1, BeforeCommit
  <2>2. \A w \in workspaces : w \in Call /\ w # c /\ call'[w] = call[w]
    BY <1>1, <1>2, <2>1 DEF TypeOK
  <2>3. ASSUME NEW t \in Scope, creations'[t] # NoRecord
        PROVE  creations'[t].workspace \in Made(t)' /\ call'[creations'[t].workspace].since = creations'[t].since
    <3>1. CASE t = s
      <4>1. c \in Made(s)'
        BY <1>1, <1>7
      <4>2. creations'[t].workspace = c /\ creations'[t].since = call[c].since
        BY <1>6, <3>1
      <4> QED BY <1>3, <3>1, <4>1, <4>2
    <3>2. CASE t # s
      <4>1. /\ creations'[t] = creations[t]
            /\ creations[t].workspace \in Made(t) /\ call[creations[t].workspace].since = creations[t].since
        BY <1>6, <2>3, <3>2 DEF CreationInv, RecordsMatchWorkspaces
      <4>2. creations[t].workspace \in Made(t)' /\ creations[t].workspace \in workspaces
        BY <1>7, <4>1 DEF Made
      <4> QED BY <2>2, <4>1, <4>2
    <3> QED BY <3>1, <3>2
  <2>4. ASSUME NEW w \in workspaces'
        PROVE  LET r == creations'[ScopeOf[w]] IN
               /\ call'[w].at \in {"created", "failed"} /\ <<w, Caller(w)>> \in owners'
               /\ r # NoRecord /\ (r.workspace = w \/ call'[w].since + Lifetime <= r.since)
    <3>1. record # NoRecord
      BY DEF NoRecord
    <3>2. CASE w = c
      BY <1>3, <1>5, <1>6, <3>1, <3>2
    <3>3. CASE w # c
      <4>1. w \in workspaces /\ w \in Call /\ call'[w] = call[w] /\ ScopeOf[w] \in Scope
        BY <1>5, <2>2, <3>3
      <4>2. /\ call[w].at \in {"created", "failed"} /\ <<w, Caller(w)>> \in owners
            /\ creations[ScopeOf[w]] # NoRecord
            /\ creations[ScopeOf[w]].workspace = w \/ call[w].since + Lifetime <= creations[ScopeOf[w]].since
        BY <4>1 DEF CreationInv, RecordsMatchWorkspaces
      <4>3. CASE ScopeOf[w] = s
        <5>1. call[w].since + Lifetime <= call[c].since
          BY <2>1, <4>1, <4>3 DEF Made
        <5> QED BY <1>5, <1>6, <3>1, <4>1, <4>2, <4>3, <5>1
      <4>4. CASE ScopeOf[w] # s
        BY <1>5, <1>6, <4>1, <4>2, <4>4
      <4> QED BY <4>3, <4>4
    <3> QED BY <3>2, <3>3
  <2>5. \A o \in owners' : o[1] \in workspaces' /\ o[2] = Caller(o[1])
    BY <1>5 DEF CreationInv, RecordsMatchWorkspaces
  <2> QED BY <2>3, <2>4, <2>5 DEF RecordsMatchWorkspaces, Caller
<1>13. AnswersStand'
  <2>1. ~call[c].late
    BY <1>1, BeforeCommit
  <2>2. \A t : Made(t) \subseteq Made(t)'
    BY <1>5 DEF Made
  <2> SUFFICES ASSUME NEW d \in Call
               PROVE  /\ call'[d].at = "created" => d \in workspaces'
                      /\ call'[d].at = "replayed" =>
                           call'[d].found \in Made(ScopeOf[d])' /\ NameOf[call'[d].found] = NameOf[d]
                      /\ call'[d].late => /\ call'[d].at \in {"check", "unauthenticated", "failed"}
                                          /\ Caller(d) \notin active' /\ d \notin workspaces'
    BY DEF AnswersStand, NameOf, Caller
  <2>3. CASE d = c
    BY <1>3, <1>5, <2>1, <2>3
  <2>4. CASE d # c
    BY <1>2, <1>5, <2>2, <2>4 DEF CreationInv, AnswersStand
  <2> QED BY <2>3, <2>4
<1>14. OneWorkspacePerLifetime'
  <2>1. /\ c \notin workspaces
        /\ \A w \in Made(s) : w \in Call /\ w # c /\ call[w].since + Lifetime <= call[c].since
    BY <1>1, BeforeCommit
  <2>2. \A w \in workspaces : w # c /\ call'[w] = call[w]
    BY <1>1, <1>2, <2>1 DEF TypeOK
  <2> SUFFICES ASSUME NEW t \in Scope, NEW v \in Made(t)', NEW w \in Made(t)'
               PROVE  v = w \/ call'[v].since + Lifetime <= call'[w].since
                            \/ call'[w].since + Lifetime <= call'[v].since
    BY DEF OneWorkspacePerLifetime
  <2>3. \A u \in Made(t)' : (u = c /\ t = s) \/ (u \in Made(t) /\ u \in workspaces)
    <3>1. Made(t) \subseteq workspaces
      BY DEF Made
    <3> QED BY <1>7, <3>1
  <2>4. CASE v \in Made(t) /\ w \in Made(t)
    BY <2>2, <2>3, <2>4 DEF CreationInv, OneWorkspacePerLifetime, Made
  <2>5. CASE v = c \/ w = c
    BY <1>3, <2>1, <2>2, <2>3, <2>5
  <2> QED BY <2>3, <2>4, <2>5
<1>15. Core'
  BY <1>4, <1>8, <1>10, <1>11, <1>12, <1>13 DEF Core
<1>16. (Core /\ OneWorkspacePerLifetime => CreationInv)'
  BY CoreSuffices, PTL
<1> QED BY <1>14, <1>15, <1>16

\* Sessions end, and time passes: what had expired stays so.
LEMMA EnvironmentStep ==
  ASSUME CreationInv, (\E s \in Subject : EndSession(s)) \/ Tick \/ UNCHANGED vars
  PROVE  CreationInv'
<1> USE ConstantsAssumption
<1>1. /\ UNCHANGED <<tables, lock, call, faults>> /\ active' \subseteq active
      /\ now' \in 0..MaxTime /\ now <= now'
  BY DEF EndSession, Tick, vars, environment, CreationInv, TypeOK
<1>2. TypeOK' /\ LocksEndWithTransactions' /\ TransactionsAreLocked' /\ NoKeyCollision'
  BY <1>1 DEF CreationInv, TypeOK, LocksEndWithTransactions, TransactionsAreLocked, NoKeyCollision,
              Visible, LockId, tables
<1>3. ReadsStayTrue'
  <2>1. \A d \in Call : Expired(ScopeOf[d]) => Expired(ScopeOf[d])'
    BY <1>1 DEF Expired, tables, CreationInv, TypeOK
  <2>2. \A d \in Call : call[d].since \in Nat
    BY DEF CreationInv, TypeOK, CallState
  <2>3. now \in Nat /\ now' \in Nat
    BY <1>1 DEF CreationInv, TypeOK
  <2> QED BY <1>1, <2>1, <2>2, <2>3 DEF CreationInv, ReadsStayTrue, SameRequest, NameOf, tables
<1>4. RecordsMatchWorkspaces' /\ OneWorkspacePerLifetime'
  BY <1>1 DEF CreationInv, RecordsMatchWorkspaces, OneWorkspacePerLifetime, Made, Caller, tables
<1>5. AnswersStand'
  BY <1>1 DEF CreationInv, AnswersStand, Made, NameOf, Caller, tables
<1>6. Core'
  BY <1>2, <1>3, <1>4, <1>5 DEF Core
<1>7. (Core /\ OneWorkspacePerLifetime => CreationInv)'
  BY CoreSuffices, PTL
<1> QED BY <1>4, <1>6, <1>7

\* What overlapping calls, retries, failures and lost answers keep of a key.
THEOREM CreationInvariance == Spec => []CreationInv
<1>1. CreationInv /\ [Next]_vars => CreationInv'
  <2> SUFFICES ASSUME CreationInv, [Next]_vars PROVE CreationInv'
    OBVIOUS
  <2>1. ASSUME NEW c \in Call, CommitCreation(c) \/ LoseAnswer(c) PROVE CreationInv'
    <3>1. CASE CommitCreation(c)
      <4>1. faults' \in 0..MaxFaults
        BY <3>1 DEF CommitCreation, CreationInv, TypeOK
      <4> QED BY <3>1, <4>1, CommitStep DEF CommitCreation
    <3>2. CASE LoseAnswer(c)
      <4>1. faults' \in 0..MaxFaults
        BY <3>2, ConstantsAssumption DEF LoseAnswer, CreationInv, TypeOK
      <4> QED BY <3>2, <4>1, CommitStep DEF LoseAnswer
    <3> QED BY <2>1, <3>1, <3>2
  <2>2. ASSUME NEW c \in Call, Begin(c) \/ Step(c) \/ Fail(c) PROVE CreationInv'
    BY <2>1, <2>2, QuietStep
  <2> QED BY <2>1, <2>2, EnvironmentStep DEF Next
<1> QED BY <1>1, InitInv, PTL DEF Spec

\* Whoever was told of a workspace finds it, and nobody else does.
THEOREM AnswersAreReadable == Spec => []ReadsFindWhatWasAnswered
<1>1. CreationInv => ReadsFindWhatWasAnswered
  <2> SUFFICES ASSUME CreationInv PROVE ReadsFindWhatWasAnswered
    OBVIOUS
  <2>1. ASSUME NEW c \in Call, Answered(c) # NoCall
        PROVE  /\ NameOf[Answered(c)] = NameOf[c]
               /\ GetWorkspace(Caller(c), Answered(c)) # "notFound"
    <3>1. Answered(c) \in Made(ScopeOf[c]) /\ NameOf[Answered(c)] = NameOf[c]
      BY <2>1 DEF Answered, CreationInv, AnswersStand, Made
    <3>2. Answered(c) \in workspaces /\ <<Answered(c), Caller(c)>> \in owners
      BY <3>1 DEF Made, CreationInv, RecordsMatchWorkspaces, Caller
    <3> QED BY <3>1, <3>2 DEF GetWorkspace, GetWorkspaceForSubject
  <2>2. ASSUME NEW s \in Subject, NEW w \in Call, GetWorkspace(s, w) = "found" PROVE s = Caller(w)
    BY <2>2 DEF GetWorkspace, GetWorkspaceForSubject, CreationInv, RecordsMatchWorkspaces
  <2> QED BY <2>1, <2>2 DEF ReadsFindWhatWasAnswered
<1> QED BY <1>1, CreationInvariance, PTL

\* A refusal leaves no workspace behind.
THEOREM RefusalsLeaveNothing == Spec => []RefusalsAreFinal
<1>1. CreationInv => RefusalsAreFinal
  BY DEF RefusalsAreFinal, rpcError, CreationInv, RecordsMatchWorkspaces
<1> QED BY <1>1, CreationInvariance, PTL

-----------------------------------------------------------------------------
(* The refinement.                                                         *)

\* A step of the transaction is a step of the promise, or none.
LEMMA StepsOfThePromise ==
  ASSUME CreationInv, [Next]_vars
  PROVE  [Once!Next]_Once!vars
<1> USE ConstantsAssumption DEF Once!vars
<1>1. TypeOK /\ Told = [c \in Call |-> Answered(c)] /\ \A d \in Call : call[d] \in CallState
  BY DEF CreationInv, TypeOK, Told
<1>2. ASSUME NEW c \in Call, UNCHANGED <<creations, now>>, \A d \in Call \ {c} : call'[d] = call[d],
             call[c].at \notin {"created", "replayed"}, call'[c].at \notin {"created", "replayed"}
      PROVE  UNCHANGED Once!vars
  <2>1. \A d \in Call : Answered(d)' = Answered(d)
    BY <1>2 DEF Answered
  <2> QED BY <1>2, <2>1 DEF Told
<1>3. ASSUME NEW c \in Call, CommitRows(c), NEW end \in {"created", "failed"},
             call' = [call EXCEPT ![c] = [@ EXCEPT !.at = end, !.committed = now]]
      PROVE  Once!Next
  <2>1. call[c].at = "commitCreation" /\ UNCHANGED now
        /\ creations' = [creations EXCEPT ![ScopeOf[c]] = [workspace |-> c, since |-> call[c].since]]
    BY <1>3 DEF CommitRows
  <2>2. /\ call[c].since \in 0..now
        /\ creations[ScopeOf[c]] = NoRecord \/ creations[ScopeOf[c]].since + Lifetime <= call[c].since
    BY <2>1, BeforeCommit
  <2>3. call'[c].at = end /\ \A d \in Call \ {c} : call'[d] = call[d]
    BY <1>1, <1>3 DEF TypeOK, CallState
  <2>4. /\ \A d \in Call \ {c} : Answered(d)' = Answered(d)
        /\ Answered(c) = NoCall /\ Answered(c)' = IF end = "created" THEN c ELSE NoCall
    BY <2>1, <2>3 DEF Answered
  <2>5. Told' = [Told EXCEPT ![c] = IF end = "created" THEN c ELSE NoCall] /\ Told[c] = NoCall
    BY <1>1, <2>4 DEF Told
  <2>6. Told' \in {Told, [Told EXCEPT ![c] = c]}
    BY <1>1, <2>5
  <2>7. Once!Create(c, call[c].since)
    BY <2>1, <2>2, <2>6 DEF Once!Create, Once!Forgotten, Once!Nothing, NoRecord
  <2> QED BY <2>2, <2>5, <2>7 DEF Once!Next
<1>4. ASSUME NEW c \in Call, CommitReplay(c) PROVE Once!Next
  <2>1. /\ call[c].at = "commitReplay" /\ UNCHANGED <<creations, now>>
        /\ call'[c] = [call[c] EXCEPT !.at = "replayed"] /\ \A d \in Call \ {c} : call'[d] = call[d]
    BY <1>1, <1>4, Goes DEF CommitReplay, tables, environment, Done
  <2>2. creations[ScopeOf[c]].workspace = call[c].found /\ SameRequest(c, call[c].found)
    BY <2>1 DEF CreationInv, ReadsStayTrue
  <2>3. /\ \A d \in Call \ {c} : Answered(d)' = Answered(d)
        /\ Answered(c) = NoCall /\ Answered(c)' = call[c].found
    BY <1>1, <2>1 DEF Answered, CallState
  <2>4. Told' = [Told EXCEPT ![c] = call[c].found] /\ Told[c] = NoCall
    BY <1>1, <2>3 DEF Told
  <2>5. Once!Replay(c)
    BY <2>1, <2>2, <2>4 DEF Once!Replay, SameRequest
  <2> QED BY <2>4, <2>5 DEF Once!Next
<1>5. ASSUME NEW c \in Call, Begin(c) \/ Fail(c) \/ (Step(c) /\ ~CommitCreation(c) /\ ~CommitReplay(c))
      PROVE  UNCHANGED Once!vars
  <2>1. UNCHANGED <<creations, now>>
    BY <1>5 DEF Begin, Fail, Step, CheckSession, TryCreateWorkspaceLock, DeleteExpiredWorkspaceCreation,
                GetWorkspaceCreation, CreateWorkspace, CreateWorkspaceOwner, RecordWorkspaceCreation,
                tables, environment
  <2>2. /\ \A d \in Call \ {c} : call'[d] = call[d]
        /\ call[c].at \notin {"created", "replayed"} /\ call'[c].at \notin {"created", "replayed"}
    <3> DEFINE Open == Running \cup {"unauthenticated", "invalid", "aborted", "conflict", "failed"}
    <3>1. call[c].at \notin {"created", "replayed"}
      BY <1>5 DEF Begin, Fail, Step, CheckSession, TryCreateWorkspaceLock, DeleteExpiredWorkspaceCreation,
                  GetWorkspaceCreation, CreateWorkspace, CreateWorkspaceOwner, RecordWorkspaceCreation,
                  Running, Locked
    <3>2. ASSUME NEW state \in CallState, state.at \in Open, call' = [call EXCEPT ![c] = state]
          PROVE  (\A d \in Call \ {c} : call'[d] = call[d]) /\ call'[c].at \notin {"created", "replayed"}
      BY <1>1, <3>2, Moves DEF Running, Locked
    <3>3. ASSUME NEW step \in Open, GoTo(c, step)
          PROVE  (\A d \in Call \ {c} : call'[d] = call[d]) /\ call'[c].at \notin {"created", "replayed"}
      <4>1. /\ call' \in [Call -> CallState] /\ call'[c] = [call[c] EXCEPT !.at = step]
            /\ \A d \in Call \ {c} : call'[d] = call[d]
        BY <1>1, <3>3, Goes DEF Running, Locked, Done
      <4> QED BY <1>1, <4>1 DEF CallState, Running, Locked
    <3>4. CASE Begin(c)
      <4> DEFINE state == [call[c] EXCEPT !.at = "check", !.late = Caller(c) \notin active]
      <4>1. state \in CallState /\ state.at \in Open
        BY <1>1 DEF CallState, Running
      <4>2. call' = [call EXCEPT ![c] = state]
        BY <3>4 DEF Begin
      <4> QED BY <3>1, <3>2, <4>1, <4>2
    <3>5. CASE DeleteExpiredWorkspaceCreation(c)
      <4> DEFINE state == [call[c] EXCEPT !.at = "find", !.swept = Expired(ScopeOf[c])]
      <4>1. Expired(ScopeOf[c]) \in BOOLEAN
        BY <1>1 DEF Expired, TypeOK
      <4>2. state \in CallState /\ state.at \in Open
        BY <1>1, <4>1 DEF CallState, Running, Locked
      <4>3. call' = [call EXCEPT ![c] = state]
        BY <3>5 DEF DeleteExpiredWorkspaceCreation
      <4> QED BY <3>1, <3>2, <4>2, <4>3
    <3>6. CASE RecordWorkspaceCreation(c)
      <4> DEFINE state == [call[c] EXCEPT !.at = "commitCreation", !.since = now]
      <4>1. now \in 0..MaxTime
        BY <1>1 DEF TypeOK
      <4>2. state \in CallState /\ state.at \in Open
        BY <1>1, <4>1 DEF CallState, Running, Locked
      <4>3. call' = [call EXCEPT ![c] = state]
        BY <3>6 DEF RecordWorkspaceCreation
      <4> QED BY <3>1, <3>2, <4>2, <4>3
    <3>7. CASE /\ SameRequest(c, Visible(c).workspace)
               /\ call' = [call EXCEPT ![c] = [@ EXCEPT !.at = "commitReplay", !.found = Visible(c).workspace]]
      <4> DEFINE state == [call[c] EXCEPT !.at = "commitReplay", !.found = Visible(c).workspace]
      <4>1. Visible(c).workspace \in Call \cup {NoCall}
        BY <1>1 DEF Visible, NoRecord, TypeOK
      <4>2. state \in CallState /\ state.at \in Open
        BY <1>1, <4>1 DEF CallState, Running, Locked
      <4>3. call' = [call EXCEPT ![c] = state]
        BY <3>7
      <4> QED BY <3>1, <3>2, <4>2, <4>3
    <3>8. ASSUME ~Begin(c), ~DeleteExpiredWorkspaceCreation(c), ~RecordWorkspaceCreation(c), ~GetWorkspaceCreation(c)
          PROVE  \E step \in Open : GoTo(c, step)
      BY <1>5, <3>8 DEF Fail, Step, CheckSession, TryCreateWorkspaceLock, CreateWorkspace, CreateWorkspaceOwner,
                        Running, Locked
    <3>9. CASE GetWorkspaceCreation(c)
      BY <3>1, <3>3, <3>7, <3>9 DEF GetWorkspaceCreation, Running, Locked
    <3> QED BY <3>1, <3>3, <3>4, <3>5, <3>6, <3>8, <3>9
  <2> QED BY <1>2, <2>1, <2>2
<1>6. CASE Tick
  <2>1. Told' = Told
    BY <1>6 DEF Tick, Told, Answered
  <2> QED BY <1>6, <2>1 DEF Tick, tables, Once!Next, Once!Tick
<1>7. CASE (\E s \in Subject : EndSession(s)) \/ UNCHANGED vars
  <2>1. UNCHANGED <<creations, call, now>>
    BY <1>7 DEF EndSession, vars, tables, environment
  <2> QED BY <2>1 DEF Told, Answered
<1>8. ASSUME NEW c \in Call, Begin(c) \/ Step(c) \/ LoseAnswer(c) \/ Fail(c)
      PROVE  [Once!Next]_Once!vars
  <2>1. CASE CommitCreation(c)
    BY <1>3, <2>1 DEF CommitCreation
  <2>2. CASE LoseAnswer(c)
    BY <1>3, <2>2 DEF LoseAnswer
  <2> QED BY <1>4, <1>5, <1>8, <2>1, <2>2
<1> QED BY <1>6, <1>7, <1>8 DEF Next

\* Lock, lookup, inserts and commit of CreateWorkspace act as one step of a key that creates once.
THEOREM CreationImplementsOnce == Spec => ImplementsCreateOnce
<1>1. Init => Once!Init
  BY DEF Init, Once!Init, Once!Nothing, NoRecord, Told, Answered
<1>2. CreationInv /\ [Next]_vars => [Once!Next]_Once!vars
  BY StepsOfThePromise
<1> QED BY <1>1, <1>2, CreationInvariance, PTL DEF Spec, ImplementsCreateOnce, Once!Spec

-----------------------------------------------------------------------------
(* The three processes.                                                    *)

\* A process is of one kind and keeps its configuration, and with them its servers and clients.
LEMMA KindsStand ==
  ASSUME LifecycleTypeOK
  PROVE  /\ kind \in {"identity-api", "identity-worker", "workspace-api"}
         /\ servers \subseteq Server /\ Clients \cap Telemetry = {}
         /\ kind = "identity-api" => /\ {"public", "internal"} \subseteq servers /\ "health" \notin servers
                                     /\ Clients = {}
         /\ kind = "identity-worker" => servers = {"health"} /\ Clients = {"producer", "consumer"}
         /\ kind = "workspace-api" => servers = {"public"} /\ Clients = {"identity"}
<1>1. kind \in {"identity-api", "identity-worker", "workspace-api"}
  BY KindsAssumption DEF LifecycleTypeOK
<1> QED BY <1>1 DEF servers, Server, Clients, Telemetry

LEMMA RunStands ==
  ASSUME UNCHANGED run
  PROVE  /\ servers' = servers /\ Clients' = Clients /\ kind' = kind /\ config' = config
         /\ WorkBy' = WorkBy /\ StopBy' = StopBy /\ MetricBy' = MetricBy /\ AnswerBy' = AnswerBy
  BY DEF run, servers, Clients, WorkBy, StopBy, MetricBy, AnswerBy

\* The deadlines, and the order between them.
LEMMA Deadlines ==
  /\ {StopTimeout, ReadTimeout, RequestTimeout, ProbeTimeout, MailTimeout, MetricTimeout, FlushTimeout,
       BrokerTimeout, DropTimeout} \subseteq Nat \ {0}
  /\ StepTimeout \in Nat /\ MailTimeout <= StepTimeout
  /\ WorkBy \in Nat /\ WorkBy = (IF kind = "identity-worker" THEN StepTimeout ELSE 0)
  /\ StopBy = WorkBy + StopTimeout /\ MetricBy = StopBy + MetricTimeout
  /\ AnswerBy = (IF kind = "identity-worker" THEN MetricBy + BrokerTimeout ELSE StopBy + RequestTimeout)
  /\ {StopBy, MetricBy, AnswerBy} \subseteq Nat
  /\ WorkBy <= StopBy /\ StopBy <= AnswerBy /\ (kind = "identity-worker" => MetricBy <= AnswerBy)
  /\ WorkBy + ReadTimeout + ProbeTimeout <= MetricBy
  /\ \A s \in Server : HandlerTimeout(s) \in Nat /\ HandlerTimeout(s) <= StopTimeout /\ HandlerTimeout(s) <= RequestTimeout
  /\ HandlerTimeout("health") = ProbeTimeout
<1>1. {StopTimeout, ReadTimeout, RequestTimeout, ProbeTimeout, MailTimeout, MetricTimeout, FlushTimeout,
        BrokerTimeout, DropTimeout} \subseteq Nat \ {0}
  BY TimeoutsAssumption
<1>2. StepTimeout \in Nat /\ MailTimeout <= StepTimeout
  BY <1>1 DEF StepTimeout
<1>3. WorkBy \in Nat /\ WorkBy = (IF kind = "identity-worker" THEN StepTimeout ELSE 0)
  BY <1>2 DEF WorkBy
<1>4. /\ StopBy = WorkBy + StopTimeout /\ MetricBy = StopBy + MetricTimeout
      /\ AnswerBy = (IF kind = "identity-worker" THEN MetricBy + BrokerTimeout ELSE StopBy + RequestTimeout)
  BY DEF StopBy, MetricBy, AnswerBy
<1>5. /\ {StopBy, MetricBy, AnswerBy} \subseteq Nat
      /\ WorkBy <= StopBy /\ StopBy <= AnswerBy /\ (kind = "identity-worker" => MetricBy <= AnswerBy)
  BY <1>1, <1>3, <1>4
<1>6. WorkBy + ReadTimeout + ProbeTimeout <= MetricBy
  BY <1>1, <1>3, <1>4, TimeoutsAssumption
<1> QED BY <1>1, <1>2, <1>3, <1>4, <1>5, <1>6, TimeoutsAssumption DEF HandlerTimeout

-----------------------------------------------------------------------------
(* The steps, by what they may change.                                     *)

\* A step of the start, and where it leads.
Starts ==
  /\ at \in StartSteps
  /\ UNCHANGED <<run, server, results, received, shutting, work, signalled, history>>
  /\ \/ at' \in StartSteps /\ UNCHANGED <<result, timer>>
     \/ result' = "error" /\ at' = "closing" /\ UNCHANGED timer
     \/ result' = "error" /\ at' = "flush" /\ timer' = FlushTimeout

\* What runs beside the main goroutine.
Beside ==
  \/ Signal \/ SendEmail \/ EmailSent \/ EmailLoopEnds \/ Measure \/ Measured
  \/ \E s \in Server : ServerFails(s)
  \/ \E r \in Request, s \in Server : Arrive(r, s)
  \/ \E r \in Request : Handle(r) \/ Acquire(r) \/ GiveBack(r) \/ FailCallback(r) \/ Answer(r)

StartAction ==
  \/ StartTelemetry \/ LoadAPI \/ LoadWorker \/ LoadWorkspace \/ Connect
  \/ CheckSchema \/ BuildHandlers \/ OpenProducer \/ BuildPublisher \/ OpenConsumer
  \/ OpenVerifier \/ BuildTransport

ServeAction == ServeAPI \/ ServeWorker \/ ServeWorkspace

StopAction ==
  \/ StopAPI \/ StopWorker \/ StopWorkspace \/ ShutInternal \/ StopSession \/ StopHealth \/ StopPublic
  \/ Drain \/ Unregister \/ ClosePool \/ ConnectionsBack \/ PoolClosed \/ Exit

LEMMA StepsAre ==
  ASSUME [LifecycleNext]_lifecycleVars
  PROVE  \/ StartAction \/ ServeAction \/ StopAction \/ StartStep \/ EndStep
         \/ TimePasses \/ Beside \/ UNCHANGED lifecycleVars
  BY DEF LifecycleNext, Main, StartAction, ServeAction, StopAction, Beside, Exited

LEMMA BesideKeeps ==
  ASSUME Beside
  PROVE  UNCHANGED <<run, at, timer, result, pool, open, received, shutting, ticker, late, elapsed>>
  BY DEF Beside, Signal, SendEmail, EmailSent, EmailLoopEnds, Measure, Measured, ServerFails, Arrive, Handle, Acquire, GiveBack, FailCallback, Answer,
     history, work

\* Each start step opens one resource, and each error return closes what is open.
LEMMA StartsInOrder ==
  ASSUME LifecycleInv, StartAction
  PROVE  Starts /\ StepsFitKinds' /\ ResourcesMatchProgress'
<1> USE DEF StartSteps
<1>1. /\ ResourcesMatchProgress /\ StepsFitKinds
      /\ kind \in {"identity-api", "identity-worker", "workspace-api"}
      /\ Telemetry = {"spans", "metrics"}
      /\ (kind = "identity-api" => Clients = {}) /\ (kind = "identity-worker" => Clients = {"producer", "consumer"})
      /\ (kind = "workspace-api" => Clients = {"identity"})
  BY KindsStand DEF LifecycleInv, Telemetry
<1>2. ASSUME UNCHANGED run PROVE Clients' = Clients /\ kind' = kind /\ config' = config
  BY <1>2, RunStands
<1>3. CASE StartTelemetry
  <2>1. Starts /\ at = "telemetry" /\ at' = "load" /\ open' = Telemetry /\ pool' = pool /\ UNCHANGED run
    BY <1>3 DEF StartTelemetry, Starts
  <2> QED BY <1>1, <1>2, <2>1 DEF StepsFitKinds, ResourcesMatchProgress, OpenAt
<1>4. CASE LoadAPI \/ LoadWorker \/ LoadWorkspace
  <2>1. /\ Starts /\ at = "load" /\ UNCHANGED <<run, pool, open>>
        /\ at' \in {"connect", "flush", "closing"} /\ (at' = "closing" => pool = "open")
        /\ kind = "identity-api" /\ at' = "connect" => LoadAPIConfig(config)
    <3>1. ASSUME NEW k, NEW ok, NEW to \in {"connect"}, StartStepOf(k, "load", ok, to, {}, {})
          PROVE  /\ Starts /\ at = "load" /\ UNCHANGED <<run, pool, open>> /\ kind = k
                 /\ at' \in {"connect", "flush", "closing"} /\ (at' = "closing" => pool = "open")
                 /\ at' = "connect" => ok
      BY <1>1, <3>1 DEF StartStepOf, GoOn, ErrorReturn, Starts, ResourcesMatchProgress
    <3>2. CASE LoadAPI
      BY <3>1, <3>2 DEF LoadAPI
    <3>3. CASE LoadWorker
      BY <3>1, <3>3 DEF LoadWorker
    <3>4. CASE LoadWorkspace
      BY <3>1, <3>4 DEF LoadWorkspace
    <3> QED BY <1>4, <3>2, <3>3, <3>4
  <2> QED BY <1>1, <1>2, <2>1 DEF StepsFitKinds, ResourcesMatchProgress, OpenAt
<1>5. CASE Connect
  <2>1. CASE GoOn(AfterConnect, {}) /\ pool' = "open"
    <3>1. at' = AfterConnect /\ open' = open /\ at = "connect" /\ UNCHANGED run
      BY <1>5, <2>1 DEF Connect, GoOn
    <3>2. AfterConnect \in {"schema", "producer", "verifier"}
      BY <1>1 DEF AfterConnect
    <3>3. Starts
      BY <1>5, <2>1, <3>1, <3>2 DEF Connect, GoOn, Starts
    <3> QED BY <1>1, <1>2, <2>1, <3>1, <3>3 DEF StepsFitKinds, ResourcesMatchProgress, OpenAt, AfterConnect
  <2>2. CASE ErrorReturn({})
    <3>1. Starts /\ at' = "flush" /\ at = "connect" /\ pool' = pool /\ open' = open /\ UNCHANGED run
      BY <1>1, <1>5, <2>2 DEF Connect, ErrorReturn, Starts, ResourcesMatchProgress
    <3> QED BY <1>1, <1>2, <3>1 DEF StepsFitKinds, ResourcesMatchProgress, OpenAt
  <2>3. CASE result' = "error" /\ at' = "closing" /\ pool' = "closing" /\ UNCHANGED <<open, timer>>
    <3>1. Starts /\ at = "connect" /\ UNCHANGED <<run, open>>
      BY <1>5, <2>3 DEF Connect, Starts
    <3> QED BY <1>1, <1>2, <2>3, <3>1 DEF StepsFitKinds, ResourcesMatchProgress, OpenAt
  <2> QED BY <1>5, <2>1, <2>2, <2>3 DEF Connect
<1>6. CASE CheckSchema \/ BuildHandlers
  <2>1. /\ Starts /\ at \in {"schema", "handlers"} /\ UNCHANGED <<run, open>>
        /\ \/ at' \in {"handlers", "listen"} /\ kind = "identity-api" /\ UNCHANGED pool
           \/ at' = "closing" /\ pool' = "closing" /\ pool = "open"
           \/ at' = "flush" /\ pool # "open"
    BY <1>6 DEF CheckSchema, BuildHandlers, StartStepOf, GoOn, ErrorReturn, Starts
  <2> QED BY <1>1, <1>2, <2>1 DEF StepsFitKinds, ResourcesMatchProgress, OpenAt
<1>7. CASE OpenProducer
  <2>1. /\ Starts /\ at = "producer" /\ UNCHANGED run
        /\ \/ at' = "publisher" /\ kind = "identity-worker" /\ UNCHANGED pool /\ open' = open \cup {"producer"}
           \/ at' = "closing" /\ pool' = "closing" /\ pool = "open" /\ open' = open
           \/ at' = "flush" /\ pool # "open"
    BY <1>7 DEF OpenProducer, StartStepOf, GoOn, ErrorReturn, Starts
  <2> QED BY <1>1, <1>2, <2>1 DEF StepsFitKinds, ResourcesMatchProgress, OpenAt
<1>8. CASE BuildPublisher \/ OpenConsumer
  <2>1. /\ Starts /\ at \in {"publisher", "consumer"} /\ UNCHANGED run
        /\ \/ at = "publisher" /\ at' = "consumer" /\ UNCHANGED <<pool, open>>
           \/ at = "consumer" /\ at' = "listen" /\ UNCHANGED pool /\ open' = open \cup {"consumer"}
           \/ at' = "closing" /\ pool' = "closing" /\ pool = "open" /\ open' = open \ {"producer"}
           \/ at' = "flush" /\ pool # "open"
        /\ kind = "identity-worker"
    BY <1>8 DEF BuildPublisher, OpenConsumer, StartStepOf, GoOn, ErrorReturn, Starts
  <2> QED BY <1>1, <1>2, <2>1 DEF StepsFitKinds, ResourcesMatchProgress, OpenAt
<1>9. CASE OpenVerifier \/ BuildTransport
  <2>1. /\ Starts /\ at \in {"verifier", "transport"} /\ UNCHANGED run
        /\ \/ at = "verifier" /\ at' = "transport" /\ UNCHANGED pool /\ open' = open \cup {"identity"}
           \/ at = "transport" /\ at' = "listen" /\ UNCHANGED <<pool, open>>
           \/ /\ at' = "closing" /\ pool' = "closing" /\ pool = "open"
              /\ open' = open \ (IF at = "verifier" THEN {} ELSE {"identity"})
           \/ at' = "flush" /\ pool # "open"
        /\ kind = "workspace-api"
    BY <1>9 DEF OpenVerifier, BuildTransport, StartStepOf, GoOn, ErrorReturn, Starts
  <2> QED BY <1>1, <1>2, <2>1 DEF StepsFitKinds, ResourcesMatchProgress, OpenAt
<1> QED BY <1>3, <1>4, <1>5, <1>6, <1>7, <1>8, <1>9 DEF StartAction

\* What main, the select and the stop do to the steps and to what is open.
LEMMA ProgressStands ==
  ASSUME LifecycleInv, [LifecycleNext]_lifecycleVars
  PROVE  StepsFitKinds' /\ ResourcesMatchProgress'
<1> USE DEF StartSteps
<1>1. /\ ResourcesMatchProgress /\ StepsFitKinds /\ LifecycleTypeOK
      /\ kind \in {"identity-api", "identity-worker", "workspace-api"}
      /\ Telemetry = {"spans", "metrics"} /\ Clients \cap Telemetry = {}
      /\ (kind = "identity-api" => {"public", "internal"} \subseteq servers)
      /\ (kind = "identity-worker" => servers = {"health"})
      /\ (kind = "workspace-api" => servers = {"public"})
  BY KindsStand DEF LifecycleInv, Telemetry
<1>2. ASSUME UNCHANGED run PROVE Clients' = Clients /\ kind' = kind /\ config' = config /\ servers' = servers
  BY <1>2, RunStands
<1>3. CASE StartAction
  BY <1>3, StartsInOrder
<1>4. CASE ServeAction
  <2>1. at = "listen" /\ at' \in {"run", "close"} /\ UNCHANGED <<run, pool, open>>
    BY <1>4 DEF ServeAction, ServeAPI, ServeWorker, ServeWorkspace, StartServers, StartFails
  <2> QED BY <1>1, <1>2, <2>1 DEF StepsFitKinds, ResourcesMatchProgress, OpenAt
<1>5. CASE StopAPI \/ StopWorker \/ StopWorkspace \/ ShutInternal
  <2>1. /\ at \in {"run", "stop"} /\ UNCHANGED <<run, pool, open>>
        /\ \/ at' = "stop" /\ shutting' \in servers \ {"session"}
           \/ at' = "close"
    BY <1>1, <1>5
    DEF StopAPI, StopWorker, StopWorkspace, ShutInternal, BeginShutdown, ShutdownReturns
  <2> QED BY <1>1, <1>2, <2>1 DEF StepsFitKinds, ResourcesMatchProgress, OpenAt
<1>6. CASE StopSession \/ StopHealth \/ StopPublic \/ Drain
  <2>1. /\ at \in {"stop", "drain"} /\ UNCHANGED <<run, pool, open>>
        /\ at' \in {"drain", "close"} /\ (at' = "drain" => kind # "workspace-api")
    BY <1>1, <1>6 DEF StopSession, StopHealth, StopPublic, Drain, ShutdownReturns, StepsFitKinds
  <2> QED BY <1>1, <1>2, <2>1 DEF StepsFitKinds, ResourcesMatchProgress, OpenAt
<1>7. CASE Unregister \/ ClosePool \/ ConnectionsBack \/ PoolClosed \/ Exit
  <2>1. /\ at \in {"close", "leaving", "closing", "dropping", "flush"} /\ UNCHANGED run
        /\ \/ at = "close" /\ at' = "leaving" /\ kind = "identity-worker" /\ UNCHANGED <<open, pool>>
           \/ at \in {"leaving", "close"} /\ at' = "closing" /\ open' = open \ Clients /\ pool' = "closing"
           \/ at = "closing" /\ at' = "dropping" /\ UNCHANGED <<open, pool>>
           \/ at = "dropping" /\ at' = "flush" /\ UNCHANGED open /\ pool' = "closed"
           \/ at = "flush" /\ at' = "exited" /\ UNCHANGED pool /\ open' = open \ Telemetry
    BY <1>7 DEF Unregister, ClosePool, ConnectionsBack, PoolClosed, Exit
  <2>2. open' = OpenAt'
    BY <1>1, <1>2, <2>1 DEF ResourcesMatchProgress, OpenAt
  <2> QED BY <1>1, <1>2, <2>1, <2>2 DEF StepsFitKinds, ResourcesMatchProgress
<1>8. CASE StartStep \/ EndStep
  <2>1. /\ at \in {"run", "step"} /\ at' \in {"run", "step"} /\ UNCHANGED <<run, pool, open>>
        /\ kind = "identity-worker"
    BY <1>1, <1>8 DEF StartStep, EndStep, StepsFitKinds
  <2> QED BY <1>1, <1>2, <2>1 DEF StepsFitKinds, ResourcesMatchProgress, OpenAt
<1>9. CASE TimePasses \/ Beside \/ UNCHANGED lifecycleVars
  <2>1. UNCHANGED <<run, at, pool, open, shutting>>
    BY <1>9, BesideKeeps DEF TimePasses, lifecycleVars, run
  <2> QED BY <1>1, <1>2, <2>1 DEF StepsFitKinds, ResourcesMatchProgress, OpenAt
<1> QED BY <1>3, <1>4, <1>5, <1>6, <1>7, <1>8, <1>9, StepsAre DEF StopAction

-----------------------------------------------------------------------------
(* Types.                                                                  *)

RequestState ==
  [at : {"none", "reading", "working", "recording", "done"}, server : Server, left : Nat, conn : BOOLEAN]
EmailState == [at : {"off", "polling", "mailing", "ended"}, left : Nat]
MetricsState == [at : {"off", "idle", "measuring"}, left : Nat]
Results == Seq({"failed", "closed", "done"})

LEMMA DownIs == ASSUME NEW n \in Nat PROVE Down(n) \in Nat /\ Down(n) <= n /\ (n > 0 => Down(n) = n - 1)
  BY DEF Down

\* The measurements: none is taken outside the Run of a worker.
LEMMA MeasurementsStand ==
  ASSUME LifecycleInv, [LifecycleNext]_lifecycleVars
  PROVE  metrics' \in MetricsState /\ MeasuresWhileItRuns'
<1> USE DEF StartSteps
<1>1. /\ metrics \in MetricsState /\ metrics.left \in Nat /\ MeasuresWhileItRuns /\ MetricTimeout \in Nat
      /\ at \in StartSteps => metrics.at = "off"
  BY Deadlines DEF LifecycleInv, LifecycleTypeOK, MetricsState, MeasuresWhileItRuns
<1>2. ASSUME UNCHANGED run PROVE kind' = kind
  BY <1>2, RunStands
<1>3. CASE StartAction
  <2>1. at \in StartSteps /\ UNCHANGED <<run, metrics>>
    BY <1>3, StartsInOrder DEF Starts, work
  <2> QED BY <1>1, <2>1 DEF MeasuresWhileItRuns
<1>4. CASE ServeAction
  <2>1. /\ at = "listen" /\ UNCHANGED run
        /\ \/ UNCHANGED metrics
           \/ kind = "identity-worker" /\ at' = "run" /\ metrics' = [metrics EXCEPT !.at = "idle"]
    BY <1>4 DEF ServeAction, ServeAPI, ServeWorker, ServeWorkspace, StartServers, work
  <2>2. CASE UNCHANGED metrics
    BY <1>1, <2>1, <2>2 DEF MeasuresWhileItRuns
  <2>3. CASE kind = "identity-worker" /\ at' = "run" /\ metrics' = [metrics EXCEPT !.at = "idle"]
    BY <1>1, <1>2, <2>1, <2>3 DEF MeasuresWhileItRuns, MetricsState
  <2> QED BY <2>1, <2>2, <2>3
<1>5. CASE StopAPI \/ StopWorker \/ StopWorkspace \/ ShutInternal \/ StopSession \/ StopHealth \/ StopPublic \/ Drain
  <2>1. UNCHANGED <<run, metrics>>
    BY <1>5 DEF StopAPI, StopWorker, StopWorkspace, ShutInternal, StopSession, StopHealth, StopPublic, Drain, work
  <2>2. kind # "identity-worker" \/ at' \in {"stop", "drain", "close"}
    BY <1>5 DEF StopAPI, StopWorker, StopWorkspace, BeginShutdown, ShutInternal, StopSession, StopHealth, StopPublic, Drain
  <2> QED BY <1>1, <1>2, <2>1, <2>2 DEF MeasuresWhileItRuns
<1>6. CASE Unregister
  <2>1. metrics' = [at |-> "off", left |-> 0]
    BY <1>6 DEF Unregister
  <2> QED BY <2>1 DEF MeasuresWhileItRuns, MetricsState
<1>7. CASE ClosePool \/ ConnectionsBack \/ PoolClosed \/ Exit
  <2>1. /\ UNCHANGED metrics
        /\ at \notin {"run", "step", "stop", "drain", "close"} \/ kind # "identity-worker"
    BY <1>7 DEF ClosePool, ConnectionsBack, PoolClosed, Exit, work
  <2> QED BY <1>1, <2>1 DEF MeasuresWhileItRuns
<1>8. CASE StartStep \/ EndStep
  <2>1. at \in {"run", "step"} /\ at' \in {"run", "step"} /\ UNCHANGED <<run, metrics>>
    BY <1>8 DEF StartStep, EndStep, work
  <2> QED BY <1>1, <1>2, <2>1 DEF MeasuresWhileItRuns
<1>9. CASE TimePasses \/ UNCHANGED lifecycleVars
  <2>1. /\ UNCHANGED <<run, at>>
        /\ metrics' = metrics \/ metrics' = [metrics EXCEPT !.left = Down(metrics.left)]
    BY <1>9 DEF TimePasses, lifecycleVars, run
  <2>2. metrics' \in MetricsState /\ metrics'.at = metrics.at
    BY <1>1, <2>1, DownIs DEF MetricsState
  <2> QED BY <1>1, <1>2, <2>1, <2>2 DEF MeasuresWhileItRuns
<1>10. CASE Beside
  <2>1. UNCHANGED <<run, at>>
    BY <1>10, BesideKeeps
  <2>2. CASE Measure \/ Measured
    BY <1>1, <1>2, <2>1, <2>2 DEF Measure, Measured, MeasuresWhileItRuns, MetricsState
  <2>3. CASE ~(Measure \/ Measured)
    <3>1. UNCHANGED metrics
      BY <1>10, <2>3
      DEF Beside, Signal, SendEmail, EmailSent, EmailLoopEnds, ServerFails, Arrive, Handle, Acquire, GiveBack, FailCallback,
          Answer, work
    <3> QED BY <1>1, <1>2, <2>1, <3>1 DEF MeasuresWhileItRuns
  <2> QED BY <2>2, <2>3
<1> QED BY <1>3, <1>4, <1>5, <1>6, <1>7, <1>8, <1>9, <1>10, StepsAre DEF StopAction

\* The requests and the email loop, over any step.
LEMMA RequestsTyped ==
  ASSUME LifecycleTypeOK, [LifecycleNext]_lifecycleVars
  PROVE  req' \in [Request -> RequestState] /\ email' \in EmailState
<1>1. /\ req \in [Request -> RequestState] /\ email \in EmailState
      /\ ReadTimeout \in Nat /\ \A s \in Server : HandlerTimeout(s) \in Nat
      /\ \A r \in Request : req[r] \in RequestState /\ req[r].server \in Server /\ req[r].left \in Nat
      /\ MailTimeout \in Nat /\ email.left \in Nat
  BY Deadlines, TimeoutsAssumption DEF LifecycleTypeOK, RequestState, EmailState
<1>2. CASE UNCHANGED <<req, email>>
  BY <1>1, <1>2
<1>3. CASE StartAction \/ StartStep \/ EndStep \/ UNCHANGED lifecycleVars
  <2>1. UNCHANGED <<req, email>>
    BY <1>3 DEF StartAction, StartTelemetry, LoadAPI, LoadWorker, LoadWorkspace, Connect, CheckSchema,
       BuildHandlers, OpenProducer, BuildPublisher, OpenConsumer, OpenVerifier, BuildTransport, StartStepOf,
       StartStep, EndStep, lifecycleVars, work
  <2> QED BY <1>2, <2>1
<1>4. CASE ServeAction
  <2>1. UNCHANGED req /\ (UNCHANGED email \/ email' = [email EXCEPT !.at = "polling"])
    BY <1>4 DEF ServeAction, ServeAPI, ServeWorker, ServeWorkspace, work
  <2> QED BY <1>1, <2>1 DEF EmailState
<1>5. CASE StopAction
  <2>1. CASE StopSession
    <3>1. \A r \in Request : [req[r] EXCEPT !.left = 0] \in RequestState
      BY <1>1 DEF RequestState
    <3> QED BY <1>1, <2>1, <3>1 DEF StopSession
  <2>2. CASE Exit
    <3>1. \A r \in Request : [req[r] EXCEPT !.at = "done", !.left = 0, !.conn = FALSE] \in RequestState
      BY <1>1 DEF RequestState
    <3> QED BY <1>1, <2>2, <3>1 DEF Exit
  <2>3. CASE \/ StopAPI \/ StopWorker \/ StopWorkspace \/ ShutInternal \/ StopHealth \/ StopPublic
             \/ Drain \/ Unregister \/ ClosePool \/ ConnectionsBack \/ PoolClosed
    <3>1. UNCHANGED <<req, email>>
      BY <2>3
      DEF StopAPI, StopWorker, StopWorkspace, ShutInternal, StopHealth, StopPublic, Drain, Unregister, ClosePool,
          ConnectionsBack, PoolClosed, work
    <3> QED BY <1>2, <3>1
  <2> QED BY <1>5, <2>1, <2>2, <2>3 DEF StopAction
<1>6. CASE TimePasses
  <2>1. \A r \in Request : [req[r] EXCEPT !.left = Down(req[r].left)] \in RequestState
    BY <1>1, DownIs DEF RequestState
  <2>2. [email EXCEPT !.left = Down(email.left)] \in EmailState
    BY <1>1, DownIs DEF EmailState
  <2> QED BY <1>1, <1>6, <2>1, <2>2 DEF TimePasses
<1>7. CASE Beside
  <2>1. CASE Signal \/ \E s \in Server : ServerFails(s)
    BY <1>2, <2>1 DEF Signal, ServerFails, work
  <2>2. CASE SendEmail \/ EmailSent \/ EmailLoopEnds \/ Measure \/ Measured
    BY <1>1, <2>2 DEF SendEmail, EmailSent, EmailLoopEnds, Measure, Measured, EmailState
  <2>3. ASSUME NEW r \in Request, NEW s \in Server, Arrive(r, s)
        PROVE  req' \in [Request -> RequestState] /\ UNCHANGED email
    BY <1>1, <2>3 DEF Arrive, RequestState
  <2>4. ASSUME NEW r \in Request, Handle(r) \/ Acquire(r) \/ GiveBack(r) \/ FailCallback(r) \/ Answer(r)
        PROVE  req' \in [Request -> RequestState] /\ UNCHANGED email
    <3>1. CASE Handle(r)
      <4> DEFINE left == HandlerTimeout(req[r].server)
                 p == [req[r] EXCEPT !.at = "working", !.left = left]
      <4>1. left \in Nat
        BY <1>1
      <4>2. req' = [req EXCEPT ![r] = p]
        BY <1>1, <3>1 DEF Handle
      <4> HIDE DEF left
      <4>3. p \in RequestState
        BY <1>1, <4>1 DEF RequestState
      <4> HIDE DEF p
      <4> QED BY <1>1, <3>1, <4>2, <4>3 DEF Handle
    <3>2. CASE Acquire(r) \/ GiveBack(r) \/ FailCallback(r) \/ Answer(r)
      <4>1. /\ [req[r] EXCEPT !.conn = TRUE] \in RequestState /\ [req[r] EXCEPT !.conn = FALSE] \in RequestState
            /\ [req[r] EXCEPT !.at = "recording"] \in RequestState
            /\ [req[r] EXCEPT !.at = "done", !.left = 0] \in RequestState
            /\ [NoRequest EXCEPT !.at = "done"] \in RequestState
        BY <1>1 DEF RequestState, NoRequest, Server
      <4> QED BY <1>1, <3>2, <4>1 DEF Acquire, GiveBack, FailCallback, Answer
    <3> QED BY <2>4, <3>1, <3>2
  <2> QED BY <1>1, <1>7, <2>1, <2>2, <2>3, <2>4 DEF Beside
<1> QED BY <1>3, <1>4, <1>5, <1>6, <1>7, StepsAre

\* Appending to the channel and taking from it.
LEMMA Channel ==
  ASSUME NEW q \in Results
  PROVE  /\ Len(q) \in Nat /\ (q = <<>> <=> Len(q) = 0)
         /\ \A m \in {"failed", "closed", "done"} :
              /\ Append(q, m) \in Results /\ Len(Append(q, m)) = Len(q) + 1
              /\ \A i \in 1..Len(q) : Append(q, m)[i] = q[i]
              /\ Append(q, m)[Len(q) + 1] = m
         /\ q # <<>> =>
              /\ Tail(q) \in Results /\ Len(Tail(q)) = Len(q) - 1
              /\ \A i \in 1..Len(Tail(q)) : Tail(q)[i] = q[i + 1]
              /\ Head(q) = q[1] /\ Head(q) \in {"failed", "closed", "done"}
  BY DEF Results

\* Closing a server, and beginning to.
LEMMA ClosesOne ==
  ASSUME NEW s \in Server, LifecycleTypeOK, NEW q \in Results,
         server' = [server EXCEPT ![s] = "closed"],
         results' = IF server[s] = "serving" THEN Append(q, "closed") ELSE q
  PROVE  /\ server' \in [Server -> {"off", "serving", "failed", "closed"}] /\ results' \in Results
         /\ server'[s] = "closed" /\ \A u \in Server \ {s} : server'[u] = server[u]
         /\ Len(results') = Len(q) + (IF server[s] = "serving" THEN 1 ELSE 0)
  BY Channel DEF LifecycleTypeOK

LEMMA ServersTyped ==
  ASSUME LifecycleInv, [LifecycleNext]_lifecycleVars
  PROVE  /\ server' \in [Server -> {"off", "serving", "failed", "closed"}]
         /\ results' \in Results /\ received' \in Nat /\ shutting' \in Server /\ result' \in {"ok", "error"}
<1>1. /\ server \in [Server -> {"off", "serving", "failed", "closed"}] /\ LifecycleTypeOK
      /\ results \in Results /\ received \in Nat /\ shutting \in Server /\ result \in {"ok", "error"}
      /\ {"public", "internal", "session", "health"} \subseteq Server
  BY DEF LifecycleInv, LifecycleTypeOK, Results, Server
<1>2. CASE StartAction
  BY <1>1, <1>2, StartsInOrder DEF Starts
<1>3. CASE ServeAction
  BY <1>1, <1>3 DEF ServeAction, ServeAPI, ServeWorker, ServeWorkspace, StartServers, StartFails
<1>4. CASE StopAPI \/ StopWorker \/ StopWorkspace
  <2>1. results # <<>> => Tail(results) \in Results
    BY <1>1, Channel
  <2>2. ASSUME NEW s \in Server, NEW q \in Results, BeginShutdown(s, q)
        PROVE  server' \in [Server -> {"off", "serving", "failed", "closed"}] /\ results' \in Results /\ shutting' = s
    BY <1>1, <2>2, ClosesOne DEF BeginShutdown
  <2> QED BY <1>1, <1>4, <2>1, <2>2 DEF StopAPI, StopWorker, StopWorkspace
<1>5. CASE ShutInternal \/ StopSession
  <2>1. ASSUME NEW s \in Server, Close(s)
        PROVE  server' \in [Server -> {"off", "serving", "failed", "closed"}] /\ results' \in Results
    BY <1>1, <2>1, ClosesOne DEF Close
  <2> QED BY <1>1, <1>5, <2>1 DEF ShutInternal, StopSession
<1>6. CASE StopHealth \/ StopPublic \/ Unregister \/ ClosePool \/ ConnectionsBack \/ PoolClosed \/ Exit
  BY <1>1, <1>6 DEF StopHealth, StopPublic, Unregister, ClosePool, ConnectionsBack, PoolClosed, Exit
<1>7. CASE Drain
  <2>1. results # <<>> => Tail(results) \in Results
    BY <1>1, Channel
  <2>2. UNCHANGED <<server, shutting>>
    BY <1>7 DEF Drain
  <2>3. \/ results # <<>> /\ results' = Tail(results) /\ received' = received + 1 /\ result' \in {result, "error"}
        \/ UNCHANGED <<result, results, received>>
    BY <1>7 DEF Drain
  <2>4. received' \in Nat
    BY <1>1, <2>3
  <2>5. result' \in {"ok", "error"}
    BY <1>1, <2>3
  <2>6. results' \in Results
    BY <1>1, <2>1, <2>3
  <2> QED BY <1>1, <2>2, <2>4, <2>5, <2>6
<1>8. CASE StartStep \/ EndStep \/ TimePasses \/ UNCHANGED lifecycleVars
  BY <1>1, <1>8 DEF StartStep, EndStep, TimePasses, lifecycleVars
<1>9. CASE Beside
  <2>1. UNCHANGED <<received, shutting, result>>
    BY <1>9, BesideKeeps
  <2>2. Append(results, "failed") \in Results /\ Append(results, "done") \in Results
    BY <1>1, Channel
  <2>3. /\ \/ UNCHANGED server
           \/ \E s \in Server : server' = [server EXCEPT ![s] = "failed"]
        /\ results' \in {results, Append(results, "failed"), Append(results, "done")}
    BY <1>9 DEF Beside, Signal, SendEmail, EmailSent, EmailLoopEnds, Measure, Measured, ServerFails, Arrive, Handle, Acquire, GiveBack, FailCallback,
       Answer
  <2> QED BY <1>1, <2>1, <2>2, <2>3
<1> QED BY <1>2, <1>3, <1>4, <1>5, <1>6, <1>7, <1>8, <1>9, StepsAre DEF StopAction

LEMMA TypesStand ==
  ASSUME LifecycleInv, [LifecycleNext]_lifecycleVars
  PROVE  LifecycleTypeOK'
<1>1. /\ LifecycleTypeOK /\ Telemetry \cap {} = {} /\ timer \in Nat /\ elapsed \in Nat /\ signalled \in BOOLEAN
      /\ at \in StartSteps \cup {"run", "step"} \cup StopSteps
      /\ {StopTimeout, StepTimeout, BrokerTimeout, DropTimeout, FlushTimeout} \subseteq Nat /\ ticker \in BOOLEAN /\ failed \subseteq servers
      /\ late \subseteq Request /\ cut \subseteq Request
  BY Deadlines DEF LifecycleInv, LifecycleTypeOK
<1>2. UNCHANGED run
  BY BesideKeeps, StepsAre, StartsInOrder
  DEF Starts, ServeAction, ServeAPI, ServeWorker, ServeWorkspace, StopAction, StopAPI, StopWorker, StopWorkspace,
      ShutInternal, StopSession, StopHealth, StopPublic, Drain, Unregister, ClosePool, ConnectionsBack, PoolClosed, Exit, StartStep, EndStep,
      TimePasses, lifecycleVars, run
<1>3. kind' \in Kinds /\ config' \in Configs[kind]' /\ servers' = servers /\ Clients' = Clients
  BY <1>1, <1>2, RunStands DEF LifecycleTypeOK
<1>4. /\ at' \in StartSteps \cup {"run", "step"} \cup StopSteps /\ timer' \in Nat /\ elapsed' \in Nat
      /\ signalled' \in BOOLEAN /\ ticker' \in BOOLEAN
  <2>1. CASE StartAction
    BY <1>1, <2>1, StartsInOrder DEF Starts, StopSteps, work, history
  <2>2. CASE ServeAction
    BY <1>1, <2>2
    DEF ServeAction, ServeAPI, ServeWorker, ServeWorkspace, StartServers, StartFails, work, history, StopSteps
  <2>6. CASE StartStep
    BY <1>1, <2>6 DEF StartStep, history
  <2>7. CASE EndStep \/ UNCHANGED lifecycleVars
    BY <1>1, <2>7 DEF EndStep, lifecycleVars, work, history
  <2>3. CASE StopAction
    BY <1>1, <2>3
    DEF StopAction, StopAPI, StopWorker, StopWorkspace, BeginShutdown, ShutInternal, StopSession, StopHealth, StopPublic,
        Drain, Unregister, ClosePool, ConnectionsBack, PoolClosed, Exit, work, history, StopSteps
  <2>4. CASE TimePasses
    BY <1>1, <2>4, DownIs DEF TimePasses
  <2>5. CASE Beside
    BY <1>1, <2>5, BesideKeeps
    DEF Beside, Signal, SendEmail, EmailSent, EmailLoopEnds, Measure, Measured, ServerFails, Arrive, Handle, Acquire, GiveBack, FailCallback, Answer, work
  <2> QED BY <2>1, <2>2, <2>3, <2>4, <2>5, <2>6, <2>7, StepsAre
<1>5. open' \subseteq Telemetry \cup Clients' /\ pool' \in {"none", "open", "closing", "closed"}
  <2>1. ResourcesMatchProgress'
    BY ProgressStands
  <2>2. OpenAt' \subseteq Telemetry \cup Clients'
    BY <1>4 DEF OpenAt, StartSteps, StopSteps
  <2> QED BY <2>1, <2>2 DEF ResourcesMatchProgress
<1>6. failed' \subseteq servers /\ late' \subseteq Request /\ cut' \subseteq Request
  <2>1. CASE StartAction \/ StartStep \/ EndStep \/ TimePasses \/ UNCHANGED lifecycleVars
    BY <1>1, <2>1, StartsInOrder DEF Starts, StartStep, EndStep, TimePasses, history, lifecycleVars
  <2>2. CASE ServeAction \/ StopAction
    BY <1>1, <2>2
    DEF ServeAction, ServeAPI, ServeWorker, ServeWorkspace, StopAction, StopAPI, StopWorker, StopWorkspace, BeginShutdown,
        ShutInternal, StopSession, StopHealth, StopPublic, Drain, Unregister, ClosePool, ConnectionsBack, PoolClosed, Exit, history
  <2>3. CASE Beside
    <3>1. \A s \in Server : server[s] = "serving" => s \in servers
      BY DEF LifecycleInv, ServersMatchProgress
    <3> QED BY <1>1, <2>3, <3>1
        DEF Beside, Signal, SendEmail, EmailSent, EmailLoopEnds, Measure, Measured, ServerFails, Arrive, Handle, Acquire, GiveBack, FailCallback, Answer,
            history
  <2> QED BY <2>1, <2>2, <2>3, StepsAre
<1> QED BY <1>3, <1>4, <1>5, <1>6, RequestsTyped, MeasurementsStand, ServersTyped
    DEF LifecycleInv, LifecycleTypeOK, RequestState, EmailState, MetricsState, Results

-----------------------------------------------------------------------------
(* Servers and their reports.                                              *)

\* What a step leaves as it is, wherever the servers, the email loop and the main goroutine are kept.
LEMMA ServersStand ==
  ASSUME LifecycleInv, [LifecycleNext]_lifecycleVars
  PROVE  ServersMatchProgress'
<1> USE DEF StartSteps, StopSteps
<1>1. /\ ServersMatchProgress /\ LifecycleTypeOK /\ StepsFitKinds
      /\ server \in [Server -> {"off", "serving", "failed", "closed"}] /\ email \in EmailState /\ results \in Results
      /\ kind \in {"identity-api", "identity-worker", "workspace-api"}
      /\ servers \subseteq Server /\ (kind = "identity-api" => {"public", "internal"} \subseteq servers /\ "health" \notin servers)
      /\ (kind = "identity-worker" => servers = {"health"}) /\ (kind = "workspace-api" => servers = {"public"})
  BY KindsStand DEF LifecycleInv, LifecycleTypeOK, EmailState, Results
<1>2. ASSUME UNCHANGED run PROVE kind' = kind /\ servers' = servers
  BY <1>2, RunStands
<1>3. Server = {"public", "internal", "session", "health"}
  BY DEF Server
<1>4. CASE StartAction
  <2>1. /\ at \in StartSteps /\ at' \in StartSteps \cup {"closing", "flush"} /\ UNCHANGED <<run, server, email>>
    BY <1>4, StartsInOrder DEF Starts, work
  <2> QED BY <1>1, <1>2, <2>1 DEF ServersMatchProgress
<1>5. CASE ServeAction
  <2>1. /\ at = "listen" /\ UNCHANGED run
        /\ \/ /\ at' = "run" /\ server' = [s \in Server |-> IF s \in servers THEN "serving" ELSE "off"]
              /\ IF kind = "identity-worker" THEN email' = [email EXCEPT !.at = "polling"] ELSE UNCHANGED email
           \/ at' = "close" /\ UNCHANGED <<server, email>>
    BY <1>5 DEF ServeAction, ServeAPI, ServeWorker, ServeWorkspace, StartServers, StartFails, work
  <2>2. CASE at' = "close" /\ UNCHANGED <<server, email>>
    BY <1>1, <1>2, <2>1, <2>2 DEF ServersMatchProgress
  <2>3. CASE at' = "run" /\ server' = [s \in Server |-> IF s \in servers THEN "serving" ELSE "off"]
    <3>1. \A s \in Server : server'[s] = IF s \in servers THEN "serving" ELSE "off"
      BY <2>3
    <3>2. email.at = "off" /\ (kind = "identity-worker" => email'.at = "polling") /\ (kind # "identity-worker" => email' = email)
      BY <1>1, <1>3, <2>1, <2>3 DEF ServersMatchProgress, EmailState
    <3>3. email'.at = "off" <=> server'["health"] = "off"
      BY <1>1, <1>3, <3>1, <3>2
    <3>4. \A s \in Server : server'[s] # "closed" /\ (server'[s] = "off" <=> s \notin servers)
      BY <3>1
    <3> QED BY <1>2, <2>1, <2>3, <3>3, <3>4 DEF ServersMatchProgress
  <2> QED BY <2>1, <2>2, <2>3
<1>6. ASSUME NEW s \in servers, NEW q, BeginShutdown(s, q), at = "run", UNCHANGED <<run, email>>, s # "internal"
      PROVE  ServersMatchProgress'
  <2>1. /\ at' = "stop" /\ shutting' = s /\ server'[s] = "closed" /\ \A u \in Server \ {s} : server'[u] = server[u]
    BY <1>1, <1>6 DEF BeginShutdown
  <2>2. \A u \in Server : server'[u] = "off" <=> server[u] = "off"
    BY <1>1, <1>6, <2>1 DEF ServersMatchProgress
  <2> QED BY <1>1, <1>2, <1>3, <1>6, <2>1, <2>2 DEF ServersMatchProgress
<1>7. CASE StopAPI \/ StopWorker
  BY <1>1, <1>6, <1>7 DEF StopAPI, StopWorker, work
<1>8. CASE StopWorkspace
  <2>1. CASE BeginShutdown("public", results)
    BY <1>1, <1>6, <1>8, <2>1 DEF StopWorkspace, work
  <2>2. CASE at' = "close" /\ results # <<>> /\ UNCHANGED server
    <3>1. server["public"] # "serving"
      <4>1. Len(results) > 0 /\ received = 0
        BY <1>1, <1>8, <2>2, Channel DEF LifecycleInv, ReportsAddUp, StopWorkspace
      <4>2. \A s \in Server \ {"public"} : server[s] = "off"
        BY <1>1, <1>8 DEF StopWorkspace, ServersMatchProgress
      <4>3. email.at = "off"
        BY <1>1, <1>3, <4>2 DEF ServersMatchProgress
      <4> QED BY <1>1, <1>3, <4>1, <4>2, <4>3 DEF LifecycleInv, ReportsAddUp, Ended, Reported
    <3>2. at = "run" /\ kind = "workspace-api" /\ UNCHANGED <<run, email>>
      BY <1>8, <2>2 DEF StopWorkspace, work
    <3> QED BY <1>1, <1>2, <1>3, <2>2, <3>1, <3>2 DEF ServersMatchProgress
  <2> QED BY <1>8, <2>1, <2>2 DEF StopWorkspace
<1>9. CASE ShutInternal
  <2>1. /\ at = "stop" /\ at' = at /\ kind = "identity-api" /\ UNCHANGED <<run, email>> /\ shutting' = "internal"
        /\ shutting = "public" /\ server'["internal"] = "closed"
        /\ \A u \in Server \ {"internal"} : server'[u] = server[u]
    BY <1>1, <1>3, <1>9 DEF ShutInternal, Close, ShutdownReturns, work
  <2>2. \A u \in Server : server'[u] = "off" <=> server[u] = "off"
    BY <1>1, <1>3, <2>1 DEF ServersMatchProgress
  <2> QED BY <1>1, <1>2, <1>3, <2>1, <2>2 DEF ServersMatchProgress
<1>10. CASE StopSession
  <2>1. /\ at = "stop" /\ at' = "drain" /\ kind = "identity-api" /\ UNCHANGED <<run, email>> /\ shutting = "internal"
        /\ \A u \in Server \ {"session"} : server'[u] = server[u]
        /\ IF "session" \in servers THEN server'["session"] = "closed" ELSE server'["session"] = server["session"]
    BY <1>1, <1>3, <1>10 DEF StopSession, Close, ShutdownReturns
  <2>2. \A u \in Server : server'[u] = "off" <=> server[u] = "off"
    BY <1>1, <1>3, <2>1 DEF ServersMatchProgress
  <2>3. \A u \in Server : server'[u] # "serving" /\ server'[u] # "failed"
    BY <1>1, <1>3, <2>1 DEF ServersMatchProgress
  <2> QED BY <1>1, <1>2, <1>3, <2>1, <2>2, <2>3 DEF ServersMatchProgress
<1>11. CASE StopHealth \/ StopPublic
  <2>1. /\ at = "stop" /\ at' \in {"drain", "close"} /\ UNCHANGED <<run, email, server>>
        /\ servers = {shutting} /\ (kind = "workspace-api" => at' = "close")
    BY <1>1, <1>11 DEF StopHealth, StopPublic, ShutdownReturns, work, StepsFitKinds
  <2>2. \A u \in Server : server[u] # "serving" /\ server[u] # "failed"
    BY <1>1, <2>1 DEF ServersMatchProgress
  <2> QED BY <1>1, <1>2, <2>1, <2>2 DEF ServersMatchProgress
<1>12. CASE Drain \/ Unregister \/ ClosePool \/ ConnectionsBack \/ PoolClosed \/ Exit
  <2>1. /\ at \in StopSteps \ {"stop"} /\ at' \in StopSteps \ {"stop"} /\ UNCHANGED <<run, email, server>>
        /\ (at' = "drain" => at = "drain")
    BY <1>12 DEF Drain, Unregister, ClosePool, ConnectionsBack, PoolClosed, Exit, work
  <2> QED BY <1>1, <1>2, <2>1 DEF ServersMatchProgress
<1>13. CASE StartStep \/ EndStep
  <2>1. at \in {"run", "step"} /\ at' \in {"run", "step"} /\ UNCHANGED <<run, email, server>>
    BY <1>13 DEF StartStep, EndStep, work
  <2> QED BY <1>1, <1>2, <2>1 DEF ServersMatchProgress
<1>14. CASE TimePasses \/ UNCHANGED lifecycleVars
  <2>1. UNCHANGED <<run, at, server, shutting>> /\ email'.at = email.at
    BY <1>1, <1>14 DEF TimePasses, lifecycleVars, run, EmailState
  <2> QED BY <1>1, <1>2, <2>1 DEF ServersMatchProgress
<1>15. CASE Beside
  <2>1. UNCHANGED <<run, at, shutting>>
    BY <1>15, BesideKeeps
  <2>2. CASE \E s \in Server : ServerFails(s)
    <3>1. PICK s \in Server : ServerFails(s)
      BY <2>2
    <3>2. /\ server[s] = "serving" /\ server'[s] = "failed" /\ UNCHANGED email
          /\ \A u \in Server \ {s} : server'[u] = server[u]
      BY <1>1, <3>1 DEF ServerFails, work
    <3>3. \A u \in Server : server'[u] = "off" <=> server[u] = "off"
      BY <3>2
    <3>4. at \notin StopSteps \ {"stop"} /\ at \notin StartSteps
      BY <1>1, <3>2 DEF ServersMatchProgress
    <3>5. at = "stop" => server'[shutting] = "closed" /\ (shutting = "internal" => server'["public"] = "closed")
      BY <1>1, <1>3, <3>2 DEF ServersMatchProgress, LifecycleTypeOK
    <3>6. email'.at = "off" <=> server'["health"] = "off"
      BY <1>1, <1>3, <3>2, <3>3 DEF ServersMatchProgress
    <3>7. at \in {"run", "step"} => \A u \in Server : server'[u] # "closed"
      BY <1>1, <3>2 DEF ServersMatchProgress
    <3>8. \/ \A u \in Server : server'[u] = "off"
          \/ \A u \in Server : server'[u] = "off" <=> u \notin servers
      BY <1>1, <3>3 DEF ServersMatchProgress
    <3>9. at \in {"run", "step", "stop", "drain"} => \A u \in Server : server'[u] = "off" <=> u \notin servers
      BY <1>1, <3>3 DEF ServersMatchProgress
    <3> QED BY <1>2, <2>1, <3>4, <3>5, <3>6, <3>7, <3>8, <3>9 DEF ServersMatchProgress
  <2>3. CASE \/ Signal \/ SendEmail \/ EmailSent \/ EmailLoopEnds \/ Measure \/ Measured
             \/ \E r \in Request, s \in Server : Arrive(r, s)
             \/ \E r \in Request : Handle(r) \/ Acquire(r) \/ GiveBack(r) \/ FailCallback(r) \/ Answer(r)
    <3>1. UNCHANGED server /\ (email'.at = "off" <=> email.at = "off")
      <4>1. CASE Signal \/ SendEmail \/ EmailSent \/ EmailLoopEnds \/ Measure \/ Measured
        BY <4>1 DEF Signal, SendEmail, EmailSent, EmailLoopEnds, Measure, Measured, work
      <4>2. CASE \E r \in Request, s \in Server : Arrive(r, s)
        BY <4>2 DEF Arrive
      <4>3. CASE \E r \in Request : Handle(r) \/ Acquire(r) \/ GiveBack(r) \/ FailCallback(r) \/ Answer(r)
        BY <4>3 DEF Handle, Acquire, GiveBack, FailCallback, Answer
      <4> QED BY <2>3, <4>1, <4>2, <4>3
    <3> QED BY <1>1, <1>2, <2>1, <3>1 DEF ServersMatchProgress
  <2> QED BY <1>15, <2>2, <2>3 DEF Beside
<1> QED BY <1>4, <1>5, <1>7, <1>8, <1>9, <1>10, <1>11, <1>12, <1>13, <1>14, <1>15, StepsAre DEF StopAction

\* How many reports the main goroutine awaits.
LEMMA ReportsAre ==
  ASSUME LifecycleTypeOK
  PROVE  /\ kind = "identity-worker" => Reports = 2
         /\ kind = "identity-api" => Reports = (IF "session" \in servers THEN 3 ELSE 2)
<1>1. /\ IsFiniteSet({"public"}) /\ Cardinality({"public"}) = 1
  BY FS_Singleton
<1>2. IsFiniteSet({"public", "internal"}) /\ Cardinality({"public", "internal"}) = 2
  <2>1. {"public", "internal"} = {"public"} \cup {"internal"}
    OBVIOUS
  <2> QED BY <1>1, <2>1, FS_AddElement
<1>3. Cardinality({"public", "internal", "session"}) = 3
  <2>1. {"public", "internal", "session"} = {"public", "internal"} \cup {"session"}
    OBVIOUS
  <2> QED BY <1>2, <2>1, FS_AddElement
<1>4. kind = "identity-api" =>
        /\ "session" \in servers => servers = {"public", "internal", "session"}
        /\ "session" \notin servers => servers = {"public", "internal"}
  BY DEF servers
<1> QED BY <1>2, <1>3, <1>4 DEF Reports

\* What is awaited at the end has been received, and nothing more is to come.
LEMMA DrainedIsAll ==
  ASSUME LifecycleInv, at = "drain", received = Reports
  PROVE  email.at \in {"off", "ended"} /\ results = <<>>
<1>1. /\ LifecycleTypeOK /\ ServersMatchProgress /\ StepsFitKinds /\ email \in EmailState /\ results \in Results
      /\ kind \in {"identity-api", "identity-worker"} /\ received \in Nat /\ received + Len(results) = Ended
      /\ (kind = "identity-api" => {"public", "internal"} \subseteq servers /\ "health" \notin servers)
      /\ (kind = "identity-worker" => servers = {"health"})
      /\ Len(results) \in Nat /\ (results = <<>> <=> Len(results) = 0)
      /\ server \in [Server -> {"off", "serving", "failed", "closed"}]
  BY KindsStand, Channel DEF LifecycleInv, LifecycleTypeOK, EmailState, Results, StepsFitKinds, ReportsAddUp
<1>2. \A s \in Server : server[s] = (IF s \in servers THEN "closed" ELSE "off")
  BY <1>1 DEF ServersMatchProgress, StopSteps
<1>3. \A s \in Server : Reported(s) = (IF s \in servers THEN 1 ELSE 0)
  BY <1>2 DEF Reported
<1>4. email.at = "off" <=> server["health"] = "off"
  BY <1>1 DEF ServersMatchProgress
<1>5. CASE kind = "identity-api"
  <2>1. Ended = Reports + 0 /\ email.at = "off"
    BY <1>1, <1>2, <1>3, <1>4, <1>5, ReportsAre DEF Ended, Server
  <2> QED BY <1>1, <2>1
<1>6. CASE kind = "identity-worker"
  <2>1. Ended = 1 + (IF email.at = "ended" THEN 1 ELSE 0) /\ Reports = 2
    BY <1>1, <1>3, <1>6, ReportsAre DEF Ended, Server
  <2> QED BY <1>1, <2>1
<1> QED BY <1>1, <1>5, <1>6

\* Each end is reported once.
LEMMA ReportsStand ==
  ASSUME LifecycleInv, [LifecycleNext]_lifecycleVars
  PROVE  ReportsAddUp'
<1> USE DEF StartSteps, StopSteps
<1>1. /\ ServersMatchProgress /\ LifecycleTypeOK /\ StepsFitKinds /\ ReportsAddUp
      /\ server \in [Server -> {"off", "serving", "failed", "closed"}] /\ email \in EmailState /\ results \in Results
      /\ kind \in {"identity-api", "identity-worker", "workspace-api"} /\ received \in Nat /\ received + Len(results) = Ended
      /\ Len(results) \in Nat /\ (results = <<>> <=> Len(results) = 0)
      /\ results # <<>> => Tail(results) \in Results /\ Len(Tail(results)) = Len(results) - 1
      /\ \A m \in {"failed", "closed", "done"} : Len(Append(results, m)) = Len(results) + 1
      /\ (kind = "identity-api" => {"public", "internal"} \subseteq servers) /\ servers \subseteq Server
      /\ (kind = "identity-worker" => servers = {"health"}) /\ (kind = "workspace-api" => servers = {"public"})
  BY KindsStand, Channel DEF LifecycleInv, LifecycleTypeOK, EmailState, Results, ReportsAddUp
<1>2. ASSUME UNCHANGED run PROVE kind' = kind /\ servers' = servers
  BY <1>2, RunStands
<1>3. Server = {"public", "internal", "session", "health"} /\ \A s \in Server : Reported(s) \in {0, 1}
  BY DEF Server, Reported
<1>4. CASE StartAction
  <2>1. at \in StartSteps /\ at' \in StartSteps \cup {"closing", "flush"}
        /\ UNCHANGED <<run, server, results, received, email>>
    BY <1>4, StartsInOrder DEF Starts, work
  <2> QED BY <1>1, <1>2, <2>1 DEF ReportsAddUp, Ended, Reported
<1>5. CASE ServeAction
  <2>1. /\ at = "listen" /\ UNCHANGED <<run, results, received>>
        /\ \/ /\ at' = "run" /\ server' = [s \in Server |-> IF s \in servers THEN "serving" ELSE "off"]
              /\ IF kind = "identity-worker" THEN email' = [email EXCEPT !.at = "polling"] ELSE UNCHANGED email
           \/ at' = "close" /\ UNCHANGED <<server, email>>
    BY <1>5 DEF ServeAction, ServeAPI, ServeWorker, ServeWorkspace, StartServers, StartFails, work
  <2>2. Ended = 0 /\ email.at = "off"
    BY <1>1, <1>3, <2>1 DEF ServersMatchProgress, Ended, Reported
  <2>3. received = 0 /\ results = <<>>
    BY <1>1, <2>2
  <2>4. Ended' = 0 /\ email'.at # "ended" /\ (at' = "close" => email'.at = "off")
    BY <1>1, <1>3, <2>1, <2>2 DEF Ended, Reported, EmailState
  <2> QED BY <1>1, <1>2, <2>1, <2>3, <2>4 DEF ReportsAddUp
<1>6. ASSUME NEW s \in servers, BeginShutdown(s, results), received' = received, at = "run", UNCHANGED <<run, email>>
      PROVE  ReportsAddUp'
  <2>1. /\ at' = "stop" /\ server'[s] = "closed" /\ \A u \in Server \ {s} : server'[u] = server[u]
        /\ Len(results') = Len(results) + (IF server[s] = "serving" THEN 1 ELSE 0) /\ s \in Server
    BY <1>1, <1>6, ClosesOne DEF BeginShutdown
  <2>2. server[s] \in {"serving", "failed"}
    BY <1>1, <1>6, <2>1 DEF ServersMatchProgress
  <2>3. Reported(s)' = 1 /\ Reported(s) = (IF server[s] = "serving" THEN 0 ELSE 1)
        /\ \A u \in Server \ {s} : Reported(u)' = Reported(u)
    BY <2>1, <2>2 DEF Reported
  <2>4. Ended' = Ended + (IF server[s] = "serving" THEN 1 ELSE 0)
    BY <1>3, <1>6, <2>1, <2>3 DEF Ended
  <2> QED BY <1>1, <1>2, <1>6, <2>1, <2>4 DEF ReportsAddUp
<1>7. ASSUME NEW s \in servers, BeginShutdown(s, Tail(results)), received' = 1, results # <<>>, at = "run",
             kind # "workspace-api", UNCHANGED <<run, email>>
      PROVE  ReportsAddUp'
  <2>1. /\ at' = "stop" /\ server'[s] = "closed" /\ \A u \in Server \ {s} : server'[u] = server[u]
        /\ Len(results') = Len(results) - 1 + (IF server[s] = "serving" THEN 1 ELSE 0) /\ s \in Server
    BY <1>1, <1>7, ClosesOne DEF BeginShutdown
  <2>2. server[s] \in {"serving", "failed"} /\ received = 0
    BY <1>1, <1>7, <2>1 DEF ServersMatchProgress, ReportsAddUp
  <2>3. Reported(s)' = 1 /\ Reported(s) = (IF server[s] = "serving" THEN 0 ELSE 1)
        /\ \A u \in Server \ {s} : Reported(u)' = Reported(u)
    BY <2>1, <2>2 DEF Reported
  <2>4. Ended' = Ended + (IF server[s] = "serving" THEN 1 ELSE 0)
    BY <1>3, <1>7, <2>1, <2>3 DEF Ended
  <2> QED BY <1>1, <1>2, <1>7, <2>1, <2>2, <2>4 DEF ReportsAddUp
<1>8. CASE StopAPI \/ StopWorker
  BY <1>1, <1>6, <1>7, <1>8 DEF StopAPI, StopWorker, work
<1>9. CASE StopWorkspace
  <2>1. CASE BeginShutdown("public", results)
    BY <1>1, <1>6, <1>9, <2>1 DEF StopWorkspace, work
  <2>2. CASE at' = "close" /\ UNCHANGED <<server, results>>
    <3>1. kind = "workspace-api" /\ at = "run" /\ UNCHANGED <<run, received, email>>
      BY <1>9 DEF StopWorkspace, work
    <3> QED BY <1>1, <1>2, <2>2, <3>1 DEF ReportsAddUp, Ended, Reported
  <2> QED BY <1>9, <2>1, <2>2 DEF StopWorkspace
<1>10. ASSUME NEW s \in servers, Close(s), server[s] # "off", at = "stop", at' \in {"stop", "drain"}, kind = "identity-api",
              UNCHANGED <<run, received, email>>
       PROVE  ReportsAddUp'
  <2>1. /\ server'[s] = "closed" /\ \A u \in Server \ {s} : server'[u] = server[u]
        /\ Len(results') = Len(results) + (IF server[s] = "serving" THEN 1 ELSE 0) /\ s \in Server
    BY <1>1, <1>10, ClosesOne DEF Close
  <2>2. Reported(s)' = 1 /\ Reported(s) = (IF server[s] = "serving" THEN 0 ELSE 1)
        /\ \A u \in Server \ {s} : Reported(u)' = Reported(u)
    BY <1>1, <1>10, <2>1 DEF Reported
  <2>3. Ended' = Ended + (IF server[s] = "serving" THEN 1 ELSE 0)
    BY <1>3, <1>10, <2>1, <2>2 DEF Ended
  <2> QED BY <1>1, <1>2, <1>10, <2>1, <2>3 DEF ReportsAddUp
<1>11. CASE ShutInternal \/ StopSession
  <2>1. /\ at = "stop" /\ at' \in {"stop", "drain"} /\ kind = "identity-api" /\ UNCHANGED <<run, received, email>>
        /\ \/ Close("internal") \/ ("session" \in servers /\ Close("session")) \/ UNCHANGED <<server, results>>
    BY <1>11 DEF ShutInternal, StopSession, ShutdownReturns, work
  <2>2. \A s \in servers : server[s] # "off"
    BY <1>1, <2>1 DEF ServersMatchProgress
  <2>3. CASE UNCHANGED <<server, results>>
    BY <1>1, <1>2, <2>1, <2>3 DEF ReportsAddUp, Ended, Reported
  <2> QED BY <1>1, <1>10, <2>1, <2>2, <2>3
<1>12. CASE StopHealth \/ StopPublic
  <2>1. /\ at = "stop" /\ at' \in {"drain", "close"} /\ UNCHANGED <<run, email, server, results, received>>
        /\ at' = "close" => kind = "workspace-api"
    BY <1>12 DEF StopHealth, StopPublic, ShutdownReturns, work
  <2> QED BY <1>1, <1>2, <2>1 DEF ReportsAddUp, Ended, Reported
<1>13. CASE Drain
  <2>1. /\ at = "drain" /\ kind # "workspace-api" /\ UNCHANGED <<run, email, server>>
        /\ \/ at' = at /\ results # <<>> /\ received' = received + 1 /\ results' = Tail(results)
           \/ received = Reports /\ at' = "close" /\ UNCHANGED <<results, received>>
    <3>1. UNCHANGED <<run, email, server>>
      BY <1>13 DEF Drain, work
    <3>2. at = "drain" /\ kind # "workspace-api"
      BY <1>1, <1>13 DEF Drain, StepsFitKinds
    <3>3. \/ at' = at /\ results # <<>> /\ received' = received + 1 /\ results' = Tail(results)
          \/ received = Reports /\ at' = "close" /\ UNCHANGED <<results, received>>
      BY <1>13 DEF Drain
    <3> QED BY <3>1, <3>2, <3>3
  <2>2. Ended' = Ended
    BY <2>1 DEF Ended, Reported
  <2>3. received' + Len(results') = Ended'
    BY <1>1, <2>1, <2>2
  <2>4. at' = "close" => email'.at \in {"off", "ended"} /\ results' = <<>>
    BY <2>1, DrainedIsAll
  <2> QED BY <1>2, <2>1, <2>3, <2>4 DEF ReportsAddUp
<1>14. CASE Unregister \/ ClosePool \/ ConnectionsBack \/ PoolClosed \/ Exit
  <2>1. /\ at \in StopSteps \ {"stop", "drain"} /\ at' \in StopSteps \ {"stop", "drain", "close"}
        /\ (at' = "leaving" => at = "close")
        /\ UNCHANGED <<run, email, server, results, received>>
    BY <1>14 DEF Unregister, ClosePool, ConnectionsBack, PoolClosed, Exit, work
  <2> QED BY <1>1, <1>2, <2>1 DEF ReportsAddUp, Ended, Reported
<1>15. CASE StartStep \/ EndStep
  <2>1. at \in {"run", "step"} /\ at' \in {"run", "step"} /\ UNCHANGED <<run, email, server, results, received>>
    BY <1>15 DEF StartStep, EndStep, work
  <2> QED BY <1>1, <1>2, <2>1 DEF ReportsAddUp, Ended, Reported
<1>16. CASE TimePasses \/ UNCHANGED lifecycleVars
  <2>1. UNCHANGED <<run, at, server, results, received>> /\ email'.at = email.at
    BY <1>1, <1>16 DEF TimePasses, lifecycleVars, run, EmailState
  <2> QED BY <1>1, <1>2, <2>1 DEF ReportsAddUp, Ended, Reported
<1>17. CASE Beside
  <2>1. UNCHANGED <<run, at, received>>
    BY <1>17, BesideKeeps
  <2>2. CASE \E s \in Server : ServerFails(s)
    <3>1. PICK s \in Server : ServerFails(s)
      BY <2>2
    <3>2. /\ server[s] = "serving" /\ server'[s] = "failed" /\ UNCHANGED email /\ results' = Append(results, "failed")
          /\ \A u \in Server \ {s} : server'[u] = server[u]
      BY <1>1, <3>1 DEF ServerFails, work
    <3>3. Reported(s)' = 1 /\ Reported(s) = 0 /\ \A u \in Server \ {s} : Reported(u)' = Reported(u)
      BY <3>2 DEF Reported
    <3>4. Ended' = Ended + 1
      BY <1>3, <3>2, <3>3 DEF Ended
    <3>5. at \notin {"close", "leaving"}
      BY <1>1, <3>2 DEF ServersMatchProgress
    <3> QED BY <1>1, <1>2, <2>1, <3>2, <3>4, <3>5 DEF ReportsAddUp
  <2>3. CASE EmailLoopEnds
    <3>1. email.at = "polling" /\ email'.at = "ended" /\ results' = Append(results, "done") /\ UNCHANGED server
      BY <2>3 DEF EmailLoopEnds
    <3>2. Ended' = Ended + 1
      BY <1>3, <3>1 DEF Ended, Reported
    <3>3. at \in {"close", "leaving"} => kind = "workspace-api"
      BY <1>1, <3>1 DEF ReportsAddUp
    <3> QED BY <1>1, <1>2, <2>1, <3>1, <3>2, <3>3 DEF ReportsAddUp
  <2>4. CASE SendEmail \/ EmailSent
    <3>1. email.at # "ended" /\ email'.at \in {"polling", "mailing"} /\ UNCHANGED <<server, results>> /\ email.at \in {"polling", "mailing"}
      BY <2>4 DEF SendEmail, EmailSent
    <3> QED BY <1>1, <1>2, <2>1, <3>1 DEF ReportsAddUp, Ended, Reported
  <2>5. CASE \/ Signal \/ Measure \/ Measured
             \/ \E r \in Request, s \in Server : Arrive(r, s)
             \/ \E r \in Request : Handle(r) \/ Acquire(r) \/ GiveBack(r) \/ FailCallback(r) \/ Answer(r)
    <3>1. UNCHANGED <<server, results, email>>
      BY <2>5 DEF Signal, Measure, Measured, Arrive, Handle, Acquire, GiveBack, FailCallback, Answer, work
    <3> QED BY <1>1, <1>2, <2>1, <3>1 DEF ReportsAddUp, Ended, Reported
  <2> QED BY <1>17, <2>2, <2>3, <2>4, <2>5 DEF Beside
<1> QED BY <1>4, <1>5, <1>8, <1>9, <1>11, <1>12, <1>13, <1>14, <1>15, <1>16, <1>17, StepsAre DEF StopAction

\* Before a process serves nothing has been reported.
LEMMA NothingYet ==
  ASSUME LifecycleInv, at \in StartSteps
  PROVE  /\ \A s \in Server : server[s] = "off"
         /\ email.at = "off" /\ results = <<>> /\ received = 0 /\ failed = {} /\ result = "ok" /\ elapsed = 0
         /\ cut = {} /\ late = {} /\ metrics.at = "off" /\ \A r \in Request : ~Active(r)
<1>1. /\ ServersMatchProgress /\ LifecycleTypeOK /\ ReportsAddUp /\ results \in Results /\ received \in Nat
      /\ Len(results) \in Nat /\ (results = <<>> <=> Len(results) = 0)
  BY Channel DEF LifecycleInv, LifecycleTypeOK, Results
<1>2. (\A s \in Server : server[s] = "off") /\ email.at = "off"
  BY <1>1 DEF ServersMatchProgress, Server
<1>3. Ended = 0
  BY <1>2 DEF Ended, Reported, Server
<1>4. results = <<>> /\ received = 0
  BY <1>1, <1>3 DEF ReportsAddUp
<1>5. failed = {} /\ result = "ok" /\ elapsed = 0 /\ cut = {} /\ late = {}
  BY DEF LifecycleInv, FailuresAreKept, TimeIsBounded, MainInTime, RequestsKeepTheirTime
<1>6. \A r \in Request : ~Active(r)
  BY <1>1, <1>2 DEF LifecycleInv, LifecycleTypeOK, RequestsKeepTheirTime
<1>7. metrics.at = "off"
  BY DEF LifecycleInv, MeasuresWhileItRuns, StartSteps
<1> QED BY <1>2, <1>4, <1>5, <1>6, <1>7

\* The pool of the Identity API and of the worker is closed after all that Run started.
LEMMA PoolStands ==
  ASSUME LifecycleInv, [LifecycleNext]_lifecycleVars
  PROVE  NobodyUsesAClosedPool'
<1> USE DEF StartSteps, StopSteps
<1>1. /\ ServersMatchProgress /\ ResourcesMatchProgress /\ ReportsAddUp /\ NobodyUsesAClosedPool
      /\ ServersMatchProgress' /\ ResourcesMatchProgress' /\ LifecycleTypeOK' /\ MeasuresWhileItRuns' /\ email \in EmailState
  BY ServersStand, ProgressStands, TypesStand, MeasurementsStand DEF LifecycleInv, LifecycleTypeOK, EmailState
<1>3. ASSUME pool' \in {"closing", "closed"}, kind' # "workspace-api"
      PROVE  /\ at' \in {"closing", "dropping", "flush", "exited"} /\ metrics'.at = "off"
             /\ \A s \in Server : server'[s] \in {"off", "closed"}
  <2>1. at' \in {"closing", "dropping", "flush", "exited"}
    BY <1>1, <1>3 DEF ResourcesMatchProgress, LifecycleTypeOK
  <2> QED BY <1>1, <1>3, <2>1 DEF ServersMatchProgress, LifecycleTypeOK, MeasuresWhileItRuns
<1>2. SUFFICES ASSUME pool' \in {"closing", "closed"}, kind' # "workspace-api"
               PROVE  email'.at \in {"off", "ended"} /\ results' = <<>>
  BY <1>3 DEF NobodyUsesAClosedPool
<1>4. CASE StartAction
  BY <1>4, StartsInOrder, NothingYet DEF Starts, work
<1>5. CASE ClosePool
  BY <1>1, <1>2, <1>5 DEF ClosePool, ReportsAddUp, work, run
<1>6. ASSUME UNCHANGED <<kind, pool>>
      PROVE  /\ email.at \in {"off", "ended"} /\ results = <<>>
             /\ \A s \in Server : server[s] # "serving"
  BY <1>1, <1>2, <1>6 DEF NobodyUsesAClosedPool
<1>7. CASE ConnectionsBack \/ PoolClosed \/ Exit
  <2>1. /\ at \in {"closing", "dropping", "flush"} /\ UNCHANGED <<kind, email, results>>
        /\ pool \in {"closing", "closed"}
    BY <1>1, <1>2, <1>7 DEF ConnectionsBack, PoolClosed, Exit, ResourcesMatchProgress, work, run
  <2> QED BY <1>1, <1>2, <2>1 DEF NobodyUsesAClosedPool
<1>8. CASE TimePasses \/ UNCHANGED lifecycleVars
  <2>1. UNCHANGED <<kind, pool, results>> /\ email'.at = email.at
    BY <1>1, <1>8 DEF TimePasses, lifecycleVars, run, EmailState
  <2> QED BY <1>6, <2>1
<1>9. CASE Beside
  <2>1. UNCHANGED <<kind, pool>>
    BY <1>9, BesideKeeps DEF run
  <2> QED BY <1>6, <1>9, <2>1
      DEF Beside, Signal, SendEmail, EmailSent, EmailLoopEnds, Measure, Measured, ServerFails, Arrive, Handle, Acquire, GiveBack, FailCallback, Answer, work
<1>10. CASE ServeAction \/ StartStep \/ EndStep
  <2>1. at' \in {"run", "close", "step"}
    BY <1>10 DEF ServeAction, ServeAPI, ServeWorker, ServeWorkspace, StartServers, StartFails, StartStep, EndStep
  <2> QED BY <1>2, <1>3, <2>1
<1>11. CASE \/ StopAPI \/ StopWorker \/ StopWorkspace \/ ShutInternal \/ StopSession \/ StopHealth \/ StopPublic \/ Drain
            \/ Unregister
  <2>1. at' \in {"stop", "drain", "close", "leaving"}
    BY <1>11 DEF StopAPI, StopWorker, StopWorkspace, BeginShutdown, ShutInternal, ShutdownReturns, StopSession, StopHealth,
       StopPublic, Drain, Unregister
  <2> QED BY <1>2, <1>3, <2>1
<1> QED BY <1>4, <1>5, <1>7, <1>8, <1>9, <1>10, <1>11, StepsAre DEF StopAction

LEMMA NoPoolStands ==
  ASSUME LifecycleInv, [LifecycleNext]_lifecycleVars
  PROVE  NoPoolNoServer'
<1> USE DEF StartSteps, StopSteps
<1>1. NoPoolNoServer /\ ResourcesMatchProgress'
  BY ProgressStands DEF LifecycleInv
<1>2. at' \in {"run", "step"} \cup (StopSteps \ {"flush", "exited"}) => pool' # "none"
  BY <1>1 DEF ResourcesMatchProgress
<1>3. CASE StartAction
  BY <1>3, StartsInOrder, NothingYet DEF Starts, NoPoolNoServer
<1>4. CASE ServeAction \/ StartStep \/ EndStep
  <2>1. at' \in {"run", "close", "step"}
    BY <1>4 DEF ServeAction, ServeAPI, ServeWorker, ServeWorkspace, StartServers, StartFails, StartStep, EndStep
  <2> QED BY <1>2, <2>1 DEF NoPoolNoServer
<1>5. CASE \/ StopAPI \/ StopWorker \/ StopWorkspace \/ ShutInternal \/ StopSession \/ StopHealth \/ StopPublic
           \/ Drain \/ Unregister \/ ClosePool \/ ConnectionsBack
  <2>1. at' \in StopSteps \ {"flush", "exited"}
    BY <1>5 DEF StopAPI, StopWorker, StopWorkspace, BeginShutdown, ShutInternal, ShutdownReturns, StopSession, StopHealth,
       StopPublic, Drain, Unregister, ClosePool, ConnectionsBack
  <2> QED BY <1>2, <2>1 DEF NoPoolNoServer
<1>6. CASE PoolClosed \/ Exit \/ TimePasses \/ UNCHANGED lifecycleVars
  BY <1>1, <1>6 DEF PoolClosed, Exit, TimePasses, lifecycleVars, NoPoolNoServer
<1>7. CASE Beside
  BY <1>1, <1>7, BesideKeeps
  DEF Beside, Signal, SendEmail, EmailSent, EmailLoopEnds, Measure, Measured, ServerFails, Arrive, Handle, Acquire, GiveBack, FailCallback, Answer,
      NoPoolNoServer
<1> QED BY <1>3, <1>4, <1>5, <1>6, <1>7, StepsAre DEF StopAction

\* A failure in the channel, before and after a report is appended or taken.
HasFailure(q) == \E i \in 1..Len(q) : q[i] = "failed"

LEMMA FailuresInChannel ==
  ASSUME NEW q \in Results
  PROVE  /\ HasFailure(Append(q, "failed"))
         /\ \A m \in {"closed", "done"} : HasFailure(Append(q, m)) <=> HasFailure(q)
         /\ q # <<>> => (HasFailure(q) <=> Head(q) = "failed" \/ HasFailure(Tail(q)))
         /\ q # <<>> /\ (\A i \in 1..Len(q) : q[i] = "failed") => HasFailure(q)
         /\ (\A i \in 1..Len(q) : q[i] = "failed") =>
              \A i \in 1..Len(Append(q, "failed")) : Append(q, "failed")[i] = "failed"
         /\ q = <<>> => ~HasFailure(q)
<1>1. /\ Len(q) \in Nat /\ (q = <<>> <=> Len(q) = 0)
  BY Channel
<1>2. ASSUME NEW m \in {"failed", "closed", "done"}
      PROVE  /\ Len(Append(q, m)) = Len(q) + 1 /\ Append(q, m)[Len(q) + 1] = m
             /\ \A i \in 1..Len(q) : Append(q, m)[i] = q[i]
             /\ \A i \in 1..Len(Append(q, m)) : i \in 1..Len(q) \/ i = Len(q) + 1
             /\ Len(q) + 1 \in 1..Len(Append(q, m)) /\ \A i \in 1..Len(q) : i \in 1..Len(Append(q, m))
  BY <1>1, Channel
<1>3. HasFailure(Append(q, "failed"))
  BY <1>2 DEF HasFailure
<1>4. \A m \in {"closed", "done"} : HasFailure(Append(q, m)) <=> HasFailure(q)
  BY <1>2 DEF HasFailure
<1>5. ASSUME q # <<>> PROVE HasFailure(q) <=> Head(q) = "failed" \/ HasFailure(Tail(q))
  <2>1. /\ Len(Tail(q)) = Len(q) - 1 /\ Head(q) = q[1] /\ \A i \in 1..Len(Tail(q)) : Tail(q)[i] = q[i + 1]
        /\ Len(q) > 0
    BY <1>1, <1>5, Channel
  <2>2. ASSUME HasFailure(q) PROVE Head(q) = "failed" \/ HasFailure(Tail(q))
    <3>1. PICK i \in 1..Len(q) : q[i] = "failed"
      BY <2>2 DEF HasFailure
    <3>2. CASE i = 1
      BY <2>1, <3>1, <3>2
    <3>3. CASE i # 1
      <4>1. i - 1 \in 1..Len(Tail(q)) /\ Tail(q)[i - 1] = q[i - 1 + 1] /\ i - 1 + 1 = i
        BY <1>1, <2>1, <3>3
      <4> QED BY <3>1, <4>1 DEF HasFailure
    <3> QED BY <3>2, <3>3
  <2>3. ASSUME Head(q) = "failed" PROVE HasFailure(q)
    BY <1>1, <2>1, <2>3 DEF HasFailure
  <2>4. ASSUME HasFailure(Tail(q)) PROVE HasFailure(q)
    <3>1. PICK i \in 1..Len(Tail(q)) : Tail(q)[i] = "failed"
      BY <2>4 DEF HasFailure
    <3>2. i + 1 \in 1..Len(q) /\ q[i + 1] = "failed"
      BY <1>1, <2>1, <3>1
    <3> QED BY <3>2 DEF HasFailure
  <2> QED BY <2>2, <2>3, <2>4
<1>6. q # <<>> /\ (\A i \in 1..Len(q) : q[i] = "failed") => HasFailure(q)
  <2>1. q # <<>> => 1 \in 1..Len(q)
    BY <1>1
  <2> QED BY <2>1 DEF HasFailure
<1>7. ASSUME \A i \in 1..Len(q) : q[i] = "failed"
      PROVE  \A i \in 1..Len(Append(q, "failed")) : Append(q, "failed")[i] = "failed"
  BY <1>2, <1>7
<1>8. q = <<>> => ~HasFailure(q)
  BY <1>1 DEF HasFailure
<1> QED BY <1>3, <1>4, <1>5, <1>6, <1>7, <1>8

\* A failure is kept: it waits in the channel, or the result tells it.
LEMMA FailuresStand ==
  ASSUME LifecycleInv, [LifecycleNext]_lifecycleVars
  PROVE  FailuresAreKept'
<1> USE DEF StartSteps, StopSteps
<1>1. /\ ServersMatchProgress /\ StepsFitKinds /\ FailuresAreKept /\ ReportsAddUp /\ TimeIsBounded
      /\ ServersMatchProgress' /\ LifecycleTypeOK
      /\ server \in [Server -> {"off", "serving", "failed", "closed"}] /\ results \in Results /\ elapsed \in Nat
      /\ results' \in Results /\ result \in {"ok", "error"} /\ failed \subseteq servers /\ timer \in Nat
      /\ received \in Nat /\ received + Len(results) = Ended
      /\ Len(results) \in Nat /\ (results = <<>> <=> Len(results) = 0)
  BY ServersStand, ServersTyped, Channel DEF LifecycleInv, LifecycleTypeOK, Results, ReportsAddUp
<1>2. /\ kind \in {"identity-api", "identity-worker", "workspace-api"} /\ servers \subseteq Server
      /\ (kind = "identity-api" => {"public", "internal"} \subseteq servers /\ "health" \notin servers)
      /\ (kind = "identity-worker" => servers = {"health"}) /\ (kind = "workspace-api" => servers = {"public"})
      /\ Server = {"public", "internal", "session", "health"}
  BY <1>1, KindsStand DEF Server
<1>3. ASSUME UNCHANGED run PROVE kind' = kind /\ servers' = servers
  BY <1>3, RunStands
<1>4. (FailureWaits <=> HasFailure(results)) /\ (FailureWaits' <=> HasFailure(results'))
  BY DEF FailureWaits, HasFailure
\* A step that touches neither the failures nor the result.
<1>5. ASSUME UNCHANGED <<run, result, results, failed>>, server'["public"] = server["public"],
             elapsed' \in Nat, elapsed <= elapsed', signalled => signalled',
             at' \in StartSteps => at \in StartSteps, at' \in {"run", "step"} => at \in {"run", "step"},
             at' = "run" /\ kind = "identity-api" => at = "run",
             at' \in StopSteps => at \in StopSteps, at' = "stop" <=> at = "stop"
      PROVE  FailuresAreKept'
  <2>1. kind' = kind /\ (FailureWaits' <=> FailureWaits) /\ (elapsed >= StopTimeout => elapsed' >= StopTimeout)
    BY <1>1, <1>3, <1>4, <1>5, TimeoutsAssumption
  <2>2. at' \in StopSteps \ {"stop"} => at \in StopSteps \ {"stop"}
    BY <1>5
  <2>3. at' \in StopSteps /\ (result' = "ok" \/ (at' = "stop" /\ kind' = "workspace-api")) => signalled'
    BY <1>1, <1>5, <2>1 DEF FailuresAreKept
  <2> QED BY <1>1, <1>5, <2>1, <2>2, <2>3 DEF FailuresAreKept
<1>6. CASE StartAction
  <2>1. /\ at \in StartSteps /\ UNCHANGED <<run, server, results, failed, elapsed>>
        /\ \/ at' \in StartSteps /\ UNCHANGED result
           \/ at' \in {"closing", "flush"} /\ result' = "error"
    BY <1>6, StartsInOrder DEF Starts, history
  <2>2. failed = {} /\ server["public"] = "off" /\ results = <<>> /\ result = "ok"
    BY <1>2, <2>1, NothingYet
  <2>3. ~HasFailure(results)
    BY <1>1, <2>2, FailuresInChannel
  <2> QED BY <1>3, <1>4, <2>1, <2>2, <2>3 DEF FailuresAreKept
<1>7. CASE ServeAction
  <2>1. /\ at = "listen" /\ UNCHANGED <<run, results, failed>>
        /\ \/ /\ at' = "run" /\ server' = [s \in Server |-> IF s \in servers THEN "serving" ELSE "off"]
              /\ UNCHANGED result
           \/ at' = "close" /\ UNCHANGED server /\ result' = "error"
           \/ at' = "close" /\ UNCHANGED server /\ kind = "workspace-api" /\ signalled /\ signalled' /\ UNCHANGED result
    BY <1>7 DEF ServeAction, ServeAPI, ServeWorker, ServeWorkspace, StartServers, StartFails, history
  <2>2. failed = {} /\ server["public"] = "off" /\ results = <<>> /\ result = "ok"
    BY <1>2, <2>1, NothingYet
  <2>3. ~HasFailure(results) /\ Len(results) = 0
    BY <1>1, <2>2, FailuresInChannel
  <2>4. CASE at' = "run"
    <3>1. server'["public"] \in {"serving", "off"}
      BY <1>2, <2>1, <2>4
    <3> QED BY <1>3, <1>4, <2>1, <2>2, <2>3, <2>4, <3>1 DEF FailuresAreKept
  <2>5. CASE at' = "close"
    BY <1>3, <1>4, <2>1, <2>2, <2>3, <2>5 DEF FailuresAreKept
  <2> QED BY <2>1, <2>4, <2>5
<1>8. CASE StopAPI
  <2>1. /\ kind = "identity-api" /\ at = "run" /\ at' = "stop" /\ UNCHANGED <<run, failed, signalled>>
        /\ server'["public"] = "closed"
    BY <1>1, <1>2, <1>8 DEF StopAPI, BeginShutdown
  <2>2. server["public"] # "off" /\ result = "ok" /\ \A i \in 1..Len(results) : results[i] = "failed"
    BY <1>1, <1>2, <2>1 DEF ServersMatchProgress, FailuresAreKept
  <2>3. CASE signalled /\ BeginShutdown("public", results) /\ UNCHANGED <<result, received>>
    <3>1. HasFailure(results') <=> HasFailure(results)
      BY <1>1, <2>3, FailuresInChannel DEF BeginShutdown
    <3> QED BY <1>1, <1>3, <1>4, <2>1, <2>2, <2>3, <3>1 DEF FailuresAreKept
  <2>4. CASE results # <<>> /\ result' = "error"
    <3>1. failed # {}
      BY <1>1, <1>4, <2>1, <2>2, <2>4, FailuresInChannel DEF FailuresAreKept
    <3> QED BY <1>3, <1>4, <2>1, <2>4, <3>1 DEF FailuresAreKept
  <2> QED BY <1>8, <2>3, <2>4 DEF StopAPI
<1>9. CASE StopWorker
  <2>1. /\ kind = "identity-worker" /\ at' = "stop" /\ UNCHANGED run /\ (result' = "error" \/ signalled')
    BY <1>9 DEF StopWorker, BeginShutdown
  <2> QED BY <1>3, <2>1 DEF FailuresAreKept
<1>10. CASE StopWorkspace
  <2>1. /\ kind = "workspace-api" /\ at = "run" /\ UNCHANGED <<run, failed, signalled>>
        /\ \/ signalled /\ results = <<>> /\ at' = "stop" /\ server'["public"] = "closed" /\ UNCHANGED result
           \/ results # <<>> /\ result' = "error" /\ at' = "close" /\ UNCHANGED server
    BY <1>1, <1>2, <1>10 DEF StopWorkspace, BeginShutdown
  <2>2. /\ received = 0 /\ \A s \in Server \ {"public"} : server[s] = "off"
        /\ server["public"] \in {"serving", "failed"} /\ email.at = "off"
    BY <1>1, <1>2, <2>1 DEF ServersMatchProgress, ReportsAddUp
  <2>3. Ended = (IF server["public"] = "failed" THEN 1 ELSE 0)
    BY <1>2, <2>2 DEF Ended, Reported
  <2>4. (failed # {} <=> server["public"] = "failed") /\ (results = <<>> <=> server["public"] # "failed") /\ result = "ok"
    BY <1>1, <2>1, <2>2, <2>3 DEF FailuresAreKept
  <2> QED BY <1>3, <2>1, <2>4 DEF FailuresAreKept
<1>11. CASE ShutInternal \/ StopSession
  <2>1. /\ kind = "identity-api" /\ at = "stop" /\ at' \in {"stop", "drain"} /\ UNCHANGED <<run, result, failed, signalled>>
        /\ server'["public"] = server["public"] /\ results' \in {results, Append(results, "closed")}
    BY <1>1, <1>2, <1>11 DEF ShutInternal, StopSession, ShutdownReturns, Close, work, history
  <2>2. HasFailure(Append(results, "closed")) <=> HasFailure(results)
    BY <1>1, FailuresInChannel
  <2>3. HasFailure(results') <=> HasFailure(results)
    BY <2>1, <2>2
  <2> QED BY <1>1, <1>3, <1>4, <2>1, <2>3 DEF FailuresAreKept
<1>12. CASE StopHealth
  <2>1. kind = "identity-worker" /\ at = "stop" /\ at' = "drain" /\ UNCHANGED <<run, result, signalled>>
    BY <1>12 DEF StopHealth, ShutdownReturns
  <2> QED BY <1>1, <1>3, <2>1 DEF FailuresAreKept
<1>13. CASE StopPublic
  <2>1. /\ kind = "workspace-api" /\ at = "stop" /\ at' = "close" /\ UNCHANGED <<run, server, failed, signalled, elapsed>>
        /\ (result' = "error" => timer = 0)
    BY <1>13 DEF StopPublic, ShutdownReturns, history
  <2>2. server["public"] = "closed" /\ failed = {} /\ signalled /\ StopTimeout <= elapsed + timer
    BY <1>1, <1>2, <2>1 DEF StepsFitKinds, ServersMatchProgress, FailuresAreKept, TimeIsBounded, MainInTime
  <2>3. result' = "error" => elapsed >= StopTimeout
    BY <1>1, <2>1, <2>2, TimeoutsAssumption
  <2> QED BY <1>3, <2>1, <2>2, <2>3 DEF FailuresAreKept
<1>14. CASE Drain
  <2>1. kind # "workspace-api" /\ at = "drain" /\ at' \in {"drain", "close"} /\ UNCHANGED <<run, server, failed, signalled>>
    BY <1>1, <1>14 DEF Drain, StepsFitKinds, history
  <2>2. \/ /\ results # <<>> /\ results' = Tail(results)
           /\ result' = IF kind = "identity-api" /\ Head(results) = "failed" THEN "error" ELSE result
        \/ UNCHANGED <<result, results>>
    BY <1>14 DEF Drain
  <2>3. kind = "identity-api" => server["public"] # "off"
    BY <1>1, <1>2, <2>1 DEF ServersMatchProgress
  <2>4. CASE UNCHANGED <<result, results>>
    BY <1>1, <1>3, <1>4, <2>1, <2>4 DEF FailuresAreKept
  <2>5. CASE /\ results # <<>> /\ results' = Tail(results)
             /\ result' = IF kind = "identity-api" /\ Head(results) = "failed" THEN "error" ELSE result
    <3>1. HasFailure(results) <=> Head(results) = "failed" \/ HasFailure(results')
      BY <1>1, <2>5, FailuresInChannel
    <3>2. CASE kind = "identity-api" /\ Head(results) = "failed"
      BY <1>1, <1>3, <1>4, <2>1, <2>3, <2>5, <3>1, <3>2 DEF FailuresAreKept
    <3>3. CASE ~(kind = "identity-api" /\ Head(results) = "failed")
      BY <1>1, <1>3, <1>4, <2>1, <2>3, <2>5, <3>1, <3>3 DEF FailuresAreKept
    <3> QED BY <3>2, <3>3
  <2> QED BY <2>2, <2>4, <2>5
<1>15. CASE Unregister \/ ClosePool \/ ConnectionsBack \/ PoolClosed \/ Exit
  <2>1. /\ at \in StopSteps \ {"stop"} /\ at' \in StopSteps \ {"stop"}
        /\ UNCHANGED <<run, result, results, failed, server, elapsed, signalled>>
    BY <1>15 DEF Unregister, ClosePool, ConnectionsBack, PoolClosed, Exit, history
  <2> QED BY <1>1, <1>5, <2>1
<1>16. CASE StartStep \/ EndStep
  <2>1. /\ at \in {"run", "step"} /\ at' \in {"run", "step"} /\ kind = "identity-worker"
        /\ UNCHANGED <<run, result, results, failed, server, elapsed, signalled>>
    BY <1>1, <1>16 DEF StartStep, EndStep, StepsFitKinds, history
  <2> QED BY <1>1, <1>5, <2>1
<1>17. CASE TimePasses \/ UNCHANGED lifecycleVars
  <2>1. UNCHANGED <<run, at, result, results, failed, server, signalled>> /\ elapsed' \in {elapsed, elapsed + 1}
    BY <1>17 DEF TimePasses, lifecycleVars, run
  <2> QED BY <1>1, <1>5, <2>1
<1>18. CASE Beside
  <2>1. UNCHANGED <<run, at, result, elapsed>>
    BY <1>18, BesideKeeps
  <2>2. CASE \E s \in Server : ServerFails(s)
    <3>1. PICK s \in Server : ServerFails(s)
      BY <2>2
    <3>2. /\ server[s] = "serving" /\ server'[s] = "failed" /\ UNCHANGED signalled /\ results' = Append(results, "failed")
          /\ failed' = failed \cup {s} /\ s \in servers
      BY <1>1, <3>1 DEF ServerFails, ServersMatchProgress
    <3>3. at \notin StartSteps /\ at \notin StopSteps \ {"stop"}
      BY <1>1, <3>2 DEF ServersMatchProgress
    <3>4. kind = "workspace-api" => at # "stop" /\ s = "public"
      BY <1>1, <1>2, <3>2 DEF ServersMatchProgress, StepsFitKinds
    <3>5. HasFailure(results')
      BY <1>1, <3>2, FailuresInChannel
    <3>6. at = "run" /\ kind = "identity-api" => \A i \in 1..Len(results') : results'[i] = "failed"
      BY <1>1, <3>2, FailuresInChannel DEF FailuresAreKept
    <3>7. server["public"] # "off" => server'["public"] # "off"
      BY <1>1, <1>2, <3>1 DEF ServerFails
    <3>8. kind = "identity-api" => (at \in StopSteps /\ server'["public"] = "off" => result = "error")
      BY <1>1, <1>2, <3>7 DEF FailuresAreKept
    <3> QED BY <1>1, <1>3, <1>4, <2>1, <3>2, <3>3, <3>4, <3>5, <3>6, <3>8 DEF FailuresAreKept
  <2>3. CASE EmailLoopEnds
    <3>1. email.at = "polling" /\ UNCHANGED <<server, failed, signalled>>
      BY <2>3 DEF EmailLoopEnds, history
    <3>2. kind = "identity-worker"
      BY <1>1, <1>2, <3>1 DEF ServersMatchProgress
    <3> QED BY <1>1, <1>3, <2>1, <3>1, <3>2 DEF FailuresAreKept
  <2>4. CASE Signal
    <3>1. UNCHANGED <<results, failed, server>> /\ signalled'
      BY <2>4 DEF Signal, history
    <3> QED BY <1>1, <1>5, <2>1, <3>1
  <2>5. CASE \/ SendEmail \/ EmailSent \/ Measure \/ Measured
             \/ \E r \in Request, s \in Server : Arrive(r, s)
             \/ \E r \in Request : Handle(r) \/ Acquire(r) \/ GiveBack(r) \/ FailCallback(r) \/ Answer(r)
    <3>1. UNCHANGED <<results, failed, server, signalled>>
      BY <2>5 DEF SendEmail, EmailSent, Measure, Measured, Arrive, Handle, Acquire, GiveBack, FailCallback, Answer, history
    <3> QED BY <1>1, <1>5, <2>1, <3>1
  <2> QED BY <1>18, <2>2, <2>3, <2>4, <2>5 DEF Beside
<1> QED BY <1>6, <1>7, <1>8, <1>9, <1>10, <1>11, <1>12, <1>13, <1>14, <1>15, <1>16, <1>17, <1>18, StepsAre DEF StopAction

-----------------------------------------------------------------------------
(* Time.                                                                   *)

\* What of a request matters to the time: its deadline does not grow while it is read or handled.
TimeKept(r) ==
  req'[r].at \in {"reading", "working"} =>
    req'[r].at = req[r].at /\ (req'[r].conn => req[r].conn) /\ req'[r].left <= req[r].left

\* A server that takes requests has not begun to shut down, or it is that of a Workspace API and has failed.
LEMMA OpenServer ==
  ASSUME LifecycleInv, NEW s \in {"public", "health"}, server[s] \in {"serving", "failed"}, at \in StopSteps
  PROVE  kind = "workspace-api" /\ failed # {}
<1> USE DEF StopSteps
<1>1. /\ ServersMatchProgress /\ StepsFitKinds /\ FailuresAreKept /\ LifecycleTypeOK
      /\ kind \in {"identity-api", "identity-worker", "workspace-api"}
      /\ (kind = "identity-api" => "health" \notin servers) /\ (kind = "identity-worker" => servers = {"health"})
      /\ (kind = "workspace-api" => servers = {"public"}) /\ s \in Server /\ s \in servers
      /\ shutting \in {"public", "internal", "session", "health"}
  BY KindsStand DEF LifecycleInv, Server, ServersMatchProgress, LifecycleTypeOK
<1>2. at # "stop"
  <2>1. SUFFICES ASSUME at = "stop" PROVE FALSE
    OBVIOUS
  <2>2. shutting \in servers \ {"session"} /\ server[shutting] = "closed" /\ (shutting = "internal" => server["public"] = "closed")
    BY <1>1, <2>1 DEF ServersMatchProgress, StepsFitKinds
  <2> QED BY <1>1, <2>2
<1>3. kind = "workspace-api" /\ server[s] = "failed" /\ s = "public"
  BY <1>1, <1>2 DEF ServersMatchProgress
<1> QED BY <1>1, <1>3 DEF FailuresAreKept

\* Until the pool of an API is being closed, the process is within the time of its calls to Shutdown.
LEMMA OpenInTime ==
  ASSUME LifecycleInv, pool = "open", kind # "identity-worker"
  PROVE  elapsed <= StopBy
<1>1. /\ MainInTime /\ elapsed \in Nat /\ timer \in Nat /\ at \in StartSteps \cup {"run", "step"} \cup StopSteps
      /\ at \notin {"leaving", "closing", "dropping", "flush", "exited"}
  BY DEF LifecycleInv, LifecycleTypeOK, TimeIsBounded, ResourcesMatchProgress, StepsFitKinds
<1>2. StopTimeout \in Nat /\ WorkBy \in Nat /\ StopBy = WorkBy + StopTimeout
  BY Deadlines
<1>3. CASE at \in StartSteps
  BY <1>1, <1>2, <1>3 DEF MainInTime
<1>4. CASE at \in {"run", "step", "stop", "drain", "close"}
  BY <1>1, <1>2, <1>4 DEF MainInTime
<1> QED BY <1>1, <1>3, <1>4 DEF StopSteps

\* The server of a worker takes requests until the worker has ended its tick.
LEMMA ProbesInTime ==
  ASSUME LifecycleInv, kind = "identity-worker", NEW s \in Server, server[s] \in {"serving", "failed"}
  PROVE  elapsed <= WorkBy
<1>1. s = "health" /\ MainInTime /\ elapsed \in Nat /\ timer \in Nat
      /\ at \in StartSteps \cup {"run", "step"} \cup StopSteps
  BY KindsStand DEF LifecycleInv, LifecycleTypeOK, TimeIsBounded, ServersMatchProgress
<1>2. at \notin StopSteps /\ WorkBy \in Nat
  BY <1>1, OpenServer, Deadlines
<1> QED BY <1>1, <1>2 DEF MainInTime

\* A worker that waits for its last report waits for a call to the mail server.
LEMMA DrainsTheEmail ==
  ASSUME LifecycleInv, at = "drain", ~Urgent
  PROVE  email.at = "mailing" /\ email.left > 0 /\ elapsed + 1 <= StopBy
<1>1. /\ LifecycleTypeOK /\ ServersMatchProgress /\ StepsFitKinds /\ email \in EmailState /\ results \in Results
      /\ received \in Nat /\ received + Len(results) = Ended /\ elapsed \in Nat
      /\ Len(results) \in Nat /\ (results = <<>> <=> Len(results) = 0)
      /\ kind \in {"identity-api", "identity-worker"}
      /\ (kind = "identity-api" => {"public", "internal"} \subseteq servers /\ "health" \notin servers)
      /\ (kind = "identity-worker" => servers = {"health"})
      /\ server \in [Server -> {"off", "serving", "failed", "closed"}]
  BY KindsStand, Channel DEF LifecycleInv, LifecycleTypeOK, EmailState, Results, StepsFitKinds, ReportsAddUp
<1>2. results = <<>> /\ received # Reports
  BY DEF Urgent
<1>3. \A s \in Server : server[s] = (IF s \in servers THEN "closed" ELSE "off")
  BY <1>1 DEF ServersMatchProgress, StopSteps
<1>4. \A s \in Server : Reported(s) = (IF s \in servers THEN 1 ELSE 0)
  BY <1>3 DEF Reported
<1>5. (email.at = "off" <=> server["health"] = "off") /\ received = Ended
  BY <1>1, <1>2 DEF ServersMatchProgress
<1>6. kind = "identity-worker"
  <2>1. SUFFICES ASSUME kind = "identity-api" PROVE FALSE
    BY <1>1
  <2>2. Ended = Reports + 0
    BY <1>1, <1>3, <1>4, <1>5, <2>1, ReportsAre DEF Ended, Server
  <2>3. Reports \in Nat
    BY <1>1, <2>1, ReportsAre
  <2> QED BY <1>2, <1>5, <2>2, <2>3
<1>7. Ended = 1 + (IF email.at = "ended" THEN 1 ELSE 0) /\ Reports = 2
  BY <1>1, <1>4, <1>6, ReportsAre DEF Ended, Server
<1>8. email.at \in {"polling", "mailing"}
  BY <1>1, <1>2, <1>3, <1>5, <1>6, <1>7 DEF EmailState, Server
<1>9. email.at = "mailing" /\ email.left # 0
  BY <1>8 DEF Urgent, Cancelled
<1>10. email.left \in Nat /\ elapsed + email.left <= WorkBy /\ WorkBy \in Nat /\ StopBy = WorkBy + StopTimeout /\ StopTimeout \in Nat
  BY <1>1, <1>9, Deadlines DEF LifecycleInv, TimeIsBounded, OthersInTime, EmailState
<1> QED BY <1>1, <1>9, <1>10

\* Whoever lets the pool wait, but for a failure record, still has time.
LEMMA HoldersInTime ==
  ASSUME LifecycleInv, at = "closing", ~Urgent, ~Recording
  PROVE  elapsed + 1 <= AnswerBy
<1>1. /\ OthersInTime /\ email.left \in Nat /\ elapsed \in Nat
      /\ \A r \in Request : req[r].left \in Nat /\ (req[r].conn => req[r].at \in {"working", "recording"})
  BY DEF LifecycleInv, LifecycleTypeOK, RequestsKeepTheirTime, TimeIsBounded
<1>2. {WorkBy, MetricBy, AnswerBy, ReadTimeout, ProbeTimeout} \subseteq Nat /\ WorkBy <= AnswerBy
      /\ (kind = "identity-worker" => WorkBy + ReadTimeout + ProbeTimeout <= AnswerBy)
  BY Deadlines
<1>3. ConnectionsHeld
  BY DEF Urgent
<1>4. CASE email.at = "mailing"
  <2>1. email.left > 0 /\ elapsed + email.left <= WorkBy
    BY <1>1, <1>4 DEF Urgent, OthersInTime
  <2> QED BY <1>1, <1>2, <2>1
<1>5. CASE \E r \in Request : req[r].conn
  <2>1. PICK r \in Request : req[r].conn
    BY <1>5
  <2>2. req[r].at = "working" /\ req[r].left # 0
    BY <1>1, <2>1 DEF Recording, Urgent
  <2>3. elapsed + req[r].left <= AnswerBy
    BY <1>1, <1>2, <2>1, <2>2 DEF OthersInTime, InTime
  <2> QED BY <1>1, <1>2, <2>2, <2>3
<1> QED BY <1>3, <1>4, <1>5 DEF ConnectionsHeld

\* A tick is in time: whoever lets it pass still has some.
LEMMA TickInTime ==
  ASSUME LifecycleInv, TimePasses
  PROVE  TimeIsBounded'
<1> USE DEF StartSteps, StopSteps
<1>1. /\ MainInTime /\ OthersInTime /\ email \in EmailState /\ email.left \in Nat /\ timer \in Nat /\ elapsed \in Nat
      /\ metrics \in MetricsState /\ metrics.left \in Nat /\ MeasuresWhileItRuns
      /\ req \in [Request -> RequestState] /\ \A r \in Request : req[r].left \in Nat
      /\ at \in StartSteps \cup {"run", "step"} \cup StopSteps /\ ~Urgent
  BY DEF LifecycleInv, LifecycleTypeOK, EmailState, MetricsState, RequestState, TimePasses, TimeIsBounded
<1>2. /\ {StopTimeout, FlushTimeout, DropTimeout, ReadTimeout, ProbeTimeout, WorkBy, StopBy, MetricBy, AnswerBy} \subseteq Nat
      /\ StopBy = WorkBy + StopTimeout /\ WorkBy <= AnswerBy /\ StopBy <= AnswerBy
      /\ WorkBy' = WorkBy /\ StopBy' = StopBy /\ MetricBy' = MetricBy /\ AnswerBy' = AnswerBy /\ kind' = kind
  BY Deadlines, RunStands DEF TimePasses
<1>3. /\ at' = at /\ signalled' = signalled /\ timer' = Down(timer)
      /\ elapsed' = IF Stopping /\ ~(at = "closing" /\ Recording) THEN elapsed + 1 ELSE elapsed
      /\ email' = [email EXCEPT !.left = Down(email.left)]
      /\ metrics' = [metrics EXCEPT !.left = Down(metrics.left)]
      /\ req' = [r \in Request |-> IF Active(r) THEN [req[r] EXCEPT !.left = Down(req[r].left)] ELSE req[r]]
  BY DEF TimePasses
<1>4. at \notin StartSteps \cup {"exited"} /\ (at = "run" => ~signalled) /\ (at = "close" => metrics.at = "measuring")
  BY <1>1 DEF Urgent
<1>5. elapsed' \in Nat /\ elapsed' <= elapsed + 1 /\ (at \in {"run", "step"} /\ ~signalled => elapsed' = elapsed)
  BY <1>1, <1>3 DEF Stopping
<1>6. (timer > 0 => timer' = timer - 1) /\ timer' \in Nat
  BY <1>1, <1>3, DownIs
<1>7. at \in {"step", "leaving", "dropping", "flush", "stop"} => timer > 0
  BY <1>1 DEF Urgent, ShutdownReturns
<1>8. email'.at = email.at /\ email'.left \in Nat /\ (email.at = "mailing" => email'.left + 1 = email.left)
  <2>1. email.at = "mailing" => email.left > 0
    BY <1>1 DEF Urgent
  <2> QED BY <1>1, <1>3, <2>1, DownIs DEF EmailState
<1>9. /\ metrics'.at = metrics.at /\ metrics'.left \in Nat
      /\ metrics.at = "measuring" => metrics.left > 0 /\ metrics'.left + 1 = metrics.left
  <2>1. metrics.at = "measuring" => metrics.left > 0
    BY <1>1 DEF Urgent
  <2> QED BY <1>1, <1>3, <2>1, DownIs DEF MetricsState
<1>10. MainInTime'
  <2>1. CASE at \in {"run", "step"}
    <3>1. at = "run" => elapsed' = elapsed /\ elapsed = 0
      BY <1>1, <1>4, <1>5 DEF MainInTime
    <3>2. at = "step" => elapsed' + timer' <= WorkBy /\ (~signalled => elapsed' = 0)
      BY <1>1, <1>2, <1>5, <1>6, <1>7 DEF MainInTime
    <3> QED BY <1>2, <1>3, <2>1, <3>1, <3>2 DEF MainInTime
  <2>2. CASE at = "stop"
    <3>1. elapsed' = elapsed + 1 /\ timer' = timer - 1
      BY <1>3, <1>6, <1>7, <2>2 DEF Stopping
    <3> QED BY <1>1, <1>2, <1>3, <2>2, <3>1 DEF MainInTime
  <2>3. CASE at = "drain"
    <3>1. elapsed' <= StopBy
      BY <1>1, <1>2, <1>5, <2>3, DrainsTheEmail
    <3> QED BY <1>2, <1>3, <2>3, <3>1 DEF MainInTime
  <2>4. CASE at = "close"
    <3>1. kind = "identity-worker" /\ elapsed + metrics.left <= MetricBy /\ metrics.left > 0
      BY <1>1, <1>4, <1>9, <2>4 DEF MeasuresWhileItRuns, OthersInTime
    <3>2. elapsed' <= MetricBy
      BY <1>1, <1>2, <1>5, <3>1
    <3> QED BY <1>2, <1>3, <2>4, <3>1, <3>2 DEF MainInTime
  <2>5. CASE at \in {"leaving", "dropping", "flush"}
    <3>0. timer' = timer - 1
      BY <1>6, <1>7, <2>5
    <3>1. elapsed' + timer' <= elapsed + timer
      <4>1. {elapsed, elapsed', timer, timer'} \subseteq Nat
        BY <1>1, <1>5, <1>6
      <4>2. elapsed' <= elapsed + 1
        BY <1>5
      <4> QED BY <3>0, <4>1, <4>2
    <3>2. /\ at = "leaving" => elapsed + timer <= AnswerBy
          /\ at = "dropping" => elapsed + timer <= AnswerBy + DropTimeout
          /\ at = "flush" => elapsed + timer <= AnswerBy + DropTimeout + FlushTimeout
      BY <1>1 DEF MainInTime
    <3>3. /\ at = "leaving" => elapsed' + timer' <= AnswerBy
          /\ at = "dropping" => elapsed' + timer' <= AnswerBy + DropTimeout
          /\ at = "flush" => elapsed' + timer' <= AnswerBy + DropTimeout + FlushTimeout
      <4>1. {elapsed', timer', elapsed, timer, AnswerBy, DropTimeout, FlushTimeout} \subseteq Nat
        BY <1>1, <1>2, <1>5, <1>6
      <4>2. /\ elapsed + timer <= AnswerBy => elapsed' + timer' <= AnswerBy
            /\ elapsed + timer <= AnswerBy + DropTimeout => elapsed' + timer' <= AnswerBy + DropTimeout
            /\ elapsed + timer <= AnswerBy + DropTimeout + FlushTimeout =>
                 elapsed' + timer' <= AnswerBy + DropTimeout + FlushTimeout
        BY <3>1, <4>1
      <4> QED BY <3>2, <4>2
    <3> QED BY <1>2, <1>3, <2>5, <3>3 DEF MainInTime
  <2>6. CASE at = "closing"
    <3>1. elapsed' <= AnswerBy
      <4>1. CASE Recording
        BY <1>1, <1>3, <2>6, <4>1 DEF MainInTime
      <4>2. CASE ~Recording
        BY <1>1, <1>2, <1>5, <2>6, <4>2, HoldersInTime
      <4> QED BY <4>1, <4>2
    <3> QED BY <1>2, <1>3, <2>6, <3>1 DEF MainInTime
  <2> QED BY <1>1, <1>4, <2>1, <2>2, <2>3, <2>4, <2>5, <2>6
<1>11. email'.at = "mailing" => elapsed' + email'.left <= WorkBy'
  <2>1. email'.at = "mailing" => elapsed + email.left <= WorkBy /\ email'.left + 1 = email.left
    BY <1>1, <1>8 DEF OthersInTime
  <2> QED BY <1>1, <1>2, <1>5, <1>8, <2>1
<1>12. metrics'.at = "measuring" => elapsed' + metrics'.left <= MetricBy'
  <2>1. metrics'.at = "measuring" => elapsed + metrics.left <= MetricBy /\ metrics'.left + 1 = metrics.left
    BY <1>1, <1>9 DEF OthersInTime
  <2> QED BY <1>1, <1>2, <1>5, <1>9, <2>1
<1>13. ASSUME NEW r \in Request PROVE InTime(r)'
  <2>1. CASE req[r].at \in {"reading", "working"}
    <3>1. req'[r] = [req[r] EXCEPT !.left = Down(req[r].left)] /\ req[r].left > 0 /\ req[r] \in RequestState
      BY <1>1, <1>3, <2>1 DEF Urgent, Active
    <3>2. req'[r].at = req[r].at /\ req'[r].conn = req[r].conn /\ req'[r].left = req[r].left - 1 /\ req[r].left \in Nat
      BY <3>1, DownIs DEF RequestState
    <3>3. elapsed' + req'[r].left <= elapsed + req[r].left
      BY <1>1, <1>5, <3>2
    <3>4. InTime(r)
      BY <1>1 DEF OthersInTime
    <3>5. elapsed' + req'[r].left \in Nat /\ elapsed + req[r].left \in Nat
      BY <1>1, <1>5, <3>1, <3>2
    <3> QED BY <1>2, <3>2, <3>3, <3>4, <3>5 DEF InTime
  <2>2. CASE req[r].at \notin {"reading", "working"}
    <3>1. req'[r].at = req[r].at
      BY <1>1, <1>3 DEF RequestState
    <3> QED BY <2>2, <3>1 DEF InTime
  <2> QED BY <2>1, <2>2
<1> QED BY <1>10, <1>11, <1>12, <1>13 DEF TimeIsBounded, OthersInTime

\* A step that starts nothing leaves what is under way in time.
LEMMA OthersStay ==
  ASSUME LifecycleInv, [LifecycleNext]_lifecycleVars, UNCHANGED <<run, elapsed>>,
         email' = email \/ email'.at # "mailing", metrics' = metrics \/ metrics'.at # "measuring",
         \A r \in Request : TimeKept(r)
  PROVE  OthersInTime'
<1>1. /\ OthersInTime /\ elapsed \in Nat /\ \A r \in Request : req[r].left \in Nat /\ req'[r].left \in Nat
  BY RequestsTyped DEF LifecycleInv, LifecycleTypeOK, RequestState, TimeIsBounded
<1>2. /\ WorkBy' = WorkBy /\ MetricBy' = MetricBy /\ AnswerBy' = AnswerBy /\ kind' = kind
      /\ {WorkBy, AnswerBy, ReadTimeout, ProbeTimeout} \subseteq Nat
  BY RunStands, Deadlines
<1>3. ASSUME NEW r \in Request PROVE InTime(r)'
  <2>1. InTime(r) /\ TimeKept(r)
    BY <1>1 DEF OthersInTime
  <2>2. req'[r].left <= req[r].left => elapsed' + req'[r].left <= elapsed + req[r].left
    BY <1>1
  <2>3. elapsed' + req'[r].left \in Nat /\ elapsed + req[r].left \in Nat
    BY <1>1
  <2> QED BY <1>2, <2>1, <2>2, <2>3 DEF InTime, TimeKept
<1> QED BY <1>1, <1>2, <1>3 DEF OthersInTime

\* Every other step of the main goroutine keeps the clock, and gives it no more time than is left.
LEMMA MainStaysInTime ==
  ASSUME LifecycleInv, StartAction \/ ServeAction \/ StopAction \/ StartStep \/ EndStep
  PROVE  MainInTime' /\ UNCHANGED <<run, elapsed>>
<1> USE DEF StartSteps, StopSteps
<1>1. /\ MainInTime /\ timer \in Nat /\ elapsed \in Nat /\ at \in StartSteps \cup {"run", "step"} \cup StopSteps
  BY DEF LifecycleInv, LifecycleTypeOK, TimeIsBounded
<1>2. /\ {StopTimeout, FlushTimeout, BrokerTimeout, DropTimeout, WorkBy, StopBy, MetricBy, AnswerBy} \subseteq Nat
      /\ StopBy = WorkBy + StopTimeout /\ WorkBy <= StopBy /\ StopBy <= AnswerBy
      /\ MetricBy = StopBy + MetricTimeout /\ MetricTimeout \in Nat
      /\ kind = "identity-worker" => AnswerBy = MetricBy + BrokerTimeout
      /\ WorkBy = (IF kind = "identity-worker" THEN StepTimeout ELSE 0)
  BY Deadlines
<1>3. ASSUME UNCHANGED run
      PROVE  WorkBy' = WorkBy /\ StopBy' = StopBy /\ MetricBy' = MetricBy /\ AnswerBy' = AnswerBy /\ kind' = kind
  BY <1>3, RunStands
<1>4. CASE StartAction
  <2>1. /\ UNCHANGED <<run, elapsed>> /\ elapsed = 0
        /\ \/ at' \in StartSteps \cup {"closing"} /\ UNCHANGED timer
           \/ at' = "flush" /\ timer' = FlushTimeout
    BY <1>4, StartsInOrder, NothingYet DEF Starts, history
  <2> QED BY <1>1, <1>2, <1>3, <2>1 DEF MainInTime
<1>5. CASE ServeAction
  <2>1. at = "listen" /\ at' \in {"run", "close"} /\ UNCHANGED <<run, elapsed>>
    BY <1>5 DEF ServeAction, ServeAPI, ServeWorker, ServeWorkspace, StartServers, StartFails, history
  <2>2. elapsed = 0
    BY <2>1, NothingYet
  <2> QED BY <1>2, <1>3, <2>1, <2>2 DEF MainInTime
<1>6. CASE StopAPI \/ StopWorker \/ StopWorkspace
  <2>1. /\ at = "run" /\ UNCHANGED <<run, elapsed>>
        /\ at' = "close" \/ (at' = "stop" /\ timer' = StopTimeout)
    BY <1>6 DEF StopAPI, StopWorker, StopWorkspace, BeginShutdown
  <2>2. elapsed <= WorkBy
    BY <1>1, <2>1 DEF MainInTime
  <2> QED BY <1>1, <1>2, <1>3, <2>1, <2>2 DEF MainInTime
<1>7. CASE ShutInternal
  <2>1. at = "stop" /\ UNCHANGED <<run, at, timer, elapsed>>
    BY <1>7 DEF ShutInternal, ShutdownReturns, history
  <2> QED BY <1>1, <1>3, <2>1 DEF MainInTime
<1>8. CASE StopSession \/ StopHealth \/ StopPublic \/ Drain
  <2>1. at \in {"stop", "drain"} /\ at' \in {"drain", "close"} /\ UNCHANGED <<run, elapsed>>
    BY <1>8 DEF StopSession, StopHealth, StopPublic, Drain, ShutdownReturns, history
  <2>2. elapsed <= StopBy
    BY <1>1, <1>2, <2>1 DEF MainInTime
  <2> QED BY <1>1, <1>2, <1>3, <2>1, <2>2 DEF MainInTime
<1>9. CASE Unregister \/ ClosePool
  <2>1. /\ UNCHANGED <<run, elapsed>>
        /\ \/ at = "close" /\ kind = "identity-worker" /\ at' = "leaving" /\ timer' = BrokerTimeout
           \/ at = "close" /\ kind # "identity-worker" /\ at' = "closing"
           \/ at = "leaving" /\ at' = "closing"
    BY <1>9 DEF Unregister, ClosePool, history
  <2> QED BY <1>1, <1>2, <1>3, <2>1 DEF MainInTime
<1>10. CASE ConnectionsBack \/ PoolClosed \/ Exit
  <2>1. /\ UNCHANGED <<run, elapsed>>
        /\ \/ at = "closing" /\ at' = "dropping" /\ timer' = DropTimeout
           \/ at = "dropping" /\ at' = "flush" /\ timer' = FlushTimeout
           \/ at = "flush" /\ at' = "exited" /\ UNCHANGED timer
    BY <1>10 DEF ConnectionsBack, PoolClosed, Exit, history
  <2> QED BY <1>1, <1>2, <1>3, <2>1 DEF MainInTime
<1>11. CASE StartStep
  <2>1. /\ kind = "identity-worker" /\ at = "run" /\ at' = "step" /\ UNCHANGED <<run, elapsed, signalled>>
        /\ timer' = IF signalled THEN 0 ELSE StepTimeout
    BY <1>11 DEF StartStep, Cancelled, history
  <2>2. WorkBy = StepTimeout /\ elapsed <= WorkBy /\ (~signalled => elapsed = 0)
    BY <1>1, <1>2, <2>1 DEF MainInTime
  <2>3. elapsed' + timer' <= WorkBy
    BY <1>1, <1>2, <2>1, <2>2
  <2> QED BY <1>1, <1>2, <1>3, <2>1, <2>2, <2>3 DEF MainInTime
<1>12. CASE EndStep
  <2>1. at = "step" /\ at' = "run" /\ UNCHANGED <<run, elapsed, signalled>>
    BY <1>12 DEF EndStep, history
  <2> QED BY <1>1, <1>2, <1>3, <2>1 DEF MainInTime
<1> QED BY <1>4, <1>5, <1>6, <1>7, <1>8, <1>9, <1>10, <1>11, <1>12 DEF StopAction

\* It starts nothing either.
LEMMA MainStartsNothing ==
  ASSUME LifecycleInv, StartAction \/ ServeAction \/ StopAction \/ StartStep \/ EndStep
  PROVE  /\ email' = email \/ email'.at # "mailing"
         /\ metrics' = metrics \/ metrics'.at # "measuring"
         /\ \A r \in Request : TimeKept(r)
<1>1. /\ email \in EmailState /\ metrics \in MetricsState /\ req \in [Request -> RequestState]
      /\ \A r \in Request : req[r] \in RequestState /\ req[r].left \in Nat
  BY DEF LifecycleInv, LifecycleTypeOK, EmailState, MetricsState, RequestState
<1>2. ASSUME UNCHANGED req PROVE \A r \in Request : TimeKept(r)
  BY <1>1, <1>2 DEF TimeKept
<1>3. CASE StartAction \/ StartStep \/ EndStep
  <2>1. UNCHANGED <<email, metrics, req>>
    BY <1>3, StartsInOrder DEF Starts, StartStep, EndStep, work
  <2> QED BY <1>2, <2>1
<1>4. CASE ServeAction
  <2>1. /\ UNCHANGED req
        /\ email' = email \/ email' = [email EXCEPT !.at = "polling"]
        /\ metrics' = metrics \/ metrics' = [metrics EXCEPT !.at = "idle"]
    BY <1>4 DEF ServeAction, ServeAPI, ServeWorker, ServeWorkspace, work
  <2> QED BY <1>1, <1>2, <2>1 DEF EmailState, MetricsState
<1>5. CASE StopSession \/ Exit
  <2>1. UNCHANGED <<email, metrics>>
    BY <1>5 DEF StopSession, Exit
  <2>2. ASSUME NEW r \in Request PROVE TimeKept(r)
    <3>1. \/ req'[r] = req[r] \/ req'[r] = [req[r] EXCEPT !.left = 0]
          \/ req'[r] = [req[r] EXCEPT !.at = "done", !.left = 0, !.conn = FALSE]
      BY <1>5 DEF StopSession, Exit
    <3>2. CASE req'[r] = req[r]
      BY <1>1, <3>2 DEF TimeKept
    <3>3. CASE req'[r] = [req[r] EXCEPT !.left = 0]
      BY <1>1, <3>3 DEF TimeKept, RequestState
    <3>4. CASE req'[r] = [req[r] EXCEPT !.at = "done", !.left = 0, !.conn = FALSE]
      BY <1>1, <3>4 DEF TimeKept, RequestState
    <3> QED BY <3>1, <3>2, <3>3, <3>4
  <2> QED BY <2>1, <2>2
<1>6. CASE \/ StopAPI \/ StopWorker \/ StopWorkspace \/ ShutInternal \/ StopHealth \/ StopPublic
           \/ Drain \/ Unregister \/ ClosePool \/ ConnectionsBack \/ PoolClosed
  <2>1. UNCHANGED <<email, req>> /\ (metrics' = metrics \/ metrics' = [at |-> "off", left |-> 0])
    BY <1>6
    DEF StopAPI, StopWorker, StopWorkspace, ShutInternal, StopHealth, StopPublic, Drain, Unregister, ClosePool,
        ConnectionsBack, PoolClosed, work
  <2> QED BY <1>2, <2>1
<1> QED BY <1>3, <1>4, <1>5, <1>6 DEF StopAction

\* A step of one request keeps its deadline, or gives it one in time.
LEMMA RequestsStayInTime ==
  ASSUME LifecycleInv, NEW r \in Request,
         (\E s \in Server : Arrive(r, s)) \/ Handle(r) \/ Acquire(r) \/ GiveBack(r) \/ FailCallback(r) \/ Answer(r)
  PROVE  \A q \in Request : InTime(q)'
<1>1. /\ \A q \in Request : InTime(q) /\ req[q] \in RequestState /\ req[q].left \in Nat /\ req[q].server \in Server
      /\ req \in [Request -> RequestState] /\ elapsed \in Nat
  BY DEF LifecycleInv, LifecycleTypeOK, RequestState, TimeIsBounded, OthersInTime
<1>2. UNCHANGED <<run, elapsed>>
  BY DEF Arrive, Handle, Acquire, GiveBack, FailCallback, Answer, history
<1>3. WorkBy' = WorkBy /\ AnswerBy' = AnswerBy /\ kind' = kind
  BY <1>2, RunStands
<1>4. /\ {WorkBy, StopBy, AnswerBy, ReadTimeout, ProbeTimeout, RequestTimeout} \subseteq Nat
      /\ HandlerTimeout("health") = ProbeTimeout
      /\ \A s \in Server : HandlerTimeout(s) \in Nat /\ HandlerTimeout(s) <= RequestTimeout
      /\ kind # "identity-worker" => AnswerBy = StopBy + RequestTimeout
  BY Deadlines
<1>5. ASSUME NEW p, req' = [req EXCEPT ![r] = p],
             kind = "identity-worker" =>
               /\ p.at = "reading" => elapsed + p.left <= WorkBy + ReadTimeout
               /\ p.at = "working" => elapsed + p.left <= WorkBy + ReadTimeout + ProbeTimeout,
             kind # "identity-worker" /\ p.at = "working" /\ p.conn => elapsed + p.left <= AnswerBy
      PROVE  \A q \in Request : InTime(q)'
  <2>1. req'[r] = p /\ \A q \in Request \ {r} : req'[q] = req[q]
    BY <1>1, <1>5
  <2>2. InTime(r)'
    BY <1>2, <1>3, <1>5, <2>1 DEF InTime
  <2>3. \A q \in Request \ {r} : InTime(q)'
    BY <1>1, <1>2, <1>3, <2>1 DEF InTime
  <2> QED BY <2>2, <2>3
<1>6. ASSUME NEW s \in Server, Arrive(r, s) PROVE \A q \in Request : InTime(q)'
  <2> DEFINE p == [at |-> "reading", server |-> s, left |-> ReadTimeout, conn |-> FALSE]
  <2>1. req' = [req EXCEPT ![r] = p] /\ server[s] \in {"serving", "failed"}
    BY <1>6 DEF Arrive
  <2>2. kind = "identity-worker" => elapsed + p.left <= WorkBy + ReadTimeout
    BY <1>1, <1>4, <2>1, ProbesInTime
  <2>3. p.at = "reading" /\ ~p.conn
    OBVIOUS
  <2> HIDE DEF p
  <2> QED BY <1>5, <2>1, <2>2, <2>3
<1>7. CASE Handle(r)
  <2> DEFINE time == HandlerTimeout(req[r].server)
             p == [req[r] EXCEPT !.at = "working", !.left = time]
  <2>1. req[r].at = "reading" /\ ~req[r].conn /\ server[req[r].server] # "off"
    BY <1>7 DEF LifecycleInv, RequestsKeepTheirTime, Handle, Active
  <2>2. kind = "identity-worker" => req[r].server = "health"
    BY <1>1, <2>1, KindsStand DEF LifecycleInv, ServersMatchProgress
  <2>3. kind = "identity-worker" => elapsed + time <= WorkBy + ReadTimeout + ProbeTimeout
    <3>1. kind = "identity-worker" => elapsed + req[r].left <= WorkBy + ReadTimeout
      BY <1>1, <2>1 DEF InTime
    <3> QED BY <1>1, <1>4, <2>2, <3>1
  <2>4. req' = [req EXCEPT ![r] = p]
    BY <1>1, <1>7 DEF Handle
  <2> HIDE DEF time
  <2>5. p.at = "working" /\ p.left = time /\ ~p.conn
    BY <1>1, <2>1 DEF RequestState
  <2> HIDE DEF p
  <2> QED BY <1>5, <2>3, <2>4, <2>5
<1>8. CASE Acquire(r) /\ pool = "open"
  <2> DEFINE p == [req[r] EXCEPT !.conn = TRUE]
  <2>1. req' = [req EXCEPT ![r] = p]
    BY <1>1, <1>8 DEF Acquire
  <2>2. p.at = req[r].at /\ p.left = req[r].left
    BY <1>1 DEF RequestState
  <2>3. kind # "identity-worker" /\ req[r].at = "working" => elapsed + req[r].left <= AnswerBy
    <3>1. req[r].at = "working" => req[r].left <= HandlerTimeout(req[r].server)
      BY DEF LifecycleInv, RequestsKeepTheirTime
    <3>2. kind # "identity-worker" => elapsed <= StopBy
      BY <1>8, OpenInTime
    <3> QED BY <1>1, <1>4, <3>1, <3>2
  <2>4. kind = "identity-worker" =>
          /\ req[r].at = "reading" => elapsed + req[r].left <= WorkBy + ReadTimeout
          /\ req[r].at = "working" => elapsed + req[r].left <= WorkBy + ReadTimeout + ProbeTimeout
    BY <1>1 DEF InTime
  <2> HIDE DEF p
  <2> QED BY <1>5, <2>1, <2>2, <2>3, <2>4
<1>9. CASE GiveBack(r)
  <2> DEFINE p == [req[r] EXCEPT !.conn = FALSE]
  <2>1. req' = [req EXCEPT ![r] = p]
    BY <1>1, <1>9 DEF GiveBack
  <2>2. p.at = req[r].at /\ p.left = req[r].left /\ ~p.conn
    BY <1>1 DEF RequestState
  <2>3. kind = "identity-worker" =>
          /\ req[r].at = "reading" => elapsed + req[r].left <= WorkBy + ReadTimeout
          /\ req[r].at = "working" => elapsed + req[r].left <= WorkBy + ReadTimeout + ProbeTimeout
    BY <1>1 DEF InTime
  <2> HIDE DEF p
  <2> QED BY <1>5, <2>1, <2>2, <2>3
<1>10. CASE (Acquire(r) /\ pool # "open") \/ FailCallback(r) \/ Answer(r)
  <2>1. PICK p \in {[req[r] EXCEPT !.at = "done", !.left = 0], [req[r] EXCEPT !.at = "recording"],
                    [NoRequest EXCEPT !.at = "done"]} :
          req' = [req EXCEPT ![r] = p]
    BY <1>1, <1>10 DEF Acquire, FailCallback, Answer
  <2>2. p.at \notin {"reading", "working"}
    BY <1>1, <2>1 DEF RequestState, NoRequest
  <2> QED BY <1>5, <2>1, <2>2
<1> QED BY <1>6, <1>7, <1>8, <1>9, <1>10

\* Beside the main goroutine what begins has its deadline in time too.
LEMMA BesideStaysInTime ==
  ASSUME LifecycleInv, Beside
  PROVE  TimeIsBounded'
<1> USE DEF StartSteps, StopSteps
<1>1. /\ MainInTime /\ OthersInTime /\ elapsed \in Nat /\ timer \in Nat /\ email \in EmailState /\ metrics \in MetricsState
      /\ at \in StartSteps \cup {"run", "step"} \cup StopSteps /\ MeasuresWhileItRuns /\ ServersMatchProgress
  BY DEF LifecycleInv, LifecycleTypeOK, EmailState, MetricsState, TimeIsBounded
<1>2. UNCHANGED <<run, at, timer, elapsed>> /\ (signalled => signalled')
  <2>1. CASE Signal
    BY <2>1, BesideKeeps DEF Signal
  <2>2. CASE ~Signal
    <3>1. UNCHANGED signalled
      BY <2>2
      DEF Beside, SendEmail, EmailSent, EmailLoopEnds, Measure, Measured, ServerFails, Arrive, Handle, Acquire, GiveBack,
          FailCallback, Answer
    <3> QED BY <3>1, BesideKeeps
  <2> QED BY <2>1, <2>2
<1>3. WorkBy' = WorkBy /\ StopBy' = StopBy /\ MetricBy' = MetricBy /\ AnswerBy' = AnswerBy /\ kind' = kind
  BY <1>2, RunStands
<1>4. /\ {WorkBy, StopBy, MailTimeout, MetricTimeout, StopTimeout} \subseteq Nat /\ MailTimeout <= StepTimeout /\ StepTimeout \in Nat
      /\ StopBy = WorkBy + StopTimeout /\ MetricBy = StopBy + MetricTimeout
      /\ WorkBy = (IF kind = "identity-worker" THEN StepTimeout ELSE 0)
  BY Deadlines
<1>5. MainInTime'
  BY <1>1, <1>2, <1>3 DEF MainInTime
<1>6. CASE \/ \E r \in Request, s \in Server : Arrive(r, s)
           \/ \E r \in Request : Handle(r) \/ Acquire(r) \/ GiveBack(r) \/ FailCallback(r) \/ Answer(r)
  <2>1. \A q \in Request : InTime(q)'
    BY <1>6, RequestsStayInTime
  <2>2. UNCHANGED <<email, metrics>>
    BY <1>6 DEF Arrive, Handle, Acquire, GiveBack, FailCallback, Answer
  <2> QED BY <1>1, <1>2, <1>3, <1>5, <2>1, <2>2 DEF TimeIsBounded, OthersInTime
<1>7. ASSUME UNCHANGED req PROVE \A q \in Request : InTime(q)'
  BY <1>1, <1>2, <1>3, <1>7 DEF OthersInTime, InTime
<1>8. CASE Signal \/ EmailSent \/ EmailLoopEnds \/ Measured \/ \E s \in Server : ServerFails(s)
  <2>1. /\ UNCHANGED req
        /\ email' = email \/ email'.at # "mailing"
        /\ metrics' = metrics \/ metrics'.at # "measuring"
    BY <1>8 DEF Signal, EmailSent, EmailLoopEnds, Measured, ServerFails, work
  <2> QED BY <1>1, <1>2, <1>3, <1>5, <1>7, <2>1 DEF TimeIsBounded, OthersInTime
<1>9. CASE SendEmail
  <2>1. /\ ~signalled /\ at \in {"run", "step"} /\ email.at = "polling" /\ email'.left = MailTimeout
        /\ UNCHANGED <<req, metrics>>
    BY <1>9 DEF SendEmail, Cancelled
  <2>2. elapsed = 0
    BY <1>1, <2>1 DEF MainInTime
  <2>3. kind = "identity-worker"
    BY <1>1, <2>1, KindsStand DEF LifecycleInv, ServersMatchProgress, Server
  <2>4. elapsed' + email'.left <= WorkBy'
    BY <1>2, <1>3, <1>4, <2>1, <2>2, <2>3
  <2> QED BY <1>1, <1>2, <1>3, <1>5, <1>7, <2>1, <2>4 DEF TimeIsBounded, OthersInTime
<1>10. CASE Measure
  <2>1. at \in {"run", "step", "stop", "drain"} /\ metrics'.left = MetricTimeout /\ UNCHANGED <<req, email>>
    BY <1>10 DEF Measure
  <2>2. elapsed <= StopBy
    BY <1>1, <1>4, <2>1 DEF MainInTime
  <2>3. elapsed' + metrics'.left <= MetricBy'
    BY <1>1, <1>2, <1>3, <1>4, <2>1, <2>2
  <2> QED BY <1>1, <1>2, <1>3, <1>5, <1>7, <2>1, <2>3 DEF TimeIsBounded, OthersInTime
<1> QED BY <1>6, <1>8, <1>9, <1>10 DEF Beside

LEMMA TimeStands ==
  ASSUME LifecycleInv, [LifecycleNext]_lifecycleVars
  PROVE  TimeIsBounded'
<1>1. CASE StartAction \/ ServeAction \/ StopAction \/ StartStep \/ EndStep
  <2>1. MainInTime' /\ UNCHANGED <<run, elapsed>>
    BY <1>1, MainStaysInTime
  <2>2. OthersInTime'
    BY <1>1, <2>1, MainStartsNothing, OthersStay
  <2> QED BY <2>1, <2>2 DEF TimeIsBounded
<1>2. CASE UNCHANGED lifecycleVars
  <2>1. MainInTime /\ OthersInTime /\ UNCHANGED <<run, at, timer, elapsed, signalled, email, metrics, req>>
    BY <1>2 DEF LifecycleInv, TimeIsBounded, lifecycleVars, run
  <2>2. WorkBy' = WorkBy /\ StopBy' = StopBy /\ MetricBy' = MetricBy /\ AnswerBy' = AnswerBy /\ kind' = kind
    BY <2>1, RunStands
  <2>3. MainInTime'
    BY <2>1, <2>2 DEF MainInTime
  <2>4. OthersInTime'
    BY <2>1, <2>2 DEF OthersInTime, InTime
  <2> QED BY <2>3, <2>4 DEF TimeIsBounded
<1> QED BY <1>1, <1>2, TickInTime, BesideStaysInTime, StepsAre

-----------------------------------------------------------------------------
(* Requests.                                                               *)

RequestInOrder(r) ==
  /\ Active(r) => server[req[r].server] # "off"
  /\ req[r].at \in {"working", "recording"} => req[r].left <= HandlerTimeout(req[r].server)
  /\ req[r].at = "recording" => kind = "identity-api" /\ req[r].server = "public"
  /\ req[r].conn => req[r].at \in {"working", "recording"}
  /\ r \in cut => req[r].at = "done"

PromiseKept(r) ==
  Promised(r) =>
    /\ req[r].at # "reading"
    /\ req[r].left <= (IF at = "stop" /\ shutting # "internal" THEN timer ELSE 0)

PromisesKept == at \in StopSteps /\ (kind = "workspace-api" => failed = {}) => \A r \in Request : PromiseKept(r)

\* Who is promised an answer waits for the public server, or for that of the worker.
LEMMA PromisedWhere ==
  ASSUME LifecycleInv, NEW r \in Request, Promised(r)
  PROVE  /\ kind = "identity-worker" => req[r].server = "health"
         /\ kind # "identity-worker" => req[r].server = "public"
<1>1. req[r].server \in Server /\ server[req[r].server] # "off" /\ req[r].server \in {"public", "health"}
  BY DEF LifecycleInv, LifecycleTypeOK, RequestsKeepTheirTime, Promised
<1>2. req[r].server \in servers
  BY <1>1 DEF LifecycleInv, ServersMatchProgress
<1> QED BY <1>1, <1>2, KindsStand DEF LifecycleInv

\* Nothing is cut off: each request that was being handled is over when Shutdown returns.
LEMMA RequestsStand ==
  ASSUME LifecycleInv, [LifecycleNext]_lifecycleVars
  PROVE  RequestsKeepTheirTime'
<1> USE DEF StartSteps, StopSteps
<1>1. /\ \A r \in Request : RequestInOrder(r)
      /\ (at \in StartSteps \cup {"run", "step"} => cut = {} /\ late = {})
      /\ PromisesKept /\ NothingIsCutOff
      /\ LifecycleTypeOK /\ ServersMatchProgress /\ StepsFitKinds /\ FailuresAreKept
      /\ req \in [Request -> RequestState] /\ req' \in [Request -> RequestState] /\ timer \in Nat
      /\ \A r \in Request : req[r] \in RequestState /\ req[r].left \in Nat /\ req[r].server \in Server
      /\ at \in StartSteps \cup {"run", "step"} \cup StopSteps
  BY RequestsTyped
  DEF LifecycleInv, LifecycleTypeOK, RequestState, RequestsKeepTheirTime, RequestInOrder, PromisesKept, PromiseKept
<1>2. /\ kind \in {"identity-api", "identity-worker", "workspace-api"}
      /\ (kind = "identity-api" => {"public", "internal"} \subseteq servers /\ "health" \notin servers)
      /\ (kind = "identity-worker" => servers = {"health"}) /\ (kind = "workspace-api" => servers = {"public"})
      /\ Server = {"public", "internal", "session", "health"} /\ servers \subseteq Server
  BY <1>1, KindsStand DEF Server
<1>3. ASSUME UNCHANGED run PROVE kind' = kind /\ servers' = servers
  BY <1>3, RunStands
<1>4. SUFFICES /\ \A r \in Request : RequestInOrder(r)'
               /\ (at' \in StartSteps \cup {"run", "step"} => cut' = {} /\ late' = {})
               /\ PromisesKept' /\ NothingIsCutOff'
  BY DEF RequestsKeepTheirTime, RequestInOrder, PromisesKept, PromiseKept
\* A step that touches no request.
<1>5. ASSUME UNCHANGED <<run, req, cut>>, \A s \in Server : server[s] # "off" => server'[s] # "off",
             failed \subseteq failed', late \subseteq late', PromisesKept',
             at' \in StartSteps \cup {"run", "step"} => at \in StartSteps \cup {"run", "step"} /\ late' = late
      PROVE  /\ \A r \in Request : RequestInOrder(r)'
             /\ (at' \in StartSteps \cup {"run", "step"} => cut' = {} /\ late' = {})
             /\ PromisesKept' /\ NothingIsCutOff'
  <2>1. \A r \in Request : RequestInOrder(r)'
    BY <1>1, <1>3, <1>5 DEF RequestInOrder, Active, HandlerTimeout
  <2>2. NothingIsCutOff'
    BY <1>1, <1>3, <1>5 DEF NothingIsCutOff
  <2> QED BY <1>1, <1>5, <2>1, <2>2
\* A step that also leaves the main goroutine, and the servers, as they are.
<1>6. ASSUME UNCHANGED <<run, at, timer, shutting, req, late>>, failed \subseteq failed'
      PROVE  PromisesKept'
  BY <1>1, <1>3, <1>6 DEF PromisesKept, PromiseKept, Promised, Active
\* After the calls to Shutdown.
<1>7. ASSUME UNCHANGED <<run, failed, req, late>>, at \in StopSteps \ {"stop"}, at' \in StopSteps \ {"stop"}
      PROVE  PromisesKept'
  BY <1>1, <1>3, <1>7 DEF PromisesKept, PromiseKept, Promised, Active
<1>8. ASSUME at \in StartSteps, UNCHANGED req
      PROVE  PromisesKept'
  BY <1>8, NothingYet DEF PromisesKept, PromiseKept, Promised, Active
<1>9. CASE StartAction
  <2>1. /\ UNCHANGED <<run, server, req, failed, late, cut>> /\ at \in StartSteps
    BY <1>9, StartsInOrder DEF Starts, work, history
  <2> QED BY <1>5, <1>8, <2>1
<1>10. CASE ServeAction
  <2>1. /\ at = "listen" /\ at' \in {"run", "close"} /\ UNCHANGED <<run, req, failed, late, cut>>
    BY <1>10 DEF ServeAction, ServeAPI, ServeWorker, ServeWorkspace, StartServers, StartFails, work, history
  <2>2. \A s \in Server : server[s] = "off"
    BY <2>1, NothingYet
  <2> QED BY <1>5, <1>8, <2>1, <2>2
<1>11. ASSUME NEW s \in servers \ {"internal", "session"}, NEW q, BeginShutdown(s, q), at = "run",
              UNCHANGED <<run, req, failed, cut>>
       PROVE  /\ \A r \in Request : RequestInOrder(r)'
              /\ (at' \in StartSteps \cup {"run", "step"} => cut' = {} /\ late' = {})
              /\ PromisesKept' /\ NothingIsCutOff'
  <2>1. /\ at' = "stop" /\ shutting' = s /\ timer' = StopTimeout /\ s \in Server
        /\ late' = {r \in Request : req[r].at = "reading"} /\ late = {}
        /\ \A u \in Server : server[u] # "off" => server'[u] # "off"
    BY <1>1, <1>2, <1>11 DEF BeginShutdown, LifecycleTypeOK
  <2>2. ASSUME NEW r \in Request, Promised(r)' PROVE req'[r].at # "reading" /\ req'[r].left <= StopTimeout
    <3>1. req[r].at # "reading" /\ req[r].left <= HandlerTimeout(req[r].server)
      BY <1>1, <1>11, <2>1, <2>2 DEF Promised, Active, RequestInOrder
    <3> QED BY <1>1, <1>11, <3>1, Deadlines
  <2>3. PromisesKept'
    BY <2>1, <2>2 DEF PromisesKept, PromiseKept
  <2> QED BY <1>5, <1>11, <2>1, <2>3
<1>12. CASE StopAPI \/ StopWorker
  <2>1. UNCHANGED <<run, req, failed, cut>> /\ at = "run"
    BY <1>12 DEF StopAPI, StopWorker, work
  <2>2. PICK s \in servers \ {"internal", "session"}, q \in {results, Tail(results)} : BeginShutdown(s, q)
    BY <1>2, <1>12 DEF StopAPI, StopWorker
  <2> QED BY <1>11, <2>1, <2>2
<1>13. CASE StopWorkspace
  <2>1. UNCHANGED <<run, req, failed, cut>> /\ at = "run" /\ kind = "workspace-api"
    BY <1>13 DEF StopWorkspace, work
  <2>2. CASE BeginShutdown("public", results)
    BY <1>2, <1>11, <2>1, <2>2
  <2>3. CASE at' = "close" /\ UNCHANGED <<server, late>>
    <3>1. failed' # {}
      <4>1. FailuresAreKept' /\ ServersMatchProgress'
        BY FailuresStand, ServersStand
      <4>2. server["public"] # "off" /\ server["public"] # "closed"
        BY <1>1, <1>2, <2>1 DEF ServersMatchProgress
      <4>3. server'["public"] \notin {"off", "serving", "closed"}
        BY <1>2, <2>3, <4>1, <4>2 DEF ServersMatchProgress
      <4>4. server'["public"] = "failed"
        BY <1>2, <4>3, ServersTyped
      <4> QED BY <1>3, <2>1, <4>1, <4>4 DEF FailuresAreKept
    <3>2. PromisesKept'
      BY <1>3, <2>1, <3>1 DEF PromisesKept
    <3> QED BY <1>5, <2>1, <2>3, <3>2
  <2> QED BY <1>13, <2>2, <2>3 DEF StopWorkspace
<1>14. CASE ShutInternal
  <2>1. /\ kind = "identity-api" /\ at = "stop" /\ at' = at /\ shutting = "public" /\ shutting' = "internal"
        /\ UNCHANGED <<run, req, failed, late, cut>> /\ (Idle("public") \/ timer = 0)
        /\ \A u \in Server : server[u] # "off" => server'[u] # "off"
    BY <1>1, <1>2, <1>14 DEF ShutInternal, ShutdownReturns, Close, LifecycleTypeOK, work, history
  <2>2. ASSUME NEW r \in Request, Promised(r)' PROVE req'[r].at # "reading" /\ req'[r].left <= 0
    <3>1. Promised(r) /\ req[r].server = "public" /\ req'[r] = req[r] /\ Active(r)
      BY <2>1, <2>2, PromisedWhere DEF Promised, Active
    <3>2. timer = 0
      BY <2>1, <3>1 DEF Idle
    <3> QED BY <1>1, <2>1, <3>1, <3>2 DEF PromisesKept, PromiseKept
  <2>3. PromisesKept'
    BY <2>1, <2>2 DEF PromisesKept, PromiseKept
  <2> QED BY <1>5, <2>1, <2>3
<1>15. CASE StopHealth \/ StopPublic
  <2>1. /\ at = "stop" /\ at' \in {"drain", "close"} /\ UNCHANGED <<run, req, failed, late, cut, server>>
        /\ (Idle(shutting) \/ timer = 0)
        /\ \/ kind = "identity-worker" /\ shutting = "health"
           \/ kind = "workspace-api" /\ shutting = "public"
    BY <1>1, <1>2, <1>15 DEF StopHealth, StopPublic, ShutdownReturns, StepsFitKinds, work, history
  <2>2. ASSUME NEW r \in Request, Promised(r)', kind = "workspace-api" => failed = {}
        PROVE  req'[r].at # "reading" /\ req'[r].left <= 0
    <3>1. Promised(r) /\ req[r].server = shutting /\ req'[r] = req[r] /\ Active(r)
      BY <2>1, <2>2, PromisedWhere DEF Promised, Active
    <3>2. timer = 0
      BY <2>1, <3>1 DEF Idle
    <3> QED BY <1>1, <2>1, <2>2, <3>1, <3>2 DEF PromisesKept, PromiseKept
  <2>3. PromisesKept'
    BY <1>3, <2>1, <2>2 DEF PromisesKept, PromiseKept
  <2> QED BY <1>5, <2>1, <2>3
<1>16. CASE StopSession
  <2>1. /\ kind = "identity-api" /\ at = "stop" /\ shutting = "internal" /\ at' = "drain"
        /\ UNCHANGED <<run, failed, late, cut>>
        /\ req' = [r \in Request |-> IF Active(r) /\ req[r].server = "session" THEN [req[r] EXCEPT !.left = 0] ELSE req[r]]
        /\ \A u \in Server : server[u] # "off" => server'[u] # "off"
    BY <1>1, <1>2, <1>16 DEF StopSession, ShutdownReturns, Close, LifecycleTypeOK, history
  <2>2. ASSUME NEW r \in Request
        PROVE  \/ req'[r] = req[r]
               \/ /\ req'[r].at = req[r].at /\ req'[r].server = "session" /\ req[r].server = "session"
                  /\ req'[r].left = 0 /\ req'[r].conn = req[r].conn
    BY <1>1, <2>1 DEF RequestState
  <2>3. \A s \in Server : HandlerTimeout(s) \in Nat
    BY Deadlines
  <2>4. ASSUME NEW r \in Request PROVE RequestInOrder(r)'
    <3>1. CASE req'[r] = req[r]
      BY <1>1, <1>3, <2>1, <3>1 DEF RequestInOrder, Active, HandlerTimeout
    <3>2. CASE req'[r] # req[r]
      <4>1. 0 <= HandlerTimeout("session")
        BY <1>2, <2>3
      <4>2. HandlerTimeout(req'[r].server) = HandlerTimeout("session") /\ HandlerTimeout(req[r].server)' = HandlerTimeout(req'[r].server)
        BY <2>2, <3>2 DEF HandlerTimeout
      <4> QED BY <1>1, <1>3, <2>1, <2>2, <3>2, <4>1, <4>2 DEF RequestInOrder, Active
    <3> QED BY <3>1, <3>2
  <2>5. ASSUME NEW r \in Request, Promised(r)' PROVE req'[r].at # "reading" /\ req'[r].left <= 0
    <3>1. req'[r] = req[r] /\ Promised(r)
      BY <2>1, <2>2, <2>5 DEF Promised, Active
    <3> QED BY <1>1, <2>1, <3>1 DEF PromisesKept, PromiseKept
  <2>6. PromisesKept'
    BY <2>1, <2>5 DEF PromisesKept, PromiseKept
  <2>7. NothingIsCutOff'
    <3>1. ASSUME NEW r \in cut' \ late' PROVE req'[r].server = req[r].server /\ r \in cut \ late /\ r \in Request
      BY <1>1, <2>1, <2>2 DEF LifecycleTypeOK
    <3> QED BY <1>1, <1>3, <2>1, <3>1 DEF NothingIsCutOff
  <2> QED BY <2>1, <2>4, <2>6, <2>7
<1>17. CASE Drain \/ Unregister \/ ClosePool \/ ConnectionsBack \/ PoolClosed
  <2>1. /\ at \in StopSteps \ {"stop"} /\ at' \in StopSteps \ {"stop"} /\ UNCHANGED <<run, req, failed, late, cut, server>>
    BY <1>17
    DEF Drain, Unregister, ClosePool, ConnectionsBack, PoolClosed, work, history
  <2> QED BY <1>5, <1>7, <2>1
<1>18. CASE Exit
  <2>1. /\ at = "flush" /\ at' = "exited" /\ UNCHANGED <<run, failed, late>>
        /\ cut' = cut \cup {r \in Request : Active(r) /\ req[r].left > 0}
        /\ req' = [r \in Request |-> IF Active(r) THEN [req[r] EXCEPT !.at = "done", !.left = 0, !.conn = FALSE]
                                      ELSE req[r]]
    BY <1>18 DEF Exit
  <2>2. ASSUME NEW r \in Request
        PROVE  /\ req'[r].server = req[r].server /\ req'[r].at \in {"none", "done"} /\ ~req'[r].conn
               /\ (Active(r) => req'[r].at = "done") /\ (~Active(r) => req'[r] = req[r])
    <3>1. CASE Active(r)
      <4>1. req'[r] = [req[r] EXCEPT !.at = "done", !.left = 0, !.conn = FALSE]
        BY <2>1, <3>1
      <4> QED BY <1>1, <3>1, <4>1 DEF RequestState
    <3>2. CASE ~Active(r)
      BY <1>1, <2>1, <3>2 DEF Active, RequestState, RequestInOrder
    <3> QED BY <3>1, <3>2
  <2>3. ASSUME NEW r \in Request PROVE RequestInOrder(r)'
    <3>1. ~Active(r)' /\ req'[r].at \notin {"working", "recording"}
      BY <2>2 DEF Active
    <3>2. r \in cut' => req'[r].at = "done"
      BY <1>1, <2>1, <2>2 DEF RequestInOrder
    <3> QED BY <2>2, <3>1, <3>2 DEF RequestInOrder
  <2>4. PromisesKept'
    BY <2>2 DEF PromisesKept, PromiseKept, Promised, Active
  <2>5. NothingIsCutOff'
    <3>1. SUFFICES ASSUME NEW r \in cut' \ late', ~(kind = "workspace-api" /\ failed # {})
                   PROVE  req'[r].server \in {"internal", "session"}
      BY <1>3, <2>1 DEF NothingIsCutOff
    <3>2. r \in Request
      BY <1>1, <2>1, <3>1 DEF LifecycleTypeOK
    <3>3. CASE r \in cut
      BY <1>1, <2>1, <2>2, <3>1, <3>2, <3>3 DEF NothingIsCutOff
    <3>4. CASE Active(r) /\ req[r].left > 0
      <4>0. PromiseKept(r) /\ req[r].left \in Nat
        BY <1>1, <2>1, <3>1, <3>2 DEF PromisesKept
      <4>1. ~Promised(r)
        <5>1. SUFFICES ASSUME Promised(r) PROVE FALSE
          OBVIOUS
        <5>2. req[r].left <= 0
          BY <2>1, <4>0, <5>1 DEF PromiseKept
        <5>3. req[r].left > 0
          BY <3>4
        <5> QED BY <4>0, <5>2, <5>3
      <4>2. req[r].server \notin {"public", "health"}
        BY <2>1, <3>1, <3>4, <4>1 DEF Promised
      <4> QED BY <1>1, <1>2, <2>2, <3>2, <4>2
    <3> QED BY <2>1, <3>1, <3>3, <3>4
  <2> QED BY <2>1, <2>3, <2>4, <2>5
<1>19. CASE StartStep \/ EndStep
  <2>1. /\ at \in {"run", "step"} /\ at' \in {"run", "step"} /\ UNCHANGED <<run, req, failed, late, cut, server>>
    BY <1>19 DEF StartStep, EndStep, work, history
  <2>2. PromisesKept'
    BY <2>1 DEF PromisesKept
  <2> QED BY <1>5, <2>1, <2>2
<1>20. CASE UNCHANGED lifecycleVars
  <2>1. UNCHANGED <<run, at, timer, shutting, req, failed, late, cut, server>>
    BY <1>20 DEF lifecycleVars, run
  <2> QED BY <1>1, <1>5, <1>6, <2>1
<1>21. CASE TimePasses
  <2>1. /\ UNCHANGED <<run, at, shutting, failed, late, cut, server>> /\ timer' = Down(timer) /\ ~Urgent
        /\ req' = [r \in Request |-> IF Active(r) THEN [req[r] EXCEPT !.left = Down(req[r].left)] ELSE req[r]]
    BY <1>21 DEF TimePasses
  <2>2. ASSUME NEW r \in Request
        PROVE  /\ req'[r].at = req[r].at /\ req'[r].server = req[r].server /\ req'[r].conn = req[r].conn
               /\ req'[r].left \in Nat /\ req'[r].left <= req[r].left
               /\ (Active(r) /\ req[r].left > 0 => req'[r].left = req[r].left - 1)
    <3>1. CASE Active(r)
      <4>1. req'[r] = [req[r] EXCEPT !.left = Down(req[r].left)]
        BY <1>1, <2>1, <3>1
      <4> QED BY <1>1, <4>1, DownIs DEF RequestState
    <3>2. CASE ~Active(r)
      BY <1>1, <2>1, <3>2
    <3> QED BY <3>1, <3>2
  <2>3. \A s \in Server : HandlerTimeout(s) \in Nat
    BY Deadlines
  <2>4. ASSUME NEW r \in Request PROVE RequestInOrder(r)'
    <3>1. req[r].at \in {"working", "recording"} => req'[r].left <= HandlerTimeout(req[r].server)
      BY <1>1, <2>2, <2>3 DEF RequestInOrder
    <3>2. HandlerTimeout(req[r].server)' = HandlerTimeout(req'[r].server)
      BY DEF HandlerTimeout
    <3> QED BY <1>1, <1>3, <2>1, <2>2, <3>1, <3>2 DEF RequestInOrder, Active
  <2>5. PromisesKept'
    <3>1. SUFFICES ASSUME at \in StopSteps, kind = "workspace-api" => failed = {}, NEW r \in Request, Promised(r)'
                   PROVE  /\ req'[r].at # "reading"
                          /\ req'[r].left <= (IF at = "stop" /\ shutting # "internal" THEN timer' ELSE 0)
      BY <1>3, <2>1 DEF PromisesKept, PromiseKept
    <3>2. Promised(r) /\ Active(r)
      BY <2>1, <2>2, <3>1 DEF Promised, Active
    <3>3. req[r].at # "reading" /\ req[r].left <= (IF at = "stop" /\ shutting # "internal" THEN timer ELSE 0)
      BY <1>1, <3>1, <3>2 DEF PromisesKept, PromiseKept
    <3>4. CASE req[r].left = 0
      BY <1>1, <2>1, <2>2, <3>3, <3>4, DownIs
    <3>5. CASE req[r].left > 0
      <4>1. at = "stop" /\ shutting # "internal" /\ timer > 0
        BY <1>1, <3>3, <3>5
      <4>2. timer' = timer - 1 /\ req'[r].left = req[r].left - 1
        BY <1>1, <2>1, <2>2, <3>2, <3>5, <4>1, DownIs
      <4> QED BY <1>1, <2>2, <3>3, <4>1, <4>2
    <3> QED BY <1>1, <3>4, <3>5
  <2>6. NothingIsCutOff'
    BY <1>1, <1>3, <2>1, <2>2 DEF NothingIsCutOff, LifecycleTypeOK
  <2> QED BY <1>1, <2>1, <2>4, <2>5, <2>6
<1>22. CASE Signal \/ SendEmail \/ EmailSent \/ EmailLoopEnds \/ Measure \/ Measured
  <2>1. UNCHANGED <<run, at, timer, shutting, req, failed, late, cut, server>>
    BY <1>22 DEF Signal, SendEmail, EmailSent, EmailLoopEnds, Measure, Measured, work, history
  <2> QED BY <1>1, <1>5, <1>6, <2>1
<1>23. CASE \E s \in Server : ServerFails(s)
  <2>1. UNCHANGED <<run, at, timer, shutting, req, late, cut>> /\ failed \subseteq failed'
    BY <1>23 DEF ServerFails, work
  <2>2. \A s \in Server : server[s] # "off" => server'[s] # "off"
    BY <1>1, <1>23 DEF ServerFails, LifecycleTypeOK
  <2> QED BY <1>1, <1>5, <1>6, <2>1, <2>2
\* A step of one request.
<1>24. ASSUME NEW r \in Request, NEW p \in RequestState, req' = [req EXCEPT ![r] = p],
              UNCHANGED <<run, at, timer, shutting, failed, late, server>>,
              cut' = cut \/ (cut' = cut \cup {r} /\ at \notin StartSteps \cup {"run", "step"} /\ p.at = "done" /\
                            (r \in late \/ p.server \in {"internal", "session"} \/ (kind = "workspace-api" /\ failed # {}))),
              p.at \in {"reading", "working", "recording"} => server[p.server] # "off" /\ r \notin cut,
              p.at = "none" => r \notin cut,
              p.at \in {"working", "recording"} => p.left <= HandlerTimeout(p.server),
              p.at = "recording" => kind = "identity-api" /\ p.server = "public",
              p.conn => p.at \in {"working", "recording"},
              \/ p.at = "done"
              \/ /\ {p.at, req[r].at} \subseteq {"working", "recording"}
                 /\ p.left = req[r].left /\ p.server = req[r].server
              \/ at \notin StopSteps \/ (kind = "workspace-api" /\ failed # {})
              \/ p.server \in {"internal", "session"} \/ r \in late,
              r \in cut => p.server = req[r].server
       PROVE  /\ \A u \in Request : RequestInOrder(u)'
              /\ (at' \in StartSteps \cup {"run", "step"} => cut' = {} /\ late' = {})
              /\ PromisesKept' /\ NothingIsCutOff'
  <2>1. req'[r] = p /\ \A u \in Request \ {r} : req'[u] = req[u]
    BY <1>1, <1>24
  <2>2. ASSUME NEW u \in Request PROVE RequestInOrder(u)'
    <3>1. CASE u = r
      <4>1. r \in cut' => p.at = "done"
        BY <1>24 DEF RequestState
      <4>2. HandlerTimeout(req[u].server)' = HandlerTimeout(p.server)
        BY <2>1, <3>1 DEF HandlerTimeout
      <4> QED BY <1>3, <1>24, <2>1, <3>1, <4>1, <4>2 DEF RequestInOrder, Active
    <3>2. CASE u # r
      <4>1. u \in cut' => u \in cut
        BY <1>24, <3>2
      <4>2. HandlerTimeout(req[u].server)' = HandlerTimeout(req[u].server)
        BY <2>1, <3>2 DEF HandlerTimeout
      <4> QED BY <1>1, <1>3, <1>24, <2>1, <3>2, <4>1, <4>2 DEF RequestInOrder, Active
    <3> QED BY <3>1, <3>2
  <2>3. PromisesKept'
    <3>1. SUFFICES ASSUME at \in StopSteps, kind = "workspace-api" => failed = {}, NEW u \in Request, Promised(u)'
                   PROVE  /\ req'[u].at # "reading"
                          /\ req'[u].left <= (IF at = "stop" /\ shutting # "internal" THEN timer ELSE 0)
      BY <1>3, <1>24 DEF PromisesKept, PromiseKept
    <3>2. CASE u = r
      <4>1. p.at \in {"reading", "working", "recording"} /\ r \notin late /\ p.server \in {"public", "health"}
        BY <1>24, <2>1, <3>1, <3>2 DEF Promised, Active
      <4>2. {p.at, req[r].at} \subseteq {"working", "recording"} /\ p.left = req[r].left /\ p.server = req[r].server
        BY <1>24, <3>1, <4>1
      <4>3. Promised(r)
        BY <4>1, <4>2 DEF Promised, Active
      <4> QED BY <1>1, <2>1, <3>1, <3>2, <4>2, <4>3 DEF PromisesKept, PromiseKept
    <3>3. CASE u # r
      <4>1. Promised(u) /\ req'[u] = req[u]
        BY <1>24, <2>1, <3>1, <3>3 DEF Promised, Active
      <4> QED BY <1>1, <3>1, <4>1 DEF PromisesKept, PromiseKept
    <3> QED BY <3>2, <3>3
  <2>4. NothingIsCutOff'
    <3>1. SUFFICES ASSUME NEW u \in cut' \ late', ~(kind = "workspace-api" /\ failed # {})
                   PROVE  req'[u].server \in {"internal", "session"}
      BY <1>3, <1>24 DEF NothingIsCutOff
    <3>2. u \in Request /\ u \notin late
      BY <1>1, <1>24, <3>1 DEF LifecycleTypeOK
    <3>3. CASE u \in cut
      <4>1. req'[u].server = req[u].server
        BY <1>24, <2>1, <3>2, <3>3
      <4> QED BY <1>1, <3>1, <3>2, <3>3, <4>1 DEF NothingIsCutOff
    <3>4. CASE u \notin cut
      BY <1>24, <2>1, <3>1, <3>2, <3>4
    <3> QED BY <3>3, <3>4
  <2>5. at' \in StartSteps \cup {"run", "step"} => cut' = {} /\ late' = {}
    BY <1>1, <1>24
  <2> QED BY <2>2, <2>3, <2>4, <2>5
<1>25. CASE \E r \in Request, s \in Server : Arrive(r, s)
  <2>1. PICK r \in Request, s \in Server : Arrive(r, s)
    BY <1>25
  <2> DEFINE p == [at |-> "reading", server |-> s, left |-> ReadTimeout, conn |-> FALSE]
  <2>2. /\ req' = [req EXCEPT ![r] = p] /\ UNCHANGED <<run, at, timer, shutting, failed, late, server, cut>>
        /\ req[r].at = "none" /\ server[s] \in {"serving", "failed"}
    BY <2>1 DEF Arrive, history
  <2>3. p \in RequestState /\ p.at = "reading" /\ p.server = s /\ ~p.conn
    BY TimeoutsAssumption DEF RequestState
  <2>4. r \notin cut /\ server[s] # "off"
    BY <1>1, <2>2 DEF RequestInOrder
  <2>5. at \notin StopSteps \/ (kind = "workspace-api" /\ failed # {}) \/ s \in {"internal", "session"}
    BY <1>2, <2>2, OpenServer
  <2> HIDE DEF p
  <2> QED BY <1>24, <2>2, <2>3, <2>4, <2>5
<1>26. CASE \E r \in Request : Handle(r)
  <2>1. PICK r \in Request : Handle(r)
    BY <1>26
  <2> DEFINE time == HandlerTimeout(req[r].server)
             p == [req[r] EXCEPT !.at = "working", !.left = time]
  <2>2. /\ UNCHANGED <<run, at, timer, shutting, failed, late, server, cut>> /\ req[r].at = "reading"
        /\ req' = [req EXCEPT ![r] = p]
    BY <1>1, <2>1 DEF Handle, history
  <2>3. time \in Nat
    BY <1>1, Deadlines
  <2>4. p \in RequestState /\ p.at = "working" /\ p.server = req[r].server /\ p.left = time /\ p.conn = req[r].conn
    <3> HIDE DEF time
    <3> QED BY <1>1, <2>3 DEF RequestState
  <2>5. p.left <= HandlerTimeout(p.server)
    BY <2>3, <2>4
  <2>6. r \notin cut /\ server[req[r].server] # "off"
    BY <1>1, <2>2 DEF RequestInOrder, Active
  <2>7. at \notin StopSteps \/ (kind = "workspace-api" /\ failed # {}) \/ ~Promised(r)
    BY <1>1, <2>2 DEF PromisesKept, PromiseKept
  <2>8. Promised(r) \/ r \in late \/ req[r].server \in {"internal", "session"}
    BY <1>1, <1>2, <2>2 DEF Promised, Active
  <2> HIDE DEF p
  <2> QED BY <1>24, <2>2, <2>4, <2>5, <2>6, <2>7, <2>8
<1>27. CASE \E r \in Request : Acquire(r)
  <2>1. PICK r \in Request : Acquire(r)
    BY <1>27
  <2>2. /\ UNCHANGED <<run, at, timer, shutting, failed, late, server>> /\ req[r].at \in {"working", "recording"}
    BY <2>1 DEF Acquire
  <2>3. /\ r \notin cut /\ server[req[r].server] # "off" /\ req[r].left <= HandlerTimeout(req[r].server)
        /\ req[r].at = "recording" => kind = "identity-api" /\ req[r].server = "public"
    BY <1>1, <2>2 DEF RequestInOrder, Active
  <2>4. CASE pool = "open"
    <3> DEFINE p == [req[r] EXCEPT !.conn = TRUE]
    <3>1. req' = [req EXCEPT ![r] = p] /\ UNCHANGED cut
      BY <1>1, <2>1, <2>4 DEF Acquire
    <3>2. p \in RequestState /\ p.at = req[r].at /\ p.server = req[r].server /\ p.left = req[r].left
      BY <1>1, <2>2 DEF RequestState
    <3>3. p.left <= HandlerTimeout(p.server)
      BY <2>3, <3>2
    <3> HIDE DEF p
    <3> QED BY <1>24, <2>2, <2>3, <3>1, <3>2, <3>3
  <2>5. CASE pool # "open"
    <3> DEFINE p == [req[r] EXCEPT !.at = "done", !.left = 0]
    <3>1. /\ req' = [req EXCEPT ![r] = p] /\ ~req[r].conn
          /\ cut' = cut \/ (cut' = cut \cup {r} /\ req[r].left > 0)
      BY <1>1, <2>1, <2>5 DEF Acquire
    <3>2. p \in RequestState /\ p.at = "done" /\ p.server = req[r].server /\ ~p.conn
      BY <1>1, <3>1 DEF RequestState
    <3>3. at \in StopSteps \ {"stop"}
      <4>1. at \notin StartSteps
        BY <2>2, NothingYet DEF Active
      <4> QED BY <1>1, <2>5, <4>1 DEF LifecycleInv, ResourcesMatchProgress
    <3>4. (kind = "workspace-api" /\ failed # {}) \/ ~Promised(r) \/ ~(req[r].left > 0)
      BY <1>1, <2>2, <3>3 DEF PromisesKept, PromiseKept
    <3>5. Promised(r) \/ r \in late \/ req[r].server \in {"internal", "session"}
      BY <1>1, <1>2, <2>2 DEF Promised, Active
    <3>6. at \notin StartSteps \cup {"run", "step"}
      BY <3>3
    <3> HIDE DEF p
    <3> QED BY <1>24, <2>2, <2>3, <3>1, <3>2, <3>4, <3>5, <3>6
  <2> QED BY <2>4, <2>5
<1>28. CASE \E r \in Request : GiveBack(r)
  <2>1. PICK r \in Request : GiveBack(r)
    BY <1>28
  <2> DEFINE p == [req[r] EXCEPT !.conn = FALSE]
  <2>2. /\ UNCHANGED <<run, at, timer, shutting, failed, late, server, cut>> /\ req[r].at = "working"
        /\ req' = [req EXCEPT ![r] = p]
    BY <1>1, <2>1 DEF GiveBack, RequestInOrder, history
  <2>3. p \in RequestState /\ p.at = "working" /\ p.server = req[r].server /\ p.left = req[r].left /\ ~p.conn
    BY <1>1, <2>2 DEF RequestState
  <2>4. r \notin cut /\ server[req[r].server] # "off" /\ req[r].left <= HandlerTimeout(req[r].server)
    BY <1>1, <2>2 DEF RequestInOrder, Active
  <2>5. p.left <= HandlerTimeout(p.server)
    BY <2>3, <2>4
  <2> HIDE DEF p
  <2> QED BY <1>24, <2>2, <2>3, <2>4, <2>5
<1>29. CASE \E r \in Request : FailCallback(r)
  <2>1. PICK r \in Request : FailCallback(r)
    BY <1>29
  <2> DEFINE p == [req[r] EXCEPT !.at = "recording"]
  <2>2. /\ UNCHANGED <<run, at, timer, shutting, failed, late, server, cut>>
        /\ req[r].at = "working" /\ req[r].server = "public" /\ kind = "identity-api"
        /\ req' = [req EXCEPT ![r] = p]
    BY <1>1, <2>1 DEF FailCallback, history
  <2>3. /\ p \in RequestState /\ p.at = "recording" /\ p.server = req[r].server /\ p.left = req[r].left
    BY <1>1, <2>2 DEF RequestState
  <2>4. r \notin cut /\ server[req[r].server] # "off" /\ req[r].left <= HandlerTimeout(req[r].server)
    BY <1>1, <2>2 DEF RequestInOrder, Active
  <2>5. p.left <= HandlerTimeout(p.server)
    BY <2>3, <2>4
  <2> HIDE DEF p
  <2> QED BY <1>24, <2>2, <2>3, <2>4, <2>5
<1>31. CASE \E r \in Request : Answer(r)
  <2>1. PICK r \in Request : Answer(r)
    BY <1>31
  <2> DEFINE p == [NoRequest EXCEPT !.at = "done"]
  <2>2. UNCHANGED <<run, at, timer, shutting, failed, late, server, cut>> /\ req' = [req EXCEPT ![r] = p]
    BY <1>1, <2>1 DEF Answer, history
  <2>3. p \in RequestState /\ p.at = "done" /\ ~p.conn
    BY <1>1 DEF RequestState, NoRequest, Server
  <2>4. r \notin cut
    BY <1>1, <2>1 DEF Answer, Active, RequestInOrder
  <2> HIDE DEF p
  <2> QED BY <1>24, <2>2, <2>3, <2>4
<1>30. CASE Beside
  BY <1>22, <1>23, <1>25, <1>26, <1>27, <1>28, <1>29, <1>30, <1>31 DEF Beside
<1> QED BY <1>9, <1>10, <1>12, <1>13, <1>14, <1>15, <1>16, <1>17, <1>18, <1>19, <1>20, <1>21, <1>30, StepsAre DEF StopAction

-----------------------------------------------------------------------------
(* The theorems.                                                           *)

LEMMA LifecycleStarts == LifecycleInit => LifecycleInv
<1> SUFFICES ASSUME LifecycleInit PROVE LifecycleInv
  OBVIOUS
<1> USE DEF StartSteps, StopSteps
<1>1. /\ kind \in Kinds /\ config \in Configs[kind]
      /\ at = "telemetry" /\ timer = 0 /\ result = "ok" /\ pool = "none" /\ open = {}
      /\ server = [s \in Server |-> "off"] /\ results = <<>> /\ received = 0 /\ shutting = "public"
      /\ email = [at |-> "off", left |-> 0] /\ metrics = [at |-> "off", left |-> 0] /\ ticker = FALSE /\ req = [r \in Request |-> NoRequest]
      /\ signalled = FALSE /\ failed = {} /\ late = {} /\ cut = {} /\ elapsed = 0
  BY DEF LifecycleInit
<1>2. /\ \A s \in Server : server[s] = "off"
      /\ \A r \in Request : req[r].at = "none" /\ ~req[r].conn /\ req[r].server = "public" /\ req[r].left = 0
      /\ Server = {"public", "internal", "session", "health"} /\ email.at = "off" /\ email.left = 0
      /\ metrics.at = "off"
      /\ Len(results) = 0
  BY <1>1 DEF NoRequest, Server
<1>3. LifecycleTypeOK
  <2>1. req \in [Request -> RequestState] /\ email \in EmailState /\ metrics \in MetricsState
    BY <1>1, <1>2 DEF NoRequest, RequestState, EmailState, MetricsState
  <2>2. results \in Seq({"failed", "closed", "done"}) /\ server \in [Server -> {"off", "serving", "failed", "closed"}]
    BY <1>1
  <2> QED BY <1>1, <1>2, <2>1, <2>2 DEF LifecycleTypeOK, RequestState, EmailState, MetricsState
<1>4. StepsFitKinds /\ MeasuresWhileItRuns /\ ResourcesMatchProgress
  BY <1>1, <1>2 DEF StepsFitKinds, MeasuresWhileItRuns, ResourcesMatchProgress, OpenAt
<1>5. ServersMatchProgress /\ NoPoolNoServer /\ NobodyUsesAClosedPool
  BY <1>1, <1>2 DEF ServersMatchProgress, NoPoolNoServer, NobodyUsesAClosedPool
<1>6. ReportsAddUp /\ FailuresAreKept
  <2>1. Ended = 0
    BY <1>2 DEF Ended, Reported
  <2>2. ~FailureWaits
    BY <1>2 DEF FailureWaits
  <2> QED BY <1>1, <1>2, <2>1, <2>2 DEF ReportsAddUp, FailuresAreKept
<1>7. TimeIsBounded
  BY <1>1, <1>2 DEF TimeIsBounded, MainInTime, OthersInTime, InTime
<1>8. RequestsKeepTheirTime
  BY <1>1, <1>2 DEF RequestsKeepTheirTime, NothingIsCutOff, Promised, Active
<1> QED BY <1>3, <1>4, <1>5, <1>6, <1>7, <1>8 DEF LifecycleInv

LEMMA LifecycleGoesOn == LifecycleInv /\ [LifecycleNext]_lifecycleVars => LifecycleInv'
BY TypesStand, ProgressStands, ServersStand, NoPoolStands, MeasurementsStand, PoolStands, ReportsStand, FailuresStand,
   TimeStands, RequestsStand
DEF LifecycleInv

\* LifecycleInv: what is so at each step of a process, for every configuration, number of requests and timeout.
THEOREM ProcessInvariance == LifecycleSpec => []LifecycleInv
BY LifecycleStarts, LifecycleGoesOn, PTL DEF LifecycleSpec

\* NothingIsCutOff: APIServer.Run and Worker.Run give each request that was being handled its time.
THEOREM RequestsAreFinished == LifecycleSpec => []NothingIsCutOff
<1>1. LifecycleInv => NothingIsCutOff
  BY DEF LifecycleInv, RequestsKeepTheirTime
<1> QED BY <1>1, ProcessInvariance, PTL

\* ExitCodeIsRight: what main hands to os.Exit tells whether a server failed, also while another one shut down.
THEOREM FailuresAreTold == LifecycleSpec => []ExitCodeIsRight
<1>1. LifecycleInv => ExitCodeIsRight
  <2> SUFFICES ASSUME LifecycleInv, at = "exited" PROVE ExitCodeIsRight
    BY DEF ExitCodeIsRight
  <2> USE DEF StopSteps, StartSteps
  <2>1. /\ FailuresAreKept /\ ServersMatchProgress /\ NobodyUsesAClosedPool /\ ResourcesMatchProgress /\ results \in Results
        /\ result \in {"ok", "error"} /\ (ExitCode = 1 <=> result = "error") /\ (ExitCode = 0 <=> result = "ok")
        /\ kind \in {"identity-api", "identity-worker", "workspace-api"} /\ server \in [Server -> {"off", "serving", "failed", "closed"}]
        /\ (kind = "workspace-api" => servers = {"public"}) /\ ReportsAddUp /\ failed \subseteq servers
    BY KindsStand DEF LifecycleInv, LifecycleTypeOK, Results, ExitCode
  <2>2. ASSUME kind = "identity-api" PROVE ExitCode = 1 <=> failed # {} \/ server["public"] = "off"
    <3>1. CASE server["public"] = "off"
      BY <2>1, <2>2, <3>1 DEF FailuresAreKept
    <3>2. CASE server["public"] # "off"
      <4>1. results = <<>>
        BY <2>1, <2>2, <3>2 DEF LifecycleInv, ResourcesMatchProgress, NoPoolNoServer, Server, NobodyUsesAClosedPool
      <4>2. ~FailureWaits
        BY <2>1, <4>1, FailuresInChannel DEF FailureWaits, HasFailure
      <4> QED BY <2>1, <2>2, <3>2, <4>2 DEF FailuresAreKept
    <3> QED BY <3>1, <3>2
  <2>3. ASSUME kind = "workspace-api", server["public"] # "off"
        PROVE  (failed # {} => ExitCode = 1) /\ (ExitCode = 1 => failed # {} \/ elapsed >= StopTimeout)
    BY <2>1, <2>3 DEF FailuresAreKept
  <2>4. ExitCode = 0 => signalled
    BY <2>1 DEF FailuresAreKept
  <2> QED BY <2>2, <2>3, <2>4 DEF ExitCodeIsRight
<1> QED BY <1>1, ProcessInvariance, PTL

\* StopsInBoundedTime: a stop takes no longer than its deadlines together, but for the time in which the pool
\* waits for the record of a failed callback, which has none.
THEOREM StopIsBounded == LifecycleSpec => []StopsInBoundedTime
<1>1. LifecycleInv => StopsInBoundedTime
  <2> SUFFICES ASSUME LifecycleInv PROVE StopsInBoundedTime
    OBVIOUS
  <2>1. /\ MainInTime /\ elapsed \in Nat /\ timer \in Nat /\ at \in StartSteps \cup {"run", "step"} \cup StopSteps
    BY DEF LifecycleInv, LifecycleTypeOK, TimeIsBounded
  <2>2. /\ {StopTimeout, RequestTimeout, MetricTimeout, BrokerTimeout, DropTimeout, FlushTimeout, StepTimeout,
             WorkBy, StopBy, MetricBy, AnswerBy} \subseteq Nat
        /\ WorkBy <= StopBy /\ StopBy <= AnswerBy /\ (kind = "identity-worker" => MetricBy <= AnswerBy)
    BY Deadlines
  <2>3. elapsed <= AnswerBy + DropTimeout + FlushTimeout
    <3>1. CASE at \in StartSteps
      BY <2>1, <2>2, <3>1 DEF MainInTime
    <3>2. CASE at \in {"run", "step", "stop", "drain", "close", "leaving", "closing"}
      BY <2>1, <2>2, <3>2 DEF MainInTime
    <3>3. CASE at \in {"dropping", "flush", "exited"}
      BY <2>1, <2>2, <3>3 DEF MainInTime
    <3> QED BY <2>1, <3>1, <3>2, <3>3 DEF StopSteps
  <2>4. AnswerBy + DropTimeout + FlushTimeout
          = StopTimeout + DropTimeout + FlushTimeout
              + (IF kind = "identity-worker" THEN StepTimeout + MetricTimeout + BrokerTimeout ELSE RequestTimeout)
    BY <2>2 DEF AnswerBy, MetricBy, StopBy, WorkBy
  <2> QED BY <2>3, <2>4 DEF StopsInBoundedTime
<1> QED BY <1>1, ProcessInvariance, PTL

\* WholeOrNothing: NewAPIServer, NewWorker and NewServer serve with all that is configured, or close what they opened.
THEOREM NothingIsLeftOpen == LifecycleSpec => []WholeOrNothing
<1>1. LifecycleInv => WholeOrNothing
  <2> SUFFICES ASSUME LifecycleInv PROVE WholeOrNothing
    OBVIOUS
  <2>1. ResourcesMatchProgress /\ ServersMatchProgress /\ StepsFitKinds
    BY DEF LifecycleInv
  <2>2. at = "run" => open = Telemetry \cup Clients /\ pool = "open"
    BY <2>1 DEF ResourcesMatchProgress, OpenAt
  <2>3. ASSUME at = "run", kind = "identity-api"
        PROVE  /\ server["session"] = "off" => \A f \in SessionFields : config.session[f] = ""
               /\ config.origin # "" => config.clients # {}
    <3>1. LoadAPIConfig(config)
      BY <2>1, <2>2, <2>3 DEF StepsFitKinds
    <3>2. sessionRPCEnabled(config) # "invalid" /\ providerClients(config)
      BY <3>1 DEF LoadAPIConfig
    <3>3. ASSUME server["session"] = "off" PROVE \A f \in SessionFields : config.session[f] = ""
      <4>1. "session" \notin servers
        BY <2>1, <2>3, <3>3 DEF ServersMatchProgress, Server
      <4>2. sessionRPCEnabled(config) # "on"
        BY <2>3, <4>1 DEF servers
      <4>3. {f \in SessionFields : config.session[f] # ""} = {}
        BY <3>2, <4>2 DEF sessionRPCEnabled
      <4> QED BY <4>3
    <3> QED BY <3>2, <3>3 DEF providerClients
  <2>4. /\ at = "flush" => open = Telemetry /\ pool \in {"none", "closed"}
        /\ at = "exited" => open = {}
    BY <2>1 DEF ResourcesMatchProgress, OpenAt
  <2> QED BY <2>2, <2>3, <2>4 DEF WholeOrNothing
<1> QED BY <1>1, ProcessInvariance, PTL
=============================================================================
