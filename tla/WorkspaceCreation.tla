------------------------- MODULE WorkspaceCreation -------------------------
(***************************************************************************)
(* The two calls of the Workspace service.  CreateWorkspace checks the     *)
(* session and its arguments, then runs one READ COMMITTED transaction, a  *)
(* statement at a time, that takes an advisory lock, looks the idempotency *)
(* key up and creates the workspace.  Calls overlap, fail at any statement *)
(* and lose their answers; a client that retries is another call with the  *)
(* same key.  GetWorkspace checks the session and reads.                   *)
(*                                                                         *)
(* A workspace is named by the call that inserts it (gen_random_uuid).     *)
(***************************************************************************)
EXTENDS Integers, FiniteSets

CONSTANTS
  Call,       \* calls of CreateWorkspace, each also the name of the workspace it inserts
  Scope,      \* the pairs of a subject and a key
  Subject,    \* the authenticated callers
  NoCall,     \* the holder of a free lock, the workspace of a scope without a record
  ScopeOf,    \* the scope of a call
  KeyOf,      \* the text of its key
  TextOf,     \* the name that it asks for: its text without the spaces around it, its runes, UTF-8 or not
  MaxKey,     \* maxIdempotencyKeyBytes, 255
  MaxName,    \* maxWorkspaceNameRunes, 100
  SubjectOf,  \* the subject of a scope
  Lock,       \* advisory lock identifiers, 64 bits
  LockOf,     \* createWorkspaceLockID of a scope: a hash, so two scopes may share a lock
  Lifetime,   \* 24 hours
  MaxTime,    \* bound of the model: the clock stops here
  MaxFaults   \* bound of the model: errors and lost answers

ASSUME ConstantsAssumption ==
  /\ ScopeOf \in [Call -> Scope]
  /\ SubjectOf \in [Scope -> Subject]
  /\ LockOf \in [Scope -> Lock]
  /\ NoCall \notin Call
  /\ KeyOf \in [Call -> [length: Nat, visible: BOOLEAN]]
  /\ TextOf \in [Call -> [words: STRING, length: Nat, valid: BOOLEAN]]
  /\ Lifetime \in Nat \ {0}
  /\ {MaxTime, MaxFaults} \subseteq Nat

VARIABLES
  workspaces,  \* the rows of workspaces: the call that inserted each one
  owners,      \* workspace_memberships: pairs of a workspace and a subject
  creations,   \* workspace_creations: the record of each scope, or NoRecord
  lock,        \* the call whose transaction holds each advisory lock
  call,        \* the progress of each call and of its transaction
  active,      \* the subjects whose session Identity still accepts
  now,         \* the clock of the database
  faults       \* how many faults have occurred

tables == <<workspaces, owners, creations>>
environment == <<active, now, faults>>
vars == <<tables, lock, call, environment>>

\* The statement that a call runs next; those of Locked hold the advisory lock.
Locked == {"sweep", "find", "insert", "own", "record", "commitReplay", "commitCreation"}
Running == {"check", "lock"} \cup Locked
Done == {"created", "replayed", "aborted", "conflict", "unauthenticated", "invalid", "failed"}

NoRecord == [workspace |-> NoCall, since |-> 0]

CallState == [at: {"idle"} \cup Running \cup Done,
              swept: BOOLEAN,             \* its transaction has deleted the expired record
              found: Call \cup {NoCall},  \* the workspace that it replays
              since: 0..MaxTime,          \* completed_at of its record
              committed: 0..MaxTime,      \* when its record was committed
              late: BOOLEAN]              \* the session had ended when the call came

TypeOK ==
  /\ workspaces \subseteq Call
  /\ owners \subseteq Call \X Subject
  /\ creations \in [Scope -> [workspace: Call \cup {NoCall}, since: 0..MaxTime]]
  /\ lock \in [Lock -> Call \cup {NoCall}]
  /\ call \in [Call -> CallState]
  /\ active \subseteq Subject
  /\ now \in 0..MaxTime
  /\ faults \in 0..MaxFaults

Init ==
  /\ workspaces = {}
  /\ owners = {}
  /\ creations = [s \in Scope |-> NoRecord]
  /\ lock = [l \in Lock |-> NoCall]
  /\ call = [c \in Call |-> [at |-> "idle", swept |-> FALSE, found |-> NoCall,
                             since |-> 0, committed |-> 0, late |-> FALSE]]
  /\ active = Subject
  /\ now = 0
  /\ faults = 0

\* The name without the spaces around it, and whether NewWorkspace takes it.
NameOf == [c \in Call |-> TextOf[c].words]
NewWorkspace(c) == TextOf[c].valid /\ TextOf[c].length \in 1..MaxName

\* Given once, of visible characters only, and not too long.
ValidKey(c) == KeyOf[c].length \in 1..MaxKey /\ KeyOf[c].visible

Caller(c) == SubjectOf[ScopeOf[c]]
LockId(c) == LockOf[ScopeOf[c]]

GoTo(c, step) == call' = [call EXCEPT ![c].at = step]

\* Bug: pg_try_advisory_lock, which the end of the transaction does not release.
ReleaseBug(c) == lock' = [l \in Lock |-> IF lock[l] = c /\ call[c].at # "commitCreation" THEN NoCall ELSE lock[l]]

\* The end of a transaction, or of its connection, releases its advisory lock.
Release(c) == lock' = [l \in Lock |-> IF lock[l] = c THEN NoCall ELSE lock[l]]

-----------------------------------------------------------------------------
(* Admission.                                                              *)

Begin(c) ==
  /\ call[c].at = "idle"
  /\ call' = [call EXCEPT ![c] = [@ EXCEPT !.at = "check", !.late = Caller(c) \notin active]]
  /\ UNCHANGED <<tables, lock, environment>>

\* Identity is asked at every call, before the arguments are looked at; what it answers is
\* not looked at again.
CheckSession(c) ==
  /\ call[c].at = "check"
  /\ GoTo(c, IF Caller(c) \notin active THEN "unauthenticated"
             ELSE IF ValidKey(c) /\ NewWorkspace(c) THEN "lock" ELSE "invalid")
  /\ UNCHANGED <<tables, lock, environment>>

-----------------------------------------------------------------------------
(* The transaction.                                                        *)

\* The lock is tried, never waited for: an overlapping call is told ErrCreateInProgress.
TryCreateWorkspaceLock(c) ==
  /\ call[c].at = "lock"
  /\ \/ /\ lock[LockId(c)] = NoCall
        /\ lock' = [lock EXCEPT ![LockId(c)] = c]
        /\ GoTo(c, "sweep")
     \/ /\ lock[LockId(c)] # NoCall
        /\ GoTo(c, "aborted")
        /\ UNCHANGED lock
  /\ UNCHANGED <<tables, environment>>

\* Bug: the record expires when its last hour begins.
ExpiredBug(s) == creations[s].since + Lifetime - 1 <= now

Expired(s) == creations[s].since + Lifetime <= now

DeleteExpiredWorkspaceCreation(c) ==
  /\ call[c].at = "sweep"
  /\ call' = [call EXCEPT ![c] = [@ EXCEPT !.at = "find", !.swept = Expired(ScopeOf[c])]]
  /\ UNCHANGED <<tables, lock, environment>>

\* The record of the scope as the transaction of c reads it.
Visible(c) == IF call[c].swept THEN NoRecord ELSE creations[ScopeOf[c]]

\* Bug: the hash of the request is not compared.
SameRequestBug(c, w) == w # NoCall

\* The hash of the recorded name equals the hash of this one.
SameRequest(c, w) == w # NoCall /\ NameOf[w] = NameOf[c]

GetWorkspaceCreation(c) ==
  LET w == Visible(c).workspace IN
  /\ call[c].at = "find"
  /\ \/ /\ w = NoCall
        /\ GoTo(c, "insert")
        /\ UNCHANGED lock
     \/ /\ SameRequest(c, w)
        /\ call' = [call EXCEPT ![c] = [@ EXCEPT !.at = "commitReplay", !.found = w]]
        /\ UNCHANGED lock
     \/ /\ w # NoCall
        /\ ~SameRequest(c, w)
        /\ GoTo(c, "conflict")
        /\ Release(c)
  /\ UNCHANGED <<tables, environment>>

\* The three inserts of the transaction are visible to others when it commits.
CreateWorkspace(c) ==
  /\ call[c].at = "insert"
  /\ GoTo(c, "own")
  /\ UNCHANGED <<tables, lock, environment>>

CreateWorkspaceOwner(c) ==
  /\ call[c].at = "own"
  /\ GoTo(c, "record")
  /\ UNCHANGED <<tables, lock, environment>>

\* Stamped with the time of this statement; the primary key lets no second record in.
RecordWorkspaceCreation(c) ==
  /\ call[c].at = "record"
  /\ Visible(c) = NoRecord
  /\ call' = [call EXCEPT ![c] = [@ EXCEPT !.at = "commitCreation", !.since = now]]
  /\ UNCHANGED <<tables, lock, environment>>

CommitReplay(c) ==
  /\ call[c].at = "commitReplay"
  /\ GoTo(c, "replayed")
  /\ Release(c)
  /\ UNCHANGED <<tables, environment>>

\* What the transaction has inserted, and its deletion of an expired record.
CommitRows(c) ==
  /\ call[c].at = "commitCreation"
  /\ workspaces' = workspaces \cup {c}
  /\ owners' = owners \cup {<<c, Caller(c)>>}
  /\ creations' = [creations EXCEPT ![ScopeOf[c]] = [workspace |-> c, since |-> call[c].since]]
  /\ Release(c)
  /\ UNCHANGED <<active, now>>

CommitCreation(c) ==
  /\ CommitRows(c)
  /\ call' = [call EXCEPT ![c] = [@ EXCEPT !.at = "created", !.committed = now]]
  /\ UNCHANGED faults

-----------------------------------------------------------------------------
(* Reading.                                                                *)

\* The row of a workspace, for its members only.
GetWorkspaceForSubject(s, w) == w \in workspaces /\ <<w, s>> \in owners

\* What a read of workspace w finds at this moment: one statement, which changes nothing.
GetWorkspace(s, w) ==
  CASE s \notin active -> "unauthenticated"
    [] s \in active /\ GetWorkspaceForSubject(s, w) -> "found"
    [] OTHER -> "notFound"

-----------------------------------------------------------------------------
(* Faults and the environment.                                             *)

\* The commit happens, and its answer is lost on the way to the handler or the client.
LoseAnswer(c) ==
  /\ faults < MaxFaults
  /\ CommitRows(c)
  /\ call' = [call EXCEPT ![c] = [@ EXCEPT !.at = "failed", !.committed = now]]
  /\ faults' = faults + 1

\* An error, a deadline, a lost connection or a stopped process before the commit.
Fail(c) ==
  /\ faults < MaxFaults
  /\ call[c].at \in Running
  /\ GoTo(c, "failed")
  /\ Release(c)
  /\ faults' = faults + 1
  /\ UNCHANGED <<tables, active, now>>

EndSession(s) ==
  /\ s \in active
  /\ active' = active \ {s}
  /\ UNCHANGED <<tables, lock, call, now, faults>>

Tick ==
  /\ now < MaxTime
  /\ now' = now + 1
  /\ UNCHANGED <<tables, lock, call, active, faults>>

Step(c) ==
  \/ CheckSession(c)
  \/ TryCreateWorkspaceLock(c)
  \/ DeleteExpiredWorkspaceCreation(c)
  \/ GetWorkspaceCreation(c)
  \/ CreateWorkspace(c)
  \/ CreateWorkspaceOwner(c)
  \/ RecordWorkspaceCreation(c)
  \/ CommitReplay(c)
  \/ CommitCreation(c)

Next ==
  \/ \E c \in Call : Begin(c) \/ Step(c) \/ LoseAnswer(c) \/ Fail(c)
  \/ \E s \in Subject : EndSession(s)
  \/ Tick

Spec == Init /\ [][Next]_vars

-----------------------------------------------------------------------------
(* Safety.                                                                 *)

\* Bug: whatever rpcError does not know it calls Aborted.
rpcErrorBug(c) ==
  CASE call[c].at \in {"created", "replayed"} -> "OK"
    [] call[c].at = "unauthenticated" -> "Unauthenticated"
    [] call[c].at = "invalid" -> "InvalidArgument"
    [] call[c].at = "conflict" -> "AlreadyExists"
    [] call[c].at \in {"aborted", "failed"} -> "Aborted"
    [] OTHER -> "none"

\* What the client of a call is told.  "Unknown" stands for Internal, Unavailable,
\* DeadlineExceeded and Canceled, which do not tell how far the call came.
rpcError(c) ==
  CASE call[c].at \in {"created", "replayed"} -> "OK"
    [] call[c].at = "unauthenticated" -> "Unauthenticated"
    [] call[c].at = "invalid" -> "InvalidArgument"
    [] call[c].at = "conflict" -> "AlreadyExists"
    [] call[c].at = "aborted" -> "Aborted"
    [] call[c].at = "failed" -> "Unknown"
    [] OTHER -> "none"

\* The workspaces of a scope: those whose records have had it.
Made(s) == {w \in workspaces : ScopeOf[w] = s}

\* A key makes one workspace in the lifetime of its record (CreateWorkspace of the
\* repository): overlapping calls, retries and lost answers never make a second one.
OneWorkspacePerLifetime ==
  \A s \in Scope : \A v, w \in Made(s) :
    v = w \/ call[v].since + Lifetime <= call[w].since \/ call[w].since + Lifetime <= call[v].since

\* A workspace, its owner and its record appear together: a failure between the
\* three inserts leaves none of them behind.
AllOrNothing ==
  /\ \A w \in workspaces : \E s \in Subject : <<w, s>> \in owners
  /\ \A o \in owners : o[1] \in workspaces
  /\ \A s \in Scope : creations[s].workspace \in workspaces \cup {NoCall}
  /\ \A s \in Scope : Made(s) # {} => creations[s].workspace \in Made(s)

\* The insert of the record never meets another record of the key: whoever overlaps
\* was refused by the lock, so the primary key never turns a retry into an error.
NoKeyCollision == \A c \in Call : call[c].at \in {"insert", "own", "record", "commitCreation"} => Visible(c) = NoRecord

\* A key is refused only while a transaction runs: whatever ends the transaction of
\* a call, an error and a lost connection included, also gives its lock back.
LocksEndWithTransactions ==
  \A l \in Lock : lock[l] # NoCall => call[lock[l]].at \in Locked /\ LockId(lock[l]) = l

\* What the client of a call was told of.
Answered(c) == CASE call[c].at = "created" -> c
                 [] call[c].at = "replayed" -> call[c].found
                 [] OTHER -> NoCall

\* A call that came after the session ended makes no workspace and hears of none.
EndedSessionsGetNothing ==
  \A c \in Call : call[c].late => c \notin workspaces /\ Answered(c) = NoCall

(* The other parts of the inductive invariant.                             *)

\* A call has the lock of its scope for all of its transaction.
TransactionsAreLocked == \A c \in Call : call[c].at \in Locked => lock[LockId(c)] = c

\* What a transaction has read or deleted of the record of its scope is still so.
ReadsStayTrue ==
  \A c \in Call :
    LET record == creations[ScopeOf[c]] IN
    /\ call[c].at \in Locked \ {"sweep"} /\ call[c].swept => Expired(ScopeOf[c])
    /\ call[c].at = "commitReplay" => record.workspace = call[c].found /\ SameRequest(c, call[c].found)
    /\ call[c].at = "commitCreation" => /\ call[c].since <= now
                                        /\ record = NoRecord \/ record.since + Lifetime <= call[c].since

\* A workspace is that of its record, or older than that by a lifetime at least.
RecordsMatchWorkspaces ==
  /\ \A s \in Scope : creations[s] # NoRecord =>
       creations[s].workspace \in Made(s) /\ call[creations[s].workspace].since = creations[s].since
  /\ \A w \in workspaces :
       LET record == creations[ScopeOf[w]] IN
       /\ call[w].at \in {"created", "failed"} /\ <<w, Caller(w)>> \in owners
       /\ record # NoRecord /\ (record.workspace = w \/ call[w].since + Lifetime <= record.since)
  /\ \A o \in owners : o[1] \in workspaces /\ o[2] = Caller(o[1])

\* What a client was told of lasts, and one that came too late gets no further than the check.
AnswersStand ==
  \A c \in Call :
    /\ call[c].at = "created" => c \in workspaces
    /\ call[c].at = "replayed" => call[c].found \in Made(ScopeOf[c]) /\ NameOf[call[c].found] = NameOf[c]
    /\ call[c].late => /\ call[c].at \in {"check", "unauthenticated", "failed"}
                       /\ Caller(c) \notin active /\ c \notin workspaces

\* What the transactions of a key keep between them, whichever of them fails or is lost.
CreationInv ==
  /\ TypeOK
  /\ OneWorkspacePerLifetime
  /\ AllOrNothing
  /\ NoKeyCollision
  /\ LocksEndWithTransactions
  /\ EndedSessionsGetNothing
  /\ TransactionsAreLocked
  /\ ReadsStayTrue
  /\ RecordsMatchWorkspaces
  /\ AnswersStand

\* Whoever was told of a workspace, and still has its session, finds it, with the name
\* that it asked for, however its calls and retries interleave; nobody else finds it.
ReadsFindWhatWasAnswered ==
  /\ \A c \in Call : Answered(c) # NoCall =>
       /\ NameOf[Answered(c)] = NameOf[c]
       /\ GetWorkspace(Caller(c), Answered(c)) # "notFound"
  /\ \A s \in Subject, w \in Call : GetWorkspace(s, w) = "found" => s = Caller(w)

\* A client may take a refusal at its word: only an answer that does not tell how far the
\* call came leaves a workspace behind that the client has not been told of.
RefusalsAreFinal ==
  \A c \in Call : rpcError(c) \notin {"none", "OK", "Unknown"} => c \notin workspaces

-----------------------------------------------------------------------------
(* The abstract promise.                                                   *)

Told == [c \in Call |-> Answered(c)]

Once == INSTANCE CreateOnce WITH memory <- creations, told <- Told

\* Lock, lookup, inserts and commits implement a key that creates once.
ImplementsCreateOnce == Once!Spec
=============================================================================
