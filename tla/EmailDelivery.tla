---------------------------- MODULE EmailDelivery ----------------------------
(***************************************************************************)
(* The way of a code from the transaction that creates it to the mailbox:  *)
(* the outbox row, the relay that leases it and publishes it, the broker   *)
(* partition, the email worker that sends it under the lock of the account *)
(* and then commits its offset; and the queue of password-change notices,  *)
(* which the ticker loop of the same worker process empties.               *)
(*                                                                         *)
(* Several worker processes run at once, and each can stop at any point.   *)
(* The topic has one partition.  A lease of the outbox lapses at any time: *)
(* a process that is paused is not stopped by its 5 second deadline.       *)
(***************************************************************************)
EXTENDS Integers, Sequences, FiniteSets

CONSTANTS
  Challenge,        \* challenges, each with one outbox event
  Notice,           \* password-change notices
  Worker,           \* worker processes: ticker loop and email loop
  Nobody,           \* the claim of an outbox event that is free
  Gone,             \* the claim of a process that has stopped: its owner name is not used again
  Refused,          \* challenges that can never be sent: the mail server refuses the recipient,
                    \* or their material was protected with a key that the worker does not have
  ConnectionsFail,  \* whether a database connection can fail while its process goes on
  MaxFaults         \* bound of the model: crashes, rebalances, and leases and answers that a relay loses

ASSUME NamesAssumption ==
  /\ {Nobody, Gone} \cap Worker = {} /\ Nobody # Gone
  /\ Challenge \cap Notice = {} /\ Nobody \notin Challenge \cup Notice
ASSUME BoundsAssumption == MaxFaults \in Nat /\ ConnectionsFail \in BOOLEAN /\ Refused \subseteq Challenge

VARIABLES
  ended,       \* challenges replaced, consumed or guessed out, or of another account state
  expired,     \* challenges past expires_at
  material,    \* identity_challenge_deliveries: the encrypted codes
  queued,      \* outbox events without published_at
  published,   \* outbox events with published_at
  claim,       \* claim_owner of each event
  notices,     \* rows of identity_password_change_notices
  loop,        \* the ticker loop of each worker, and the row that it is at
  log,         \* the records of the partition, by their challenge
  committed,   \* the offset of the consumer group, as a count of records
  assigned,    \* the worker that the partition is assigned to
  position,    \* the records that each worker has fetched
  mail,        \* the email loop of each worker, and the offset of its record
  open,        \* workers whose delivery transaction is open at the database
  mailed,      \* challenges and notices accepted by the mail server at least once
  deliveries,  \* committed deliveries of each challenge
  faults       \* of MaxFaults

rows == <<ended, expired, material, notices>>
outbox == <<queued, published, claim>>
consumer == <<committed, assigned, position, mail, open, deliveries>>
vars == <<rows, outbox, loop, log, consumer, mailed, faults>>

LoopState == [at: {"relay", "notices"}, row: {Nobody}]
  \cup [at: {"publish", "mark"}, row: Challenge] \cup [at: {"send", "delete"}, row: Notice]
MailState == [at: {"idle", "open", "send", "delete", "commit"}, offset: Nat]

TypeOK ==
  /\ {ended, expired, material, queued, published} \subseteq SUBSET Challenge
  /\ claim \in [Challenge -> Worker \cup {Nobody, Gone}]
  /\ notices \subseteq Notice
  /\ loop \in [Worker -> LoopState]
  /\ log \in Seq(Challenge)
  /\ committed \in 0..Len(log)
  /\ assigned \in Worker
  /\ position \in [Worker -> 0..Len(log)]
  /\ mail \in [Worker -> MailState]
  /\ \A w \in Worker : mail[w].at # "idle" => mail[w].offset \in 1..Len(log)
  /\ open \subseteq Worker
  /\ mailed \subseteq Challenge \cup Notice
  /\ deliveries \in [Challenge -> Nat]
  /\ faults \in 0..MaxFaults

Idle == [at |-> "idle", offset |-> 0]

Init ==
  /\ ended = {} /\ expired = {} /\ material = {}
  /\ queued = {} /\ published = {} /\ notices = {}
  /\ claim = [c \in Challenge |-> Nobody]
  /\ loop = [w \in Worker |-> [at |-> "relay", row |-> Nobody]]
  /\ log = <<>>
  /\ committed = 0
  /\ assigned \in Worker
  /\ position = [w \in Worker |-> 0]
  /\ mail = [w \in Worker |-> Idle]
  /\ open = {}
  /\ mailed = {}
  /\ deliveries = [c \in Challenge |-> 0]
  /\ faults = 0

Created == queued \cup published

\* Bug: the expiry is not looked at.
TerminalBug(c) == c \in ended

Terminal(c) == c \in ended \cup expired

\* The challenge of the record that the email loop of w is at.
Code(w) == log[mail[w].offset]

\* Bug: the account and the challenge are read without FOR UPDATE.
LockedBug(c) == FALSE

\* A delivery in progress has the rows of the account and of the challenge.
Locked(c) == \E w \in open : Code(w) = c

Fault == faults < MaxFaults /\ faults' = faults + 1

-----------------------------------------------------------------------------
(* The API: codes and notices appear and codes stop being current.         *)

\* The challenge, its material and its event are of one transaction.
QueueCode(c) ==
  /\ c \notin Created
  /\ queued' = queued \cup {c}
  /\ material' = material \cup {c}
  /\ UNCHANGED <<ended, expired, published, claim, notices, loop, log, consumer, mailed, faults>>

\* Replacement, consumption, the fifth wrong guess, verification or claim, under the lock
\* of the account.  Some of them delete the material, some leave it to the purge.
EndCode(c) ==
  /\ c \in Created \ ended
  /\ ~Locked(c)
  /\ ended' = ended \cup {c}
  /\ material' \in {material, material \ {c}}
  /\ UNCHANGED <<expired, notices, outbox, loop, log, consumer, mailed, faults>>

Expire(c) ==
  /\ c \in Created \ expired
  /\ expired' = expired \cup {c}
  /\ UNCHANGED <<ended, material, notices, outbox, loop, log, consumer, mailed, faults>>

QueuePasswordChangeNotice(n) ==
  /\ n \notin notices \cup mailed
  /\ notices' = notices \cup {n}
  /\ UNCHANGED <<ended, expired, material, outbox, loop, log, consumer, mailed, faults>>

-----------------------------------------------------------------------------
(* The ticker loop: one outbox event, then one notice.                     *)

Step(w, at, row) == loop' = [loop EXCEPT ![w] = [at |-> at, row |-> row]]

ToNotices(w) == Step(w, "notices", Nobody)
ToRelay(w) == Step(w, "relay", Nobody)

\* The next due event with no lease, or with one that has lapsed.
ClaimOutboxEvent(w, c) ==
  /\ loop[w].at = "relay"
  /\ c \in queued
  /\ claim[c] = Nobody
  /\ claim' = [claim EXCEPT ![c] = w]
  /\ Step(w, "publish", c)
  /\ UNCHANGED <<rows, queued, published, log, consumer, mailed, faults>>

\* No event is due, or the claim fails.
NoEvent(w) ==
  /\ loop[w].at = "relay"
  /\ ToNotices(w)
  /\ UNCHANGED <<rows, outbox, log, consumer, mailed, faults>>

Publish(w) ==
  /\ loop[w].at = "publish"
  /\ log' = Append(log, loop[w].row)
  /\ Step(w, "mark", loop[w].row)
  /\ UNCHANGED <<rows, outbox, consumer, mailed, faults>>

\* ReleaseOutboxClaim is for the owner of the lease only.
ReleaseOutboxClaim(w, c) ==
  claim' = IF claim[c] = w THEN [claim EXCEPT ![c] = Nobody] ELSE claim

\* Bug: the loop goes on to its next tick when the relay reports an error.
PublishFailsBug(w) ==
  /\ loop[w].at = "publish"
  /\ ReleaseOutboxClaim(w, loop[w].row)
  /\ ToRelay(w)
  /\ UNCHANGED <<rows, queued, published, log, consumer, mailed, faults>>

\* The claim is released, or kept when the deadline has passed for the release too.
\* The record of a publication that failed may be in the log.
PublishFails(w) ==
  /\ loop[w].at = "publish"
  /\ ReleaseOutboxClaim(w, loop[w].row) \/ UNCHANGED claim
  /\ \/ UNCHANGED <<log, faults>>
     \/ Fault /\ log' = Append(log, loop[w].row)
  /\ ToNotices(w)
  /\ UNCHANGED <<rows, queued, published, consumer, mailed>>

MarkOutboxPublished(w) ==
  LET c == loop[w].row IN
  /\ loop[w].at = "mark"
  /\ \/ /\ claim[c] = w
        /\ queued' = queued \ {c}
        /\ published' = published \cup {c}
        /\ claim' = [claim EXCEPT ![c] = Nobody]
     \/ /\ claim[c] # w
        /\ UNCHANGED outbox
  /\ ToNotices(w)
  /\ UNCHANGED <<rows, log, consumer, mailed, faults>>

\* The mark fails: the event is published again when its lease lapses.
MarkFails(w) ==
  /\ loop[w].at = "mark"
  /\ Fault
  /\ ToNotices(w)
  /\ UNCHANGED <<rows, outbox, log, consumer, mailed>>

\* claimed_until passes.  It is a fault when the holder is still at the event.
LeaseLapses(c) ==
  /\ claim[c] # Nobody
  /\ IF \E w \in Worker : claim[c] = w /\ loop[w].at \in {"publish", "mark"} /\ loop[w].row = c
     THEN Fault
     ELSE UNCHANGED faults
  /\ claim' = [claim EXCEPT ![c] = Nobody]
  /\ UNCHANGED <<rows, queued, published, loop, log, consumer, mailed>>

\* OutboxRelay.RunOnce: an event that is claimed is published, and then marked or released.
RunOnce(w) ==
  \/ \E c \in Challenge : ClaimOutboxEvent(w, c)
  \/ NoEvent(w) \/ Publish(w) \/ PublishFails(w) \/ MarkOutboxPublished(w) \/ MarkFails(w)

\* SKIP LOCKED: a notice that another worker is sending is passed over.
LockNextPasswordChangeNotice(w, n) ==
  /\ loop[w].at = "notices"
  /\ n \in notices
  /\ \A v \in Worker : loop[v].row # n
  /\ Step(w, "send", n)
  /\ UNCHANGED <<rows, outbox, log, consumer, mailed, faults>>

NoNotice(w) ==
  /\ loop[w].at = "notices"
  /\ ToRelay(w)
  /\ UNCHANGED <<rows, outbox, log, consumer, mailed, faults>>

SendPasswordChangeNotice(w) ==
  /\ loop[w].at = "send"
  /\ mailed' = mailed \cup {loop[w].row}
  /\ Step(w, "delete", loop[w].row)
  /\ UNCHANGED <<rows, outbox, log, consumer, faults>>

DeletePasswordChangeNotice(w) ==
  /\ loop[w].at = "delete"
  /\ notices' = notices \ {loop[w].row}
  /\ ToRelay(w)
  /\ UNCHANGED <<ended, expired, material, outbox, log, consumer, mailed, faults>>

\* The mail is not accepted and the notice deferred, or the database fails.
DeferPasswordChangeNotice(w) ==
  /\ loop[w].at \in {"send", "delete"}
  /\ ToRelay(w)
  /\ UNCHANGED <<rows, outbox, log, consumer, mailed, faults>>

\* EmailWorker.DeliverPasswordChangeNotice: one due notice, or none.
DeliverPasswordChangeNotice(w) ==
  \/ \E n \in Notice : LockNextPasswordChangeNotice(w, n)
  \/ NoNotice(w) \/ SendPasswordChangeNotice(w) \/ DeletePasswordChangeNotice(w)
  \/ DeferPasswordChangeNotice(w)

-----------------------------------------------------------------------------
(* The email loop: one record, its delivery, its offset.                   *)

At(w, at) == mail' = [mail EXCEPT ![w].at = at]

Poll(w) ==
  /\ assigned = w
  /\ mail[w].at = "idle"
  /\ position[w] < Len(log)
  /\ mail' = [mail EXCEPT ![w] = [at |-> "open", offset |-> position[w] + 1]]
  /\ position' = [position EXCEPT ![w] = @ + 1]
  /\ UNCHANGED <<rows, outbox, loop, log, committed, assigned, open, mailed, deliveries, faults>>

\* WithCurrentDelivery up to the mail call: the locks, and the code that is still due.
OpenDelivery(w) ==
  LET c == Code(w) IN
  /\ mail[w].at = "open"
  /\ ~Locked(c)
  /\ \/ /\ Terminal(c)
        /\ material' = material \ {c}
        /\ At(w, "commit")
        /\ UNCHANGED open
     \/ /\ ~Terminal(c) /\ c \notin material
        /\ At(w, "commit")
        /\ UNCHANGED <<material, open>>
     \/ /\ ~Terminal(c) /\ c \in material
        /\ At(w, "send")
        /\ open' = open \cup {w}
        /\ UNCHANGED material
  /\ UNCHANGED <<ended, expired, notices, outbox, loop, log, committed, assigned, position,
                 mailed, deliveries, faults>>

\* DeliveryProtector.Open gives the address and the code, and the mail server takes them.
Deliverable(c) == c \notin Refused

\* The mail server has answered the end of the message.
SendEmail(w) ==
  /\ mail[w].at = "send"
  /\ Deliverable(Code(w))
  /\ mailed' = mailed \cup {Code(w)}
  /\ At(w, "delete")
  /\ UNCHANGED <<rows, outbox, loop, log, committed, assigned, position, open, deliveries, faults>>

\* Bug: the record that failed is not fetched again.
RewindBug(w) ==
  /\ mail' = [mail EXCEPT ![w] = Idle]
  /\ UNCHANGED position

\* SetOffsets goes back to the record that failed, while the partition is assigned.
Rewind(w) ==
  /\ mail' = [mail EXCEPT ![w] = Idle]
  /\ position' = IF assigned = w THEN [position EXCEPT ![w] = mail[w].offset - 1] ELSE position

DeleteChallengeDelivery(w) == material' = material \ {Code(w)}

\* The material goes in the transaction that locks the rows; its answer may be lost.
CommitDelivery(w) ==
  /\ mail[w].at = "delete"
  /\ w \in open
  /\ DeleteChallengeDelivery(w)
  /\ deliveries' = [deliveries EXCEPT ![Code(w)] = @ + 1]
  /\ open' = open \ {w}
  /\ \/ At(w, "commit") /\ UNCHANGED position
     \/ Rewind(w)
  /\ UNCHANGED <<ended, expired, notices, outbox, loop, log, committed, assigned, mailed, faults>>

\* An error of the database or the mail server, which may still accept the message, or a
\* material that does not open.
FailDelivery(w) ==
  /\ mail[w].at \in {"open", "send", "delete"}
  /\ \/ UNCHANGED mailed
     \/ mail[w].at = "send" /\ Deliverable(Code(w)) /\ mailed' = mailed \cup {Code(w)}
  /\ open' = open \ {w}
  /\ Rewind(w)
  /\ UNCHANGED <<rows, outbox, loop, log, committed, assigned, deliveries, faults>>

\* The handler of a record: a record with nothing to send ends in OpenDelivery.
HandleRecord(w) == OpenDelivery(w) \/ SendEmail(w) \/ CommitDelivery(w) \/ FailDelivery(w)

\* CommitRecords, which the group refuses to a worker that lost the partition.
CommitRecords(w) ==
  /\ mail[w].at = "commit"
  /\ assigned = w
  /\ committed' = mail[w].offset
  /\ mail' = [mail EXCEPT ![w] = Idle]
  /\ UNCHANGED <<rows, outbox, loop, log, assigned, position, open, mailed, deliveries, faults>>

CommitRecordsFails(w) ==
  /\ mail[w].at = "commit"
  /\ mail' = [mail EXCEPT ![w] = Idle]
  /\ UNCHANGED <<rows, outbox, loop, log, committed, assigned, position, open, mailed, deliveries, faults>>

\* Only a record whose handler has not failed has its offset committed.
ProcessRecord(w) == HandleRecord(w) \/ CommitRecords(w) \/ CommitRecordsFails(w)

\* PurgeTerminalDeliveries passes over the rows that are locked.
PurgeTerminal ==
  /\ material' = material \ {c \in material : Terminal(c) /\ ~Locked(c)}
  /\ UNCHANGED <<ended, expired, notices, outbox, loop, log, consumer, mailed, faults>>

-----------------------------------------------------------------------------
(* The environment.                                                        *)

\* The group gives the partition to w, which starts at the committed offset.
Rebalance(w) ==
  /\ Fault
  /\ assigned' = w
  /\ position' = [position EXCEPT ![w] = committed]
  /\ UNCHANGED <<rows, outbox, loop, log, committed, mail, open, mailed, deliveries>>

\* The database ends the transaction of w, which learns of it at its next statement.
LoseConnection(w) ==
  /\ ConnectionsFail
  /\ w \in open
  /\ open' = open \ {w}
  /\ UNCHANGED <<rows, outbox, loop, log, committed, assigned, position, mail, mailed, deliveries, faults>>

\* The process of w stops at any point and starts again under another owner name.
Crash(w) ==
  /\ Fault
  /\ ToRelay(w)
  /\ claim' = [c \in Challenge |-> IF claim[c] = w THEN Gone ELSE claim[c]]
  /\ mail' = [mail EXCEPT ![w] = Idle]
  /\ open' = open \ {w}
  /\ position' = [position EXCEPT ![w] = committed]
  /\ UNCHANGED <<rows, queued, published, log, committed, assigned, mailed, deliveries>>

-----------------------------------------------------------------------------
API ==
  \/ \E c \in Challenge : QueueCode(c) \/ EndCode(c) \/ Expire(c)
  \/ \E n \in Notice : QueuePasswordChangeNotice(n)

TickerStep(w) == RunOnce(w) \/ DeliverPasswordChangeNotice(w)

EmailStep(w) == Poll(w) \/ ProcessRecord(w)

Environment ==
  \/ \E c \in Challenge : LeaseLapses(c)
  \/ \E w \in Worker : Rebalance(w) \/ LoseConnection(w) \/ Crash(w)
  \/ PurgeTerminal

Next == API \/ (\E w \in Worker : TickerStep(w) \/ EmailStep(w)) \/ Environment

Spec == Init /\ [][Next]_vars

\* Both loops go on, the database and the mail server work again after every outage,
\* some event is claimed and some lease lapses in the end, and so does the code of a
\* recipient who is refused.
FairSpec ==
  /\ Spec
  /\ \A w \in Worker :
       /\ WF_vars(TickerStep(w)) /\ WF_vars(EmailStep(w))
       /\ SF_vars(\E c \in Challenge : ClaimOutboxEvent(w, c))
       /\ \A n \in Notice : /\ SF_vars(LockNextPasswordChangeNotice(w, n))
                            /\ SF_vars(loop[w].row = n /\ SendPasswordChangeNotice(w))
       /\ SF_vars(OpenDelivery(w)) /\ SF_vars(SendEmail(w)) /\ SF_vars(CommitDelivery(w))
  /\ WF_vars(\E c \in Challenge : LeaseLapses(c))
  /\ \A c \in Refused : WF_vars(Expire(c))

-----------------------------------------------------------------------------
(* What must hold.                                                         *)

\* A code that is still current and was never mailed has its material, and an event or a
\* record that is still to be handled: no crash, failure, lapsed lease or rebalance loses it.
NothingIsLost ==
  \A c \in Created : ~Terminal(c) /\ c \notin mailed =>
    /\ c \in material
    /\ c \in queued \/ \E i \in committed + 1..Len(log) : log[i] = c

\* A code is delivered in at most one committed transaction, although its event may be
\* published many times and two workers may have its records: what is mailed twice is
\* explained by a failure after the mail server accepted it.
OneDelivery == \A c \in Challenge : deliveries[c] <= 1

\* While its transaction is open, a send is of a code that was not replaced, consumed or
\* claimed: the lock is kept through the mail call.
OpenSendsAreCurrent == \A w \in open : Code(w) \notin ended

(* The other parts of the inductive invariant.                             *)

\* A code that the consumer has done with.
Handled(c) == c \in mailed \/ Terminal(c)

\* Material, records, events in a relay and deliveries are of codes that were created.
OnlyCreated ==
  /\ material \subseteq Created
  /\ \A i \in 1..Len(log) : log[i] \in Created
  /\ \A w \in Worker : loop[w].at \in {"publish", "mark"} => loop[w].row \in Created
  /\ \A c \in Challenge : deliveries[c] > 0 => c \in Created

\* An event that is marked, or is about to be, has a record; a code keeps its material until it is done with.
EventsReachTheLog ==
  /\ \A c \in Created \ queued : \E i \in 1..Len(log) : log[i] = c
  /\ \A w \in Worker : loop[w].at = "mark" => \E i \in 1..Len(log) : log[i] = loop[w].row
  /\ \A c \in Created : Handled(c) \/ c \in material

\* The consumer has done with every record below the committed offset, below the record that a
\* worker is at, and up to the position of the worker that has the partition.
OffsetsFollowDeliveries ==
  /\ \A i \in 1..committed : Handled(log[i])
  /\ \A w \in Worker : mail[w].at # "idle" => \A i \in 1..mail[w].offset - 1 : Handled(log[i])
  /\ \A w \in Worker : /\ mail[w].at = "delete" => Code(w) \in mailed
                       /\ mail[w].at = "commit" => Handled(Code(w))
  /\ \A i \in 1..position[assigned] :
       Handled(log[i]) \/ (mail[assigned].at # "idle" /\ i = mail[assigned].offset)

\* An open delivery has the row of a code that is not delivered, and no other has it.
OpenDeliveriesExclude ==
  /\ \A w \in open : mail[w].at \in {"send", "delete"} /\ Code(w) \in material
  /\ \A v, w \in open : Code(v) = Code(w) => v = w
  /\ \A c \in material : deliveries[c] = 0

\* The worker that is at a notice has its row to itself, and deletes it only after the mail.
NoticesExclude ==
  /\ \A w \in Worker : loop[w].at \in {"send", "delete"} => loop[w].row \in notices
  /\ \A w \in Worker : loop[w].at = "delete" => loop[w].row \in mailed
  /\ \A v, w \in Worker : loop[v].at \in {"send", "delete"} /\ loop[w].at \in {"send", "delete"}
                            /\ loop[v].row = loop[w].row => v = w

\* What holds in every state.
DeliveryInv ==
  /\ TypeOK
  /\ NothingIsLost
  /\ OneDelivery
  /\ OnlyCreated
  /\ EventsReachTheLog
  /\ OffsetsFollowDeliveries
  /\ OpenDeliveriesExclude
  /\ OpenSendsAreCurrent
  /\ NoticesExclude

-----------------------------------------------------------------------------
(* The courier that the workers implement: the two loops of a worker carry *)
(* one item each, a code or a notice, and hold it by the locks of its rows. *)

Carrier == Worker \X {"mail", "ticker"}

Hand == [k \in Carrier |->
  CASE k[2] = "mail" /\ mail[k[1]].at \in {"send", "delete"} -> Code(k[1])
    [] k[2] = "ticker" /\ loop[k[1]].at \in {"send", "delete"} -> loop[k[1]].row
    [] OTHER -> Nobody]

Holders == {k \in Carrier : IF k[2] = "mail" THEN k[1] \in open ELSE loop[k[1]].at \in {"send", "delete"}}

Mailer == INSTANCE Courier WITH
  Item <- Challenge \cup Notice, Nothing <- Nobody, HoldsBreak <- ConnectionsFail,
  accepted <- Created \cup notices \cup (mailed \cap Notice), withdrawn <- ended, lapsed <- expired,
  kept <- material \cup notices, hand <- Hand, holders <- Holders

\* Outbox, partition, locks and notices, with all that fails, deliver as the courier promises:
\* what is mailed was due when its rows were locked, and only what was mailed or is void goes.
ImplementsCourier == Mailer!Spec

\* When the broker accepts records again and again, every code is mailed or ends, also
\* behind one whose recipient the mail server refuses: its retries stop at its expiry.
EveryCodeEnds ==
  (\A w \in Worker : SF_vars(Publish(w))) =>
    \A c \in Challenge : c \in Created ~> c \in mailed \/ Terminal(c)

\* Every notice is mailed, also while the broker refuses every record.
EveryNoticeIsSent == \A n \in Notice : n \in notices ~> n \in mailed
=============================================================================
