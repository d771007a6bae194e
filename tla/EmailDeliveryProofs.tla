------------------------- MODULE EmailDeliveryProofs -------------------------
(* Theorems about EmailDelivery, for every value of its constants: any      *)
(* number of codes, notices, worker processes and faults.                   *)
EXTENDS EmailDelivery, TLAPS

\* All that is kept by every step, the notices apart.
IInv ==
  TypeOK /\ NothingIsLost /\ OnlyCreated /\ EventsReachTheLog /\ OffsetsFollowDeliveries /\ OpenDeliveriesExclude
  /\ OpenSendsAreCurrent /\ OneDelivery

\* The parts from which the rest of it follows.
Parts ==
  TypeOK /\ OnlyCreated /\ EventsReachTheLog /\ OffsetsFollowDeliveries /\ OpenDeliveriesExclude
  /\ OpenSendsAreCurrent /\ OneDelivery

-----------------------------------------------------------------------------
(* The log and the types.                                                  *)

\* The log only grows at its end.
LEMMA LogGrows ==
  ASSUME log \in Seq(Challenge), NEW c \in Challenge, log' = Append(log, c)
  PROVE  /\ log' \in Seq(Challenge) /\ Len(log') = Len(log) + 1 /\ log'[Len(log) + 1] = c
         /\ \A i \in 1..Len(log) : log'[i] = log[i]
  OBVIOUS

\* Where the ticker loop of w goes.
LEMMA StepType ==
  ASSUME loop \in [Worker -> LoopState], NEW w \in Worker, NEW at, NEW row,
         [at |-> at, row |-> row] \in LoopState, Step(w, at, row)
  PROVE  /\ loop' \in [Worker -> LoopState]
         /\ loop'[w] = [at |-> at, row |-> row] /\ \A v \in Worker \ {w} : loop'[v] = loop[v]
  BY DEF Step

\* A row of the loop is of the table that its statement is about.
LEMMA RowType ==
  ASSUME TypeOK, NEW w \in Worker
  PROVE  /\ loop[w].at \in {"publish", "mark"} => loop[w].row \in Challenge
         /\ loop[w].at \in {"send", "delete"} => loop[w].row \in Notice
  BY DEF TypeOK, LoopState

\* Where the email loop of w goes.
LEMMA MailType ==
  ASSUME TypeOK, NEW w \in Worker, NEW at \in {"idle", "open", "send", "delete", "commit"},
         NEW offset \in Nat, at # "idle" => offset \in 1..Len(log),
         mail' = [mail EXCEPT ![w] = [at |-> at, offset |-> offset]]
  PROVE  /\ mail' \in [Worker -> MailState]
         /\ \A v \in Worker : mail'[v].at # "idle" => mail'[v].offset \in 1..Len(log)
         /\ mail'[w] = [at |-> at, offset |-> offset] /\ \A v \in Worker \ {w} : mail'[v] = mail[v]
<1>1. mail \in [Worker -> MailState] /\ \A v \in Worker : mail[v].at # "idle" => mail[v].offset \in 1..Len(log)
  BY DEF TypeOK
<1>2. [at |-> at, offset |-> offset] \in MailState
  BY DEF MailState
<1>3. mail'[w] = [at |-> at, offset |-> offset] /\ \A v \in Worker \ {w} : mail'[v] = mail[v]
  BY <1>1
<1>4. mail' \in [Worker -> MailState]
  BY <1>1, <1>2
<1> QED BY <1>1, <1>3, <1>4

\* At keeps the record.
LEMMA AtType ==
  ASSUME TypeOK, NEW w \in Worker, mail[w].at # "idle",
         NEW at \in {"open", "send", "delete", "commit"}, At(w, at)
  PROVE  /\ mail' \in [Worker -> MailState]
         /\ \A v \in Worker : mail'[v].at # "idle" => mail'[v].offset \in 1..Len(log)
         /\ mail'[w] = [at |-> at, offset |-> mail[w].offset]
         /\ \A v \in Worker \ {w} : mail'[v] = mail[v]
<1>1. mail \in [Worker -> MailState] /\ mail[w].offset \in 1..Len(log) /\ mail[w].offset \in Nat
  BY DEF TypeOK, MailState
<1>2. mail' = [mail EXCEPT ![w] = [at |-> at, offset |-> mail[w].offset]]
  <2>1. [mail[w] EXCEPT !.at = at] = [at |-> at, offset |-> mail[w].offset]
    BY <1>1 DEF MailState
  <2>2. mail' = [mail EXCEPT ![w] = [mail[w] EXCEPT !.at = at]]
    BY DEF At
  <2> QED BY <2>1, <2>2
<1> QED BY <1>1, <1>2, MailType

\* Rewind leaves a worker that has its partition before the record that failed.
LEMMA RewindType ==
  ASSUME TypeOK, NEW w \in Worker, mail[w].at # "idle", Rewind(w)
  PROVE  /\ mail' \in [Worker -> MailState]
         /\ \A v \in Worker : mail'[v].at # "idle" => mail'[v].offset \in 1..Len(log)
         /\ mail'[w] = Idle /\ \A v \in Worker \ {w} : mail'[v] = mail[v]
         /\ position' \in [Worker -> 0..Len(log)]
         /\ assigned = w => position'[w] = mail[w].offset - 1
         /\ \A v \in Worker \ {w} : position'[v] = position[v]
<1>1. mail' = [mail EXCEPT ![w] = [at |-> "idle", offset |-> 0]]
  BY DEF Rewind, Idle
<1>2. /\ mail' \in [Worker -> MailState]
      /\ \A v \in Worker : mail'[v].at # "idle" => mail'[v].offset \in 1..Len(log)
      /\ mail'[w] = Idle /\ \A v \in Worker \ {w} : mail'[v] = mail[v]
  BY <1>1, MailType DEF Idle
<1>3. position \in [Worker -> 0..Len(log)] /\ mail[w].offset - 1 \in 0..Len(log)
  BY DEF TypeOK
<1> QED BY <1>2, <1>3 DEF Rewind

-----------------------------------------------------------------------------
(* The API and the relay: the consumer stands still.                       *)

\* Rows, records and events of a step that the consumer has no part in keep what was so of them.
LEMMA ConsumerStands ==
  ASSUME IInv, TypeOK', UNCHANGED consumer,
         ended \subseteq ended', expired \subseteq expired', mailed \subseteq mailed',
         Created \subseteq Created', material' \subseteq Created',
         \A w \in open : Code(w) \in material => Code(w) \in material',
         \A w \in open : Code(w) \in ended' => Code(w) \in ended,
         \A c \in material' : c \in material \/ c \notin Created,
         \A c \in Created' : Handled(c)' \/ c \in material',
         Len(log') >= Len(log), \A i \in 1..Len(log) : log'[i] = log[i],
         \A i \in 1..Len(log') : log'[i] \in Created',
         \A c \in Created' \ queued' : (\E i \in 1..Len(log) : log[i] = c) \/ (\E i \in 1..Len(log') : log'[i] = c),
         \A w \in Worker : loop'[w].at \in {"publish", "mark"} => loop'[w].row \in Created',
         \A w \in Worker : loop'[w].at = "mark" => \E i \in 1..Len(log') : log'[i] = loop'[w].row
  PROVE  /\ OnlyCreated' /\ EventsReachTheLog' /\ OffsetsFollowDeliveries'
         /\ OpenDeliveriesExclude' /\ OpenSendsAreCurrent'
<1>1. TypeOK /\ Len(log) \in Nat /\ Len(log') \in Nat
  BY DEF IInv, TypeOK
<1>2. /\ UNCHANGED <<committed, assigned, position, mail, open, deliveries>>
      /\ \A w \in Worker : position[w] \in 0..Len(log) /\ (mail[w].at # "idle" => mail[w].offset \in 1..Len(log))
      /\ committed \in 0..Len(log) /\ assigned \in Worker /\ open \subseteq Worker
      /\ deliveries \in [Challenge -> Nat] /\ material \subseteq Challenge /\ Created' \subseteq Challenge
  BY <1>1 DEF TypeOK, consumer, Created
<1>3. \A w \in Worker : mail[w].at # "idle" => Code(w)' = Code(w)
  BY <1>2 DEF Code
<1>4. \A c : Handled(c) => Handled(c)'
  BY DEF Handled, Terminal
<1>5. OnlyCreated'
  BY <1>2 DEF IInv, OnlyCreated
<1>6. EventsReachTheLog'
  <2>1. \A c \in Created' \ queued' : \E i \in 1..Len(log') : log'[i] = c
    BY <1>1
  <2> QED BY <2>1 DEF EventsReachTheLog
<1>7. OffsetsFollowDeliveries'
  <2>1. \A i \in 1..Len(log) : Handled(log[i]) => Handled(log[i])'
    BY DEF Handled, Terminal
  <2>2. \A w \in Worker : Handled(Code(w)) /\ mail[w].at # "idle" => Handled(Code(w))'
    BY <1>3 DEF Handled, Terminal
  <2>3. OffsetsFollowDeliveries
    BY DEF IInv
  <2>4. \A i \in 1..committed' : Handled(log[i])'
    BY <1>1, <1>2, <2>1, <2>3 DEF OffsetsFollowDeliveries
  <2>5. \A w \in Worker : mail'[w].at # "idle" => \A i \in 1..mail'[w].offset - 1 : Handled(log[i])'
    BY <1>1, <1>2, <2>1, <2>3 DEF OffsetsFollowDeliveries
  <2>6. \A w \in Worker : /\ mail'[w].at = "delete" => Code(w)' \in mailed'
                          /\ mail'[w].at = "commit" => Handled(Code(w))'
    BY <1>2, <1>3, <2>2, <2>3 DEF OffsetsFollowDeliveries
  <2>7. \A i \in 1..position'[assigned'] :
          Handled(log[i])' \/ (mail'[assigned'].at # "idle" /\ i = mail'[assigned'].offset)
    BY <1>1, <1>2, <2>1, <2>3 DEF OffsetsFollowDeliveries
  <2> QED BY <2>4, <2>5, <2>6, <2>7 DEF OffsetsFollowDeliveries
<1>8. OpenDeliveriesExclude'
  BY <1>1, <1>2, <1>3 DEF IInv, OpenDeliveriesExclude, OnlyCreated
<1>9. OpenSendsAreCurrent'
  BY <1>2, <1>3 DEF IInv, OpenDeliveriesExclude, OpenSendsAreCurrent
<1> QED BY <1>5, <1>6, <1>7, <1>8, <1>9

\* What the parts say together: nothing is lost, and a code is delivered at most once.
LEMMA PartsSuffice == Parts => IInv
<1> SUFFICES ASSUME Parts PROVE IInv
  OBVIOUS
<1> USE DEF Parts
<1>1. ASSUME NEW c \in Created, ~Handled(c)
      PROVE  c \in material /\ (c \in queued \/ \E i \in committed + 1..Len(log) : log[i] = c)
  <2>1. c \in material
    BY <1>1 DEF EventsReachTheLog
  <2>2. ASSUME c \notin queued PROVE \E i \in committed + 1..Len(log) : log[i] = c
    <3>1. PICK i \in 1..Len(log) : log[i] = c
      BY <2>2 DEF EventsReachTheLog
    <3>2. i \notin 1..committed
      BY <1>1, <3>1 DEF OffsetsFollowDeliveries
    <3>3. committed \in Nat /\ Len(log) \in Nat
      BY DEF TypeOK
    <3>4. i \in committed + 1..Len(log)
      BY <3>2, <3>3
    <3> QED BY <3>1, <3>4
  <2> QED BY <2>1, <2>2
<1>2. NothingIsLost
  BY <1>1 DEF NothingIsLost, Handled
<1> QED BY <1>2 DEF IInv

\* The same of the state after a step.
LEMMA PartsSufficeThen == Parts' => IInv'
<1>1. (Parts => IInv)'
  BY PartsSuffice, PTL
<1> QED BY <1>1

\* A step of the ticker loop of w: what it publishes was created, what it marks is in the log.
LEMMA TickerStands ==
  ASSUME IInv, NEW w \in Worker, NEW at, NEW row, [at |-> at, row |-> row] \in LoopState, Step(w, at, row),
         UNCHANGED <<ended, expired, material, consumer>>,
         mailed \subseteq mailed', mailed' \subseteq Challenge \cup Notice, notices' \subseteq Notice,
         faults' \in 0..MaxFaults, claim' \in [Challenge -> Worker \cup {Nobody, Gone}],
         queued' \subseteq queued, Created' = Created,
         log' = log \/ \E c \in Created : log' = Append(log, c),
         at = "publish" => row \in Created, at = "mark" => \E i \in 1..Len(log') : log'[i] = row,
         \A c \in queued \ queued' : \E i \in 1..Len(log) : log[i] = c
  PROVE  IInv'
<1>1. /\ TypeOK /\ OnlyCreated /\ EventsReachTheLog /\ OneDelivery /\ OpenDeliveriesExclude
      /\ Created \subseteq Challenge
  BY DEF IInv, TypeOK, Created
<1>2. /\ log' \in Seq(Challenge) /\ Len(log) \in Nat /\ Len(log') \in Nat /\ Len(log') >= Len(log)
      /\ \A i \in 1..Len(log) : log'[i] = log[i]
      /\ \A i \in 1..Len(log') : log'[i] \in Created
  <2>1. log \in Seq(Challenge) /\ \A i \in 1..Len(log) : log[i] \in Created
    BY <1>1 DEF TypeOK, OnlyCreated
  <2>2. CASE log' = log
    BY <2>1, <2>2
  <2>3. CASE \E c \in Created : log' = Append(log, c)
    <3>1. PICK c \in Created : log' = Append(log, c)
      BY <2>3
    <3>2. /\ log' \in Seq(Challenge) /\ Len(log') = Len(log) + 1 /\ log'[Len(log) + 1] = c
          /\ \A i \in 1..Len(log) : log'[i] = log[i]
      BY <1>1, <2>1, <3>1, LogGrows
    <3> QED BY <2>1, <3>2
  <2> QED BY <2>2, <2>3
<1>3. /\ loop' \in [Worker -> LoopState]
      /\ loop'[w] = [at |-> at, row |-> row] /\ \A v \in Worker \ {w} : loop'[v] = loop[v]
  <2>1. loop \in [Worker -> LoopState]
    BY <1>1 DEF TypeOK
  <2> QED BY <2>1, StepType
<1>4. TypeOK'
  <2>1. {ended, expired, material, queued, published}' \subseteq SUBSET Challenge
    BY <1>1 DEF TypeOK, Created
  <2> QED BY <1>1, <1>2, <1>3, <2>1 DEF TypeOK, consumer
<1>5. \A c \in Created' \ queued' : \E i \in 1..Len(log) : log[i] = c
  BY <1>1 DEF EventsReachTheLog
<1>6. \A v \in Worker : loop'[v].at \in {"publish", "mark"} => loop'[v].row \in Created'
  BY <1>1, <1>2, <1>3 DEF OnlyCreated
<1>7. \A v \in Worker : loop'[v].at = "mark" => \E i \in 1..Len(log') : log'[i] = loop'[v].row
  <2> SUFFICES ASSUME NEW v \in Worker, loop'[v].at = "mark"
               PROVE  \E i \in 1..Len(log') : log'[i] = loop'[v].row
    OBVIOUS
  <2>1. CASE v = w
    BY <1>3, <2>1
  <2>2. CASE v # w
    BY <1>1, <1>2, <1>3, <2>2 DEF EventsReachTheLog
  <2> QED BY <2>1, <2>2
<1>8. \A c \in Created' : Handled(c)' \/ c \in material'
  BY <1>1 DEF EventsReachTheLog, Handled, Terminal
<1>9. material' \subseteq Created' /\ material' \subseteq material
  BY <1>1 DEF OnlyCreated
<1>10. /\ OnlyCreated' /\ EventsReachTheLog' /\ OffsetsFollowDeliveries'
       /\ OpenDeliveriesExclude' /\ OpenSendsAreCurrent'
  BY <1>2, <1>4, <1>5, <1>6, <1>7, <1>8, <1>9, ConsumerStands
<1>11. OneDelivery'
  BY <1>1 DEF OneDelivery, consumer
<1> QED BY <1>4, <1>10, <1>11, PartsSufficeThen DEF Parts

\* Lease, publication and mark of an event, each with its failures, and the turn of a notice.
LEMMA TickerKeepsIInv ==
  ASSUME IInv, NEW w \in Worker, TickerStep(w)
  PROVE  IInv'
<1>1. /\ TypeOK /\ OnlyCreated /\ EventsReachTheLog
      /\ loop[w].at \in {"publish", "mark"} => loop[w].row \in Created /\ loop[w].row \in Challenge
      /\ loop[w].at \in {"send", "delete"} => loop[w].row \in Notice
  BY RowType DEF IInv, OnlyCreated
<1>2. /\ mailed \subseteq Challenge \cup Notice /\ notices \subseteq Notice /\ faults \in 0..MaxFaults
      /\ claim \in [Challenge -> Worker \cup {Nobody, Gone}]
      /\ queued \subseteq Challenge /\ published \subseteq Challenge
  BY <1>1 DEF TypeOK
<1>3. /\ [at |-> "relay", row |-> Nobody] \in LoopState /\ [at |-> "notices", row |-> Nobody] \in LoopState
      /\ \A c \in Challenge : /\ [at |-> "publish", row |-> c] \in LoopState
                              /\ [at |-> "mark", row |-> c] \in LoopState
      /\ \A n \in Notice : [at |-> "send", row |-> n] \in LoopState /\ [at |-> "delete", row |-> n] \in LoopState
  BY DEF LoopState
<1>4. ASSUME Fault PROVE faults' \in 0..MaxFaults
  BY <1>2, <1>4, BoundsAssumption DEF Fault
<1>5. ASSUME NEW c \in Challenge, ClaimOutboxEvent(w, c) PROVE IInv'
  <2>1. claim' \in [Challenge -> Worker \cup {Nobody, Gone}]
    BY <1>2, <1>5 DEF ClaimOutboxEvent
  <2> QED BY <1>2, <1>3, <1>5, <2>1, TickerStands DEF ClaimOutboxEvent, rows, Created
<1>6. CASE NoEvent(w)
  BY <1>2, <1>3, <1>6, TickerStands DEF NoEvent, ToNotices, rows, outbox, Created
<1>7. CASE Publish(w)
  <2>1. loop[w].row \in Created /\ loop[w].row \in Challenge /\ log' = Append(log, loop[w].row)
    BY <1>1, <1>7 DEF Publish
  <2>2. \E i \in 1..Len(log') : log'[i] = loop[w].row
    <3>1. log \in Seq(Challenge)
      BY <1>1 DEF TypeOK
    <3>2. Len(log') = Len(log) + 1 /\ log'[Len(log) + 1] = loop[w].row /\ Len(log) \in Nat
      BY <2>1, <3>1, LogGrows
    <3> QED BY <3>2
  <2> QED BY <1>2, <1>3, <1>7, <2>1, <2>2, TickerStands DEF Publish, rows, outbox, Created
<1>8. CASE PublishFails(w)
  <2>1. claim' \in [Challenge -> Worker \cup {Nobody, Gone}]
    BY <1>1, <1>2, <1>8 DEF PublishFails, ReleaseOutboxClaim
  <2>2. faults' \in 0..MaxFaults
    BY <1>2, <1>4, <1>8 DEF PublishFails
  <2>3. log' = log \/ \E c \in Created : log' = Append(log, c)
    BY <1>1, <1>8 DEF PublishFails
  <2> QED BY <1>2, <1>3, <1>8, <2>1, <2>2, <2>3, TickerStands DEF PublishFails, ToNotices, rows, Created
<1>9. CASE MarkOutboxPublished(w)
  <2>1. claim' \in [Challenge -> Worker \cup {Nobody, Gone}]
    BY <1>2, <1>9 DEF MarkOutboxPublished, outbox
  <2>2. /\ queued' \subseteq queued /\ Created' = Created
        /\ \A c \in queued \ queued' : c = loop[w].row /\ loop[w].at = "mark"
    BY <1>1, <1>2, <1>9 DEF MarkOutboxPublished, outbox, Created
  <2>3. \A c \in queued \ queued' : \E i \in 1..Len(log) : log[i] = c
    BY <1>1, <2>2 DEF EventsReachTheLog
  <2> QED BY <1>2, <1>3, <1>9, <2>1, <2>2, <2>3, TickerStands DEF MarkOutboxPublished, ToNotices, rows
<1>10. CASE MarkFails(w)
  BY <1>2, <1>3, <1>4, <1>10, TickerStands DEF MarkFails, ToNotices, rows, outbox, Created
<1>11. ASSUME NEW n \in Notice, LockNextPasswordChangeNotice(w, n) PROVE IInv'
  BY <1>2, <1>3, <1>11, TickerStands DEF LockNextPasswordChangeNotice, rows, outbox, Created
<1>12. CASE NoNotice(w) \/ DeferPasswordChangeNotice(w)
  BY <1>2, <1>3, <1>12, TickerStands
     DEF NoNotice, DeferPasswordChangeNotice, ToRelay, rows, outbox, Created
<1>13. CASE SendPasswordChangeNotice(w)
  <2>1. loop[w].row \in Notice
    BY <1>1, <1>13 DEF SendPasswordChangeNotice
  <2> QED BY <1>2, <1>3, <1>13, <2>1, TickerStands DEF SendPasswordChangeNotice, rows, outbox, Created
<1>14. CASE DeletePasswordChangeNotice(w)
  BY <1>2, <1>3, <1>14, TickerStands DEF DeletePasswordChangeNotice, ToRelay, rows, outbox, Created
<1> QED BY <1>5, <1>6, <1>7, <1>8, <1>9, <1>10, <1>11, <1>12, <1>13, <1>14
        DEF TickerStep, RunOnce, DeliverPasswordChangeNotice

\* Codes and notices appear, end and expire, leases lapse, and the purge runs.
LEMMA TablesKeepIInv ==
  ASSUME IInv,
         \/ \E c \in Challenge : QueueCode(c) \/ EndCode(c) \/ Expire(c) \/ LeaseLapses(c)
         \/ \E n \in Notice : QueuePasswordChangeNotice(n)
         \/ PurgeTerminal
  PROVE  IInv'
<1>1. /\ TypeOK /\ OnlyCreated /\ EventsReachTheLog /\ OpenDeliveriesExclude /\ OneDelivery
      /\ log \in Seq(Challenge) /\ Len(log) \in Nat /\ Created \subseteq Challenge /\ material \subseteq Created
  BY DEF IInv, TypeOK, OnlyCreated, Created
<1>2. UNCHANGED <<log, loop, consumer, mailed>>
  BY DEF QueueCode, EndCode, Expire, LeaseLapses, QueuePasswordChangeNotice, PurgeTerminal
<1>3. ASSUME TypeOK', ended \subseteq ended', expired \subseteq expired',
             Created \subseteq Created', material' \subseteq Created',
             \A w \in open : Code(w) \in material => Code(w) \in material',
             \A w \in open : Code(w) \in ended' => Code(w) \in ended,
             \A c \in material' : c \in material \/ c \notin Created,
             \A c \in Created' : Handled(c)' \/ c \in material',
             \A c \in Created' \ queued' : c \in Created \ queued
      PROVE  IInv'
  <2>1. /\ \A c \in Created' \ queued' : \E i \in 1..Len(log) : log[i] = c
        /\ \A i \in 1..Len(log') : log'[i] \in Created'
        /\ \A w \in Worker : loop'[w].at \in {"publish", "mark"} => loop'[w].row \in Created'
        /\ \A w \in Worker : loop'[w].at = "mark" => \E i \in 1..Len(log') : log'[i] = loop'[w].row
        /\ log' = log /\ mailed \subseteq mailed' /\ UNCHANGED consumer
    BY <1>1, <1>2, <1>3 DEF EventsReachTheLog, OnlyCreated
  <2>2. /\ OnlyCreated' /\ EventsReachTheLog' /\ OffsetsFollowDeliveries'
        /\ OpenDeliveriesExclude' /\ OpenSendsAreCurrent'
    BY <1>1, <1>3, <2>1, ConsumerStands
  <2>3. OneDelivery'
    BY <1>1, <1>2 DEF OneDelivery, consumer
  <2> QED BY <1>3, <2>2, <2>3, PartsSufficeThen DEF Parts
<1>4. \A c \in Created : Handled(c) \/ c \in material
  BY <1>1 DEF EventsReachTheLog
<1>5. ASSUME NEW c \in Challenge, QueueCode(c) PROVE IInv'
  <2>1. TypeOK'
    BY <1>1, <1>2, <1>5 DEF TypeOK, QueueCode, consumer
  <2>2. Created' = Created \cup {c} /\ queued' = queued \cup {c} /\ material' = material \cup {c} /\ c \notin Created
    BY <1>5 DEF QueueCode, Created
  <2>3. UNCHANGED <<ended, expired>>
    BY <1>5 DEF QueueCode
  <2>4. \A d \in Created' : Handled(d)' \/ d \in material'
    BY <1>2, <1>4, <2>2, <2>3 DEF Handled, Terminal
  <2> QED BY <1>1, <1>3, <2>1, <2>2, <2>3, <2>4
<1>6. ASSUME NEW c \in Challenge, EndCode(c) PROVE IInv'
  <2>1. TypeOK'
    BY <1>1, <1>2, <1>6 DEF TypeOK, EndCode, consumer, outbox
  <2>2. /\ UNCHANGED <<Created, queued, expired>> /\ ended' = ended \cup {c}
        /\ material' \in {material, material \ {c}} /\ \A w \in open : Code(w) # c
    BY <1>6 DEF EndCode, outbox, Created, Locked
  <2>3. \A d \in Created' : Handled(d)' \/ d \in material'
    BY <1>2, <1>4, <2>2 DEF Handled, Terminal
  <2> QED BY <1>1, <1>3, <2>1, <2>2, <2>3
<1>7. ASSUME NEW c \in Challenge, Expire(c) \/ LeaseLapses(c) PROVE IInv'
  <2>1. TypeOK'
    <3>1. CASE Expire(c)
      BY <1>1, <1>2, <3>1 DEF TypeOK, Expire, consumer, outbox
    <3>2. CASE LeaseLapses(c)
      <4>1. claim' \in [Challenge -> Worker \cup {Nobody, Gone}]
        BY <1>1, <3>2 DEF TypeOK, LeaseLapses
      <4>2. faults' \in 0..MaxFaults
        BY <1>1, <3>2, BoundsAssumption DEF TypeOK, LeaseLapses, Fault
      <4> QED BY <1>1, <1>2, <3>2, <4>1, <4>2 DEF TypeOK, LeaseLapses, rows, consumer
    <3> QED BY <1>7, <3>1, <3>2
  <2>2. UNCHANGED <<Created, queued, ended, material>> /\ expired \subseteq expired'
    BY <1>7 DEF Expire, LeaseLapses, rows, outbox, Created
  <2>3. \A d \in Created' : Handled(d)' \/ d \in material'
    BY <1>2, <1>4, <2>2 DEF Handled, Terminal
  <2> QED BY <1>1, <1>3, <2>1, <2>2, <2>3
<1>8. ASSUME NEW n \in Notice, QueuePasswordChangeNotice(n) PROVE IInv'
  <2>1. TypeOK'
    BY <1>1, <1>2, <1>8 DEF TypeOK, QueuePasswordChangeNotice, consumer, outbox
  <2>2. UNCHANGED <<Created, queued, ended, expired, material>>
    BY <1>8 DEF QueuePasswordChangeNotice, outbox, Created
  <2>3. \A d \in Created' : Handled(d)' \/ d \in material'
    BY <1>2, <1>4, <2>2 DEF Handled, Terminal
  <2> QED BY <1>1, <1>3, <2>1, <2>2, <2>3
<1>9. CASE PurgeTerminal
  <2>1. TypeOK'
    BY <1>1, <1>2, <1>9 DEF TypeOK, PurgeTerminal, consumer, outbox
  <2>2. /\ UNCHANGED <<Created, queued, ended, expired>> /\ material' \subseteq material
        /\ \A c \in material \ material' : Terminal(c) /\ \A w \in open : Code(w) # c
    BY <1>9 DEF PurgeTerminal, outbox, Created, Locked
  <2>3. \A d \in Created' : Handled(d)' \/ d \in material'
    BY <1>2, <1>4, <2>2 DEF Handled, Terminal
  <2> QED BY <1>1, <1>3, <2>1, <2>2, <2>3
<1> QED BY <1>5, <1>6, <1>7, <1>8, <1>9

-----------------------------------------------------------------------------
(* The email loop.                                                         *)

\* A step of the email loop of w: it may only take the material of a code that is done with
\* and that no other worker has, and the offsets must follow.
LEMMA LoopStands ==
  ASSUME IInv, NEW w \in Worker, TypeOK', UNCHANGED <<ended, expired, queued, published, log>>,
         mailed \subseteq mailed', material' \subseteq material,
         \A v \in Worker \ {w} : mail'[v] = mail[v] /\ (v \in open' <=> v \in open),
         \A v \in Worker : loop'[v] = loop[v] \/ loop'[v].at \in {"relay", "notices"},
         \A c \in material \ material' : Handled(c)' /\ \A v \in open' : Code(v)' # c,
         \A c \in Challenge : deliveries'[c] = deliveries[c] \/ (c \in material \ material' /\ deliveries'[c] = 1),
         w \in open' => /\ mail'[w].at \in {"send", "delete"}
                        /\ Code(w)' \in material /\ Code(w) \notin ended /\ Code(w)' = Code(w)
                        /\ \A v \in open \ {w} : Code(v) # Code(w),
         OffsetsFollowDeliveries'
  PROVE  IInv'
<1>1. /\ TypeOK /\ OnlyCreated /\ EventsReachTheLog /\ OpenDeliveriesExclude /\ OneDelivery /\ OpenSendsAreCurrent
      /\ open \subseteq Worker /\ deliveries \in [Challenge -> Nat] /\ Created' = Created /\ queued' = queued
      /\ Created \subseteq Challenge
  BY DEF IInv, TypeOK, Created
<1>2. open' \subseteq Worker
  BY DEF TypeOK
<1>3. \A v \in Worker \ {w} : Code(v)' = Code(v)
  BY DEF Code
<1>4. OnlyCreated'
  BY <1>1 DEF OnlyCreated
<1>5. EventsReachTheLog'
  <2>1. \A c \in Created : Handled(c)' \/ c \in material'
    BY <1>1 DEF EventsReachTheLog, Handled, Terminal
  <2> QED BY <1>1, <2>1 DEF EventsReachTheLog
<1>6. OpenDeliveriesExclude'
  <2>1. \A v \in open' : mail'[v].at \in {"send", "delete"} /\ Code(v)' \in material'
    BY <1>1, <1>2, <1>3 DEF OpenDeliveriesExclude
  <2>2. \A u, v \in open' : Code(u)' = Code(v)' => u = v
    BY <1>1, <1>2, <1>3 DEF OpenDeliveriesExclude
  <2>3. \A c \in material' : deliveries'[c] = 0
    BY <1>1 DEF OpenDeliveriesExclude, TypeOK
  <2> QED BY <2>1, <2>2, <2>3 DEF OpenDeliveriesExclude
<1>7. OpenSendsAreCurrent'
  BY <1>1, <1>2, <1>3 DEF OpenSendsAreCurrent
<1>8. OneDelivery'
  BY <1>1 DEF OneDelivery
<1> QED BY <1>4, <1>5, <1>6, <1>7, <1>8, PartsSufficeThen DEF Parts

\* What a step of the email loop of w, or of the group about w, leaves of the offsets.
LEMMA OffsetsStand ==
  ASSUME IInv, NEW w \in Worker, TypeOK', UNCHANGED <<ended, expired, log>>, mailed \subseteq mailed',
         assigned' \in {assigned, w},
         \A v \in Worker \ {w} : mail'[v] = mail[v] /\ position'[v] = position[v],
         \A i \in 1..committed' : Handled(log[i])',
         mail'[w].at # "idle" => \A i \in 1..mail'[w].offset - 1 : Handled(log[i])',
         mail'[w].at = "delete" => Code(w)' \in mailed',
         mail'[w].at = "commit" => Handled(Code(w))',
         assigned' = w => \A i \in 1..position'[w] :
           Handled(log[i])' \/ (mail'[w].at # "idle" /\ i = mail'[w].offset)
  PROVE  OffsetsFollowDeliveries'
<1>1. OffsetsFollowDeliveries /\ TypeOK
  BY DEF IInv
<1>2. \A c : Handled(c) => Handled(c)'
  BY DEF Handled, Terminal
<1>3. \A v \in Worker \ {w} : Code(v)' = Code(v) /\ (Handled(Code(v)) => Handled(Code(v))')
  BY DEF Code, Handled, Terminal
<1>4. \A i : Handled(log[i]) => Handled(log[i])'
  BY DEF Handled, Terminal
<1>5. \A v \in Worker : mail'[v].at # "idle" => \A i \in 1..mail'[v].offset - 1 : Handled(log[i])'
  BY <1>1, <1>4 DEF OffsetsFollowDeliveries
<1>6. \A v \in Worker : /\ mail'[v].at = "delete" => Code(v)' \in mailed'
                        /\ mail'[v].at = "commit" => Handled(Code(v))'
  BY <1>1, <1>3 DEF OffsetsFollowDeliveries
<1>7. ASSUME NEW i \in 1..position'[assigned']
      PROVE  Handled(log[i])' \/ (mail'[assigned'].at # "idle" /\ i = mail'[assigned'].offset)
  <2>1. CASE assigned' = w
    BY <1>7, <2>1
  <2>2. CASE assigned' # w
    <3>1. assigned' = assigned /\ assigned \in Worker \ {w} /\ i \in 1..position[assigned]
      BY <1>1, <1>7, <2>2 DEF TypeOK
    <3> QED BY <1>1, <1>4, <3>1 DEF OffsetsFollowDeliveries
  <2> QED BY <2>1, <2>2
<1>8. \A i \in 1..position'[assigned'] :
        Handled(log[i])' \/ (mail'[assigned'].at # "idle" /\ i = mail'[assigned'].offset)
  BY <1>7
<1>9. \A i \in 1..committed' : Handled(log[i])'
  OBVIOUS
<1> QED BY <1>5, <1>6, <1>8, <1>9 DEF OffsetsFollowDeliveries

\* What is known of the record that the email loop of w is at.
LEMMA AtRecord ==
  ASSUME IInv, NEW w \in Worker, mail[w].at # "idle"
  PROVE  /\ mail[w].offset \in 1..Len(log) /\ Code(w) \in Created /\ Code(w) \in Challenge
         /\ \A i \in 1..mail[w].offset - 1 : Handled(log[i])
         /\ Handled(Code(w)) \/ Code(w) \in material
  BY DEF IInv, TypeOK, OnlyCreated, EventsReachTheLog, OffsetsFollowDeliveries, Code, Created

\* A statement of the delivery of w that goes on with its record.
LEMMA OffsetsAt ==
  ASSUME IInv, NEW w \in Worker, TypeOK', UNCHANGED <<ended, expired, log, committed, assigned, position>>,
         mailed \subseteq mailed', mail[w].at # "idle",
         NEW at \in {"open", "send", "delete", "commit"}, At(w, at),
         at = "delete" => Code(w) \in mailed',
         at = "commit" => Handled(Code(w))'
  PROVE  OffsetsFollowDeliveries' /\ Code(w)' = Code(w)
<1>1. /\ mail'[w] = [at |-> at, offset |-> mail[w].offset] /\ \A v \in Worker \ {w} : mail'[v] = mail[v]
      /\ mail'[w].at = at /\ mail'[w].offset = mail[w].offset
  <2>1. TypeOK
    BY DEF IInv
  <2>2. mail'[w] = [at |-> at, offset |-> mail[w].offset] /\ \A v \in Worker \ {w} : mail'[v] = mail[v]
    BY <2>1, AtType
  <2> QED BY <2>2
<1>2. Code(w)' = Code(w)
  BY <1>1 DEF Code
<1>3. \A i : Handled(log[i]) => Handled(log[i])'
  BY DEF Handled, Terminal
<1>4. OffsetsFollowDeliveries
  BY DEF IInv
<1>5. \A i \in 1..committed' : Handled(log[i])'
  BY <1>3, <1>4 DEF OffsetsFollowDeliveries
<1>6. \A i \in 1..mail'[w].offset - 1 : Handled(log[i])'
  BY <1>1, <1>3, <1>4 DEF OffsetsFollowDeliveries
<1>7. assigned' = w => \A i \in 1..position'[w] :
        Handled(log[i])' \/ (mail'[w].at # "idle" /\ i = mail'[w].offset)
  BY <1>1, <1>3, <1>4 DEF OffsetsFollowDeliveries
<1> QED BY <1>1, <1>2, <1>5, <1>6, <1>7, OffsetsStand

\* The end of a record that failed: it will be fetched again, or is not this worker's any more.
LEMMA OffsetsRewind ==
  ASSUME IInv, NEW w \in Worker, TypeOK', UNCHANGED <<ended, expired, log, committed, assigned>>,
         mailed \subseteq mailed', mail[w].at # "idle", Rewind(w)
  PROVE  OffsetsFollowDeliveries'
<1>1. /\ mail'[w].at = "idle" /\ \A v \in Worker \ {w} : mail'[v] = mail[v]
      /\ \A v \in Worker \ {w} : position'[v] = position[v]
      /\ assigned = w => position'[w] = mail[w].offset - 1
  BY RewindType DEF IInv, Idle
<1>2. \A i : Handled(log[i]) => Handled(log[i])'
  BY DEF Handled, Terminal
<1>3. OffsetsFollowDeliveries
  BY DEF IInv
<1>4. \A i \in 1..committed' : Handled(log[i])'
  BY <1>2, <1>3 DEF OffsetsFollowDeliveries
<1>5. assigned' = w => \A i \in 1..position'[w] : Handled(log[i])'
  BY <1>1, <1>2, <1>3 DEF OffsetsFollowDeliveries
<1> QED BY <1>1, <1>4, <1>5, OffsetsStand

\* The types of what the email loop writes.
LEMMA LoopTypes ==
  ASSUME TypeOK, UNCHANGED <<ended, expired, notices, outbox, loop, log>>, material' \subseteq material,
         mailed' \subseteq mailed \cup Challenge, faults' \in 0..MaxFaults,
         mail' \in [Worker -> MailState],
         \A v \in Worker : mail'[v].at # "idle" => mail'[v].offset \in 1..Len(log),
         position' \in [Worker -> 0..Len(log)], committed' \in 0..Len(log), assigned' \in Worker,
         open' \subseteq Worker, deliveries' \in [Challenge -> Nat]
  PROVE  TypeOK'
  BY DEF TypeOK, outbox

\* A fetch of the next record.
LEMMA PollKeepsIInv ==
  ASSUME IInv, NEW w \in Worker, Poll(w)
  PROVE  IInv'
<1>1. /\ TypeOK /\ OffsetsFollowDeliveries /\ OpenDeliveriesExclude
      /\ position[w] \in 0..Len(log) /\ Len(log) \in Nat /\ position[w] < Len(log)
      /\ assigned = w /\ mail[w].at = "idle"
  BY DEF IInv, TypeOK, Poll
<1>2. /\ UNCHANGED <<ended, expired, material, notices, queued, published, claim, loop, log, committed, assigned,
                     open, mailed, deliveries, faults>>
      /\ mail' = [mail EXCEPT ![w] = [at |-> "open", offset |-> position[w] + 1]]
      /\ position' = [position EXCEPT ![w] = position[w] + 1]
  BY DEF Poll, rows, outbox
<1>3. /\ mail' \in [Worker -> MailState]
      /\ \A v \in Worker : mail'[v].at # "idle" => mail'[v].offset \in 1..Len(log)
      /\ mail'[w] = [at |-> "open", offset |-> position[w] + 1] /\ \A v \in Worker \ {w} : mail'[v] = mail[v]
  <2>1. position[w] + 1 \in 1..Len(log) /\ position[w] + 1 \in Nat
    BY <1>1
  <2> QED BY <1>1, <1>2, <2>1, MailType
<1>4. /\ position' \in [Worker -> 0..Len(log)] /\ position'[w] = position[w] + 1
      /\ \A v \in Worker \ {w} : position'[v] = position[v]
  BY <1>1, <1>2 DEF TypeOK
<1>5. TypeOK'
  BY <1>1, <1>2, <1>3, <1>4, LoopTypes DEF TypeOK, outbox
<1>6. OffsetsFollowDeliveries'
  <2>1. \A i : Handled(log[i]) => Handled(log[i])'
    BY <1>2 DEF Handled, Terminal
  <2>2. \A i \in 1..committed' : Handled(log[i])'
    BY <1>1, <1>2, <2>1 DEF OffsetsFollowDeliveries
  <2>3. \A i \in 1..position[w] : Handled(log[i])'
    BY <1>1, <2>1 DEF OffsetsFollowDeliveries
  <2>4. mail'[w].at = "open" /\ mail'[w].offset = position[w] + 1
    BY <1>3
  <2>5. \A i \in 1..position'[w] : Handled(log[i])' \/ i = mail'[w].offset
    BY <1>1, <1>4, <2>3, <2>4
  <2>6. \A i \in 1..mail'[w].offset - 1 : Handled(log[i])'
    BY <1>1, <2>3, <2>4
  <2> QED BY <1>1, <1>2, <1>3, <1>4, <1>5, <2>2, <2>4, <2>5, <2>6, OffsetsStand
<1>7. w \notin open
  BY <1>1 DEF OpenDeliveriesExclude
<1> QED BY <1>2, <1>3, <1>5, <1>6, <1>7, LoopStands

\* The locks and the first look: a code that is done with is passed over, another is held for its send.
LEMMA OpenDeliveryKeepsIInv ==
  ASSUME IInv, NEW w \in Worker, OpenDelivery(w)
  PROVE  IInv'
<1> DEFINE c == Code(w)
<1>1. /\ TypeOK /\ OpenDeliveriesExclude /\ open \subseteq Worker /\ w \notin open
      /\ mail[w].at = "open" /\ ~Locked(c) /\ faults \in 0..MaxFaults
  BY DEF IInv, TypeOK, OpenDelivery, OpenDeliveriesExclude
<1>2. UNCHANGED <<ended, expired, notices, outbox, loop, log, committed, assigned, position, mailed, deliveries, faults>>
  BY DEF OpenDelivery
<1>3. c \in Challenge /\ (Handled(c) \/ c \in material)
  BY <1>1, AtRecord
<1>4. ASSUME NEW at \in {"send", "commit"}, At(w, at), material' \subseteq material, open' \subseteq Worker,
             at = "commit" => Handled(c)
      PROVE  TypeOK' /\ OffsetsFollowDeliveries' /\ Code(w)' = c /\ mail'[w].at = at
                     /\ \A v \in Worker \ {w} : mail'[v] = mail[v]
  <2>1. /\ mail' \in [Worker -> MailState]
        /\ \A v \in Worker : mail'[v].at # "idle" => mail'[v].offset \in 1..Len(log)
        /\ mail'[w] = [at |-> at, offset |-> mail[w].offset]
        /\ \A v \in Worker \ {w} : mail'[v] = mail[v]
    BY <1>1, <1>4, AtType
  <2>2. TypeOK'
    BY <1>1, <1>2, <1>4, <2>1, LoopTypes DEF TypeOK
  <2>3. at = "commit" => Handled(Code(w))'
    <3>1. Code(w)' = Code(w)
      BY <1>2, <2>1 DEF Code
    <3> QED BY <1>2, <1>4, <3>1 DEF Handled, Terminal
  <2> QED BY <1>1, <1>2, <1>4, <2>1, <2>2, <2>3, OffsetsAt
<1>5. CASE Terminal(c) /\ material' = material \ {c} /\ At(w, "commit") /\ UNCHANGED open
  <2>1. /\ TypeOK' /\ OffsetsFollowDeliveries' /\ \A v \in Worker \ {w} : mail'[v] = mail[v]
    BY <1>1, <1>4, <1>5 DEF Handled
  <2>2. \A d \in material \ material' : Handled(d)' /\ \A v \in open' : Code(v)' # d
    BY <1>1, <1>2, <1>5, <2>1 DEF Handled, Terminal, Locked, Code
  <2> QED BY <1>1, <1>2, <1>5, <2>1, <2>2, LoopStands DEF outbox
<1>6. CASE ~Terminal(c) /\ c \notin material /\ At(w, "commit") /\ UNCHANGED <<material, open>>
  <2>1. /\ TypeOK' /\ OffsetsFollowDeliveries' /\ \A v \in Worker \ {w} : mail'[v] = mail[v]
    BY <1>1, <1>3, <1>4, <1>6
  <2> QED BY <1>1, <1>2, <1>6, <2>1, LoopStands DEF outbox
<1>7. CASE ~Terminal(c) /\ c \in material /\ At(w, "send") /\ open' = open \cup {w} /\ UNCHANGED material
  <2>1. /\ TypeOK' /\ OffsetsFollowDeliveries' /\ Code(w)' = c /\ mail'[w].at = "send"
        /\ \A v \in Worker \ {w} : mail'[v] = mail[v]
    BY <1>1, <1>4, <1>7
  <2>2. c \notin ended /\ \A v \in open \ {w} : Code(v) # c
    BY <1>1, <1>7 DEF Terminal, Locked
  <2> QED BY <1>1, <1>2, <1>7, <2>1, <2>2, LoopStands DEF outbox
<1> QED BY <1>5, <1>6, <1>7 DEF OpenDelivery

\* The mail call.
LEMMA SendEmailKeepsIInv ==
  ASSUME IInv, NEW w \in Worker, SendEmail(w)
  PROVE  IInv'
<1>1. /\ TypeOK /\ OpenDeliveriesExclude /\ OpenSendsAreCurrent /\ open \subseteq Worker
      /\ mail[w].at = "send" /\ faults \in 0..MaxFaults
  BY DEF IInv, TypeOK, SendEmail
<1>2. /\ UNCHANGED <<ended, expired, material, notices, outbox, loop, log, committed, assigned, position, open,
                     deliveries, faults>>
      /\ mailed' = mailed \cup {Code(w)} /\ At(w, "delete")
  BY DEF SendEmail, rows
<1>3. Code(w) \in Challenge
  BY <1>1, AtRecord
<1>4. /\ mail' \in [Worker -> MailState]
      /\ \A v \in Worker : mail'[v].at # "idle" => mail'[v].offset \in 1..Len(log)
      /\ mail'[w] = [at |-> "delete", offset |-> mail[w].offset]
      /\ \A v \in Worker \ {w} : mail'[v] = mail[v]
  BY <1>1, <1>2, AtType
<1>5. TypeOK'
  BY <1>1, <1>2, <1>3, <1>4, LoopTypes DEF TypeOK
<1>6. OffsetsFollowDeliveries' /\ Code(w)' = Code(w)
  BY <1>1, <1>2, <1>5, OffsetsAt
<1>7. w \in open => /\ Code(w) \in material /\ Code(w) \notin ended
                    /\ \A v \in open \ {w} : Code(v) # Code(w)
  BY DEF IInv, OpenDeliveriesExclude, OpenSendsAreCurrent
<1>8. mail'[w].at = "delete"
  BY <1>4
<1> QED BY <1>1, <1>2, <1>4, <1>5, <1>6, <1>7, <1>8, LoopStands DEF outbox

\* The material goes with the commit of its delivery, whether or not the answer arrives.
LEMMA CommitDeliveryKeepsIInv ==
  ASSUME IInv, NEW w \in Worker, CommitDelivery(w)
  PROVE  IInv'
<1> DEFINE c == Code(w)
<1>1. /\ TypeOK /\ OpenDeliveriesExclude /\ OffsetsFollowDeliveries /\ open \subseteq Worker /\ w \in open
      /\ mail[w].at = "delete" /\ mail[w].at # "idle" /\ faults \in 0..MaxFaults
      /\ deliveries \in [Challenge -> Nat] /\ position \in [Worker -> 0..Len(log)]
  BY DEF IInv, TypeOK, CommitDelivery
<1>2. /\ UNCHANGED <<ended, expired, notices, outbox, loop, log, committed, assigned, mailed, faults>>
      /\ material' = material \ {c} /\ open' = open \ {w}
      /\ deliveries' = [deliveries EXCEPT ![c] = deliveries[c] + 1]
  BY DEF CommitDelivery, DeleteChallengeDelivery
<1>3. c \in Challenge /\ c \in material /\ deliveries[c] = 0 /\ c \in mailed /\ \A v \in open \ {w} : Code(v) # c
  BY <1>1, AtRecord DEF OpenDeliveriesExclude, OffsetsFollowDeliveries
<1>4. /\ deliveries' \in [Challenge -> Nat] /\ deliveries'[c] = 1
      /\ \A d \in Challenge \ {c} : deliveries'[d] = deliveries[d]
  BY <1>1, <1>2, <1>3
<1>5. /\ TypeOK' /\ OffsetsFollowDeliveries' /\ \A v \in Worker \ {w} : mail'[v] = mail[v]
  <2>1. CASE At(w, "commit") /\ UNCHANGED position
    <3>1. /\ mail' \in [Worker -> MailState]
          /\ \A v \in Worker : mail'[v].at # "idle" => mail'[v].offset \in 1..Len(log)
          /\ mail'[w] = [at |-> "commit", offset |-> mail[w].offset]
          /\ \A v \in Worker \ {w} : mail'[v] = mail[v]
      BY <1>1, <2>1, AtType
    <3>2. TypeOK'
      BY <1>1, <1>2, <1>4, <2>1, <3>1, LoopTypes DEF TypeOK
    <3>3. Handled(Code(w))'
      <4>1. Code(w)' = c
        BY <1>2, <3>1 DEF Code
      <4> QED BY <1>2, <1>3, <4>1 DEF Handled
    <3> QED BY <1>1, <1>2, <2>1, <3>1, <3>2, <3>3, OffsetsAt
  <2>2. CASE Rewind(w)
    <3>1. /\ mail' \in [Worker -> MailState]
          /\ \A v \in Worker : mail'[v].at # "idle" => mail'[v].offset \in 1..Len(log)
          /\ position' \in [Worker -> 0..Len(log)]
          /\ \A v \in Worker \ {w} : mail'[v] = mail[v]
      BY <1>1, <2>2, RewindType
    <3>2. TypeOK'
      BY <1>1, <1>2, <1>4, <3>1, LoopTypes DEF TypeOK
    <3> QED BY <1>1, <1>2, <2>2, <3>1, <3>2, OffsetsRewind
  <2> QED BY <2>1, <2>2 DEF CommitDelivery
<1>6. \A d \in material \ material' : Handled(d)' /\ \A v \in open' : Code(v)' # d
  BY <1>1, <1>2, <1>3, <1>5 DEF Handled, Code
<1> QED BY <1>1, <1>2, <1>3, <1>4, <1>5, <1>6, LoopStands DEF outbox

\* An error of the database or of the mail server, which may still have taken the message.
LEMMA FailDeliveryKeepsIInv ==
  ASSUME IInv, NEW w \in Worker, FailDelivery(w)
  PROVE  IInv'
<1>1. /\ TypeOK /\ open \subseteq Worker /\ mail[w].at # "idle" /\ faults \in 0..MaxFaults
  BY DEF IInv, TypeOK, FailDelivery
<1>2. /\ UNCHANGED <<ended, expired, material, notices, outbox, loop, log, committed, assigned, deliveries, faults>>
      /\ mailed' \in {mailed, mailed \cup {Code(w)}} /\ open' = open \ {w} /\ Rewind(w)
  BY DEF FailDelivery, rows
<1>3. Code(w) \in Challenge
  BY <1>1, AtRecord
<1>4. /\ mail' \in [Worker -> MailState]
      /\ \A v \in Worker : mail'[v].at # "idle" => mail'[v].offset \in 1..Len(log)
      /\ position' \in [Worker -> 0..Len(log)]
      /\ \A v \in Worker \ {w} : mail'[v] = mail[v]
  BY <1>1, <1>2, RewindType
<1>5. TypeOK'
  BY <1>1, <1>2, <1>3, <1>4, LoopTypes DEF TypeOK
<1>6. OffsetsFollowDeliveries'
  BY <1>1, <1>2, <1>5, OffsetsRewind
<1> QED BY <1>1, <1>2, <1>4, <1>5, <1>6, LoopStands DEF outbox

\* The offset of a record that is done with is committed, or refused.
LEMMA CommitRecordsKeepsIInv ==
  ASSUME IInv, NEW w \in Worker, CommitRecords(w) \/ CommitRecordsFails(w)
  PROVE  IInv'
<1>1. /\ TypeOK /\ OpenDeliveriesExclude /\ OffsetsFollowDeliveries /\ open \subseteq Worker
      /\ mail[w].at = "commit" /\ mail[w].at # "idle" /\ committed \in 0..Len(log) /\ Len(log) \in Nat
  BY DEF IInv, TypeOK, CommitRecords, CommitRecordsFails
<1>2. /\ UNCHANGED <<ended, expired, material, notices, outbox, loop, log, assigned, position, open, mailed,
                     deliveries, faults>>
      /\ committed' \in {committed, mail[w].offset} /\ mail' = [mail EXCEPT ![w] = [at |-> "idle", offset |-> 0]]
  BY DEF CommitRecords, CommitRecordsFails, rows, Idle
<1>3. /\ mail[w].offset \in 1..Len(log) /\ Handled(Code(w))
      /\ \A i \in 1..mail[w].offset - 1 : Handled(log[i])
  BY <1>1, AtRecord DEF OffsetsFollowDeliveries
<1>4. \A i \in 1..mail[w].offset : Handled(log[i])
  BY <1>1, <1>3 DEF Code
<1>5. /\ mail' \in [Worker -> MailState]
      /\ \A v \in Worker : mail'[v].at # "idle" => mail'[v].offset \in 1..Len(log)
      /\ mail'[w] = [at |-> "idle", offset |-> 0] /\ \A v \in Worker \ {w} : mail'[v] = mail[v]
  BY <1>1, <1>2, MailType
<1>6. TypeOK'
  <2>1. committed' \in 0..Len(log)
    BY <1>1, <1>2, <1>3
  <2> QED BY <1>1, <1>2, <1>5, <2>1, LoopTypes DEF TypeOK
<1>7. OffsetsFollowDeliveries'
  <2>1. \A i : Handled(log[i]) => Handled(log[i])'
    <3>1. UNCHANGED <<mailed, ended, expired, log>>
      BY <1>2
    <3> QED BY <3>1 DEF Handled, Terminal
  <2>2. \A i \in 1..committed' : Handled(log[i])'
    BY <1>1, <1>2, <1>4, <2>1 DEF OffsetsFollowDeliveries
  <2>3. assigned' = w => \A i \in 1..position'[w] : Handled(log[i])'
    <3> SUFFICES ASSUME assigned = w, NEW i \in 1..position[w] PROVE Handled(log[i])
      BY <1>2, <2>1
    <3>1. Handled(log[i]) \/ i = mail[w].offset
      BY <1>1 DEF OffsetsFollowDeliveries
    <3> QED BY <1>3, <3>1 DEF Code
  <2>4. mail'[w].at = "idle"
    BY <1>5
  <2> QED BY <1>2, <1>5, <1>6, <2>2, <2>3, <2>4, OffsetsStand
<1>8. w \notin open
  BY <1>1 DEF OpenDeliveriesExclude
<1> QED BY <1>1, <1>2, <1>5, <1>6, <1>7, <1>8, LoopStands DEF outbox

-----------------------------------------------------------------------------
(* Rebalances, lost connections and crashes.                               *)

\* The group moves the partition, the database ends a transaction, or the process stops: the
\* worker that fetches next starts at the committed offset.
LEMMA FaultsKeepIInv ==
  ASSUME IInv, NEW w \in Worker, Rebalance(w) \/ LoseConnection(w) \/ Crash(w)
  PROVE  IInv'
<1>1. /\ TypeOK /\ OpenDeliveriesExclude /\ OpenSendsAreCurrent /\ OffsetsFollowDeliveries /\ open \subseteq Worker
      /\ committed \in 0..Len(log) /\ position \in [Worker -> 0..Len(log)] /\ faults \in 0..MaxFaults
      /\ mail \in [Worker -> MailState] /\ loop \in [Worker -> LoopState]
      /\ \A v \in Worker : mail[v].at # "idle" => mail[v].offset \in 1..Len(log)
  BY DEF IInv, TypeOK
<1>2. UNCHANGED <<ended, expired, material, notices, queued, published, log, committed, mailed, deliveries>>
  BY DEF Rebalance, LoseConnection, Crash, rows, outbox
<1>3. \A i : Handled(log[i]) => Handled(log[i])'
  BY <1>2 DEF Handled, Terminal
<1>4. \A i \in 1..committed' : Handled(log[i])'
  BY <1>1, <1>2, <1>3 DEF OffsetsFollowDeliveries
<1>5. ASSUME Fault PROVE faults' \in 0..MaxFaults
  BY <1>1, <1>5, BoundsAssumption DEF Fault
<1>6. ASSUME mail' = mail \/ (mail'[w] = Idle /\ mail' \in [Worker -> MailState]
                               /\ \A v \in Worker \ {w} : mail'[v] = mail[v]),
             position' = position \/ position' = [position EXCEPT ![w] = committed],
             assigned' = w => position'[w] = committed \/ (assigned = w /\ UNCHANGED <<position, mail>>),
             assigned' \in {assigned, w}, open' \in {open, open \ {w}}, mail'[w] = Idle => w \notin open',
             TypeOK', \A v \in Worker : loop'[v] = loop[v] \/ loop'[v].at \in {"relay", "notices"}
      PROVE  IInv'
  <2>1. \A v \in Worker \ {w} : mail'[v] = mail[v] /\ position'[v] = position[v]
    BY <1>1, <1>6
  <2>2. /\ mail'[w].at # "idle" => mail'[w] = mail[w]
        /\ mail' = mail \/ mail'[w].at = "idle"
    BY <1>6 DEF Idle
  <2>3. mail'[w].at # "idle" => Code(w)' = Code(w)
    BY <1>2, <2>2 DEF Code
  <2>4. mail'[w].at # "idle" => \A i \in 1..mail'[w].offset - 1 : Handled(log[i])'
    BY <1>1, <1>3, <2>2 DEF OffsetsFollowDeliveries
  <2>5. /\ mail'[w].at = "delete" => Code(w)' \in mailed'
        /\ mail'[w].at = "commit" => Handled(Code(w))'
    <3>1. /\ mail'[w].at = "delete" => Code(w) \in mailed
          /\ mail'[w].at = "commit" => Handled(Code(w))
      BY <1>1, <2>2 DEF OffsetsFollowDeliveries
    <3> QED BY <1>2, <2>3, <3>1 DEF Handled, Terminal
  <2>6. assigned' = w => \A i \in 1..position'[w] :
          Handled(log[i])' \/ (mail'[w].at # "idle" /\ i = mail'[w].offset)
    <3>1. CASE assigned = w /\ UNCHANGED <<position, mail>>
      BY <1>1, <1>3, <3>1 DEF OffsetsFollowDeliveries
    <3>2. CASE position'[w] = committed
      BY <1>2, <1>4, <3>2
    <3> QED BY <1>6, <3>1, <3>2
  <2>7. OffsetsFollowDeliveries'
    BY <1>2, <1>4, <1>6, <2>1, <2>4, <2>5, <2>6, OffsetsStand
  <2>8. w \in open' => /\ mail'[w].at \in {"send", "delete"}
                       /\ Code(w)' \in material /\ Code(w) \notin ended /\ Code(w)' = Code(w)
                       /\ \A v \in open \ {w} : Code(v) # Code(w)
    <3>1. w \in open' => w \in open /\ mail' = mail
      BY <1>6
    <3>2. w \in open => /\ mail[w].at \in {"send", "delete"} /\ Code(w) \in material /\ Code(w) \notin ended
                        /\ \A v \in open \ {w} : Code(v) # Code(w)
      BY <1>1 DEF OpenDeliveriesExclude, OpenSendsAreCurrent
    <3> QED BY <1>2, <3>1, <3>2 DEF Code
  <2>9. \A v \in Worker \ {w} : v \in open' <=> v \in open
    BY <1>6
  <2> QED BY <1>1, <1>2, <1>6, <2>1, <2>7, <2>8, <2>9, LoopStands
<1>7. CASE Rebalance(w)
  <2>1. /\ assigned' = w /\ position' = [position EXCEPT ![w] = committed] /\ position'[w] = committed
        /\ UNCHANGED <<claim, loop, mail, open>>
    BY <1>1, <1>7 DEF Rebalance, outbox
  <2>2. faults' \in 0..MaxFaults
    BY <1>5, <1>7 DEF Rebalance
  <2>3. TypeOK'
    BY <1>1, <1>2, <2>1, <2>2 DEF TypeOK
  <2>4. mail'[w] = Idle => w \notin open'
    BY <1>1, <2>1 DEF OpenDeliveriesExclude, Idle
  <2> QED BY <1>6, <2>1, <2>3, <2>4
<1>8. CASE LoseConnection(w)
  <2>1. open' = open \ {w} /\ UNCHANGED <<claim, loop, mail, assigned, position, faults>>
    BY <1>8 DEF LoseConnection, outbox
  <2>2. TypeOK'
    BY <1>1, <1>2, <2>1 DEF TypeOK
  <2> QED BY <1>6, <2>1, <2>2
<1>9. CASE Crash(w)
  <2>1. /\ open' = open \ {w} /\ mail' = [mail EXCEPT ![w] = [at |-> "idle", offset |-> 0]] /\ UNCHANGED assigned
        /\ position' = [position EXCEPT ![w] = committed] /\ position'[w] = committed
        /\ Step(w, "relay", Nobody) /\ [at |-> "relay", row |-> Nobody] \in LoopState
    BY <1>1, <1>9 DEF Crash, ToRelay, Idle, LoopState
  <2>2. /\ loop' \in [Worker -> LoopState]
        /\ loop'[w] = [at |-> "relay", row |-> Nobody] /\ \A v \in Worker \ {w} : loop'[v] = loop[v]
    BY <1>1, <2>1, StepType
  <2>3. /\ mail' \in [Worker -> MailState]
        /\ \A v \in Worker : mail'[v].at # "idle" => mail'[v].offset \in 1..Len(log)
        /\ mail'[w] = Idle /\ \A v \in Worker \ {w} : mail'[v] = mail[v]
    BY <1>1, <2>1, MailType DEF Idle
  <2>4. claim' \in [Challenge -> Worker \cup {Nobody, Gone}]
    BY <1>1, <1>9 DEF TypeOK, Crash
  <2>5. faults' \in 0..MaxFaults
    BY <1>5, <1>9 DEF Crash
  <2>6. TypeOK'
    BY <1>1, <1>2, <2>1, <2>2, <2>3, <2>4, <2>5 DEF TypeOK
  <2>7. \A v \in Worker : loop'[v] = loop[v] \/ loop'[v].at \in {"relay", "notices"}
    BY <2>2
  <2> QED BY <1>6, <2>1, <2>3, <2>6, <2>7
<1> QED BY <1>7, <1>8, <1>9

-----------------------------------------------------------------------------
(* The notices.                                                            *)

\* A step of the ticker loop of w, or its end, leaves every notice to the worker that is at it.
LEMMA NoticesStand ==
  ASSUME IInv, NoticesExclude, [Next]_vars
  PROVE  NoticesExclude'
<1>1. loop \in [Worker -> LoopState] /\ \A w \in Worker : loop[w].at \in {"send", "delete"} => loop[w].row \in Notice
  BY RowType DEF IInv, TypeOK
<1>2. ASSUME UNCHANGED loop, notices \subseteq notices', mailed \subseteq mailed' PROVE NoticesExclude'
  BY <1>2 DEF NoticesExclude
<1>3. ASSUME NEW w \in Worker, loop[w].at \in {"send", "delete"} \/ UNCHANGED notices, mailed \subseteq mailed',
             notices' \in {notices, notices \ {loop[w].row}},
             ToRelay(w) \/ ToNotices(w) \/ \E c \in Challenge, at \in {"publish", "mark"} : Step(w, at, c)
      PROVE  NoticesExclude'
  <2>1. loop'[w].at \notin {"send", "delete"} /\ \A v \in Worker \ {w} : loop'[v] = loop[v]
    BY <1>1, <1>3 DEF ToRelay, ToNotices, Step
  <2>2. \A v \in Worker \ {w} : loop[v].at \in {"send", "delete"} => loop[v].row \in notices'
    BY <1>3 DEF NoticesExclude
  <2> QED BY <1>3, <2>1, <2>2 DEF NoticesExclude
<1>4. ASSUME NEW w \in Worker, RunOnce(w) PROVE NoticesExclude'
  <2>1. UNCHANGED <<notices, mailed>>
    BY <1>4 DEF RunOnce, ClaimOutboxEvent, NoEvent, Publish, PublishFails, MarkOutboxPublished, MarkFails, rows
  <2>2. loop[w].at = "publish" => loop[w].row \in Challenge
    BY RowType DEF IInv
  <2>3. ToRelay(w) \/ ToNotices(w) \/ \E c \in Challenge, at \in {"publish", "mark"} : Step(w, at, c)
    BY <1>4, <2>2 DEF RunOnce, ClaimOutboxEvent, NoEvent, Publish, PublishFails, MarkOutboxPublished, MarkFails
  <2> QED BY <1>3, <2>1, <2>3
<1>5. ASSUME NEW w \in Worker, NEW n \in Notice, LockNextPasswordChangeNotice(w, n) PROVE NoticesExclude'
  <2>1. /\ loop'[w] = [at |-> "send", row |-> n] /\ \A v \in Worker \ {w} : loop'[v] = loop[v]
        /\ n \in notices /\ \A v \in Worker : loop[v].row # n
    BY <1>1, <1>5 DEF LockNextPasswordChangeNotice, Step
  <2> QED BY <1>5, <2>1 DEF NoticesExclude, LockNextPasswordChangeNotice, rows
<1>6. ASSUME NEW w \in Worker, SendPasswordChangeNotice(w) PROVE NoticesExclude'
  <2>1. /\ loop'[w] = [at |-> "delete", row |-> loop[w].row] /\ \A v \in Worker \ {w} : loop'[v] = loop[v]
        /\ loop[w].at = "send" /\ mailed' = mailed \cup {loop[w].row} /\ notices' = notices
    BY <1>1, <1>6 DEF SendPasswordChangeNotice, Step, rows
  <2> QED BY <2>1 DEF NoticesExclude
<1>7. ASSUME NEW w \in Worker, NoNotice(w) \/ DeletePasswordChangeNotice(w) \/ DeferPasswordChangeNotice(w)
      PROVE  NoticesExclude'
  BY <1>3, <1>7 DEF NoNotice, DeletePasswordChangeNotice, DeferPasswordChangeNotice, rows
<1>8. ASSUME NEW w \in Worker, Crash(w) PROVE NoticesExclude'
  BY <1>3, <1>8 DEF Crash, rows
<1>9. CASE API \/ UNCHANGED vars \/ PurgeTerminal
  BY <1>2, <1>9 DEF API, QueueCode, EndCode, Expire, QueuePasswordChangeNotice, PurgeTerminal, vars, rows
<1>10. ASSUME NEW w \in Worker, EmailStep(w) PROVE NoticesExclude'
  <2>1. UNCHANGED <<loop, notices>> /\ mailed \subseteq mailed'
    BY <1>10 DEF EmailStep, ProcessRecord, HandleRecord, Poll, OpenDelivery, SendEmail, CommitDelivery, FailDelivery,
                 CommitRecords, CommitRecordsFails, rows
  <2> QED BY <1>2, <2>1
<1>11. CASE \/ \E c \in Challenge : LeaseLapses(c)
            \/ \E w \in Worker : Rebalance(w) \/ LoseConnection(w)
  BY <1>2, <1>11 DEF LeaseLapses, Rebalance, LoseConnection, rows
<1> QED BY <1>4, <1>5, <1>6, <1>7, <1>8, <1>9, <1>10, <1>11
        DEF Next, Environment, TickerStep, DeliverPasswordChangeNotice

-----------------------------------------------------------------------------
(* The courier that the workers implement.                                 *)

\* What the two loops of a worker have in hand, and what they hold.
HandsAre ==
  \A w \in Worker :
    /\ <<w, "mail">> \in Carrier /\ <<w, "ticker">> \in Carrier
    /\ Hand[<<w, "mail">>] = IF mail[w].at \in {"send", "delete"} THEN Code(w) ELSE Nobody
    /\ Hand[<<w, "ticker">>] = IF loop[w].at \in {"send", "delete"} THEN loop[w].row ELSE Nobody
    /\ <<w, "mail">> \in Holders <=> w \in open
    /\ <<w, "ticker">> \in Holders <=> loop[w].at \in {"send", "delete"}

LEMMA Hands == HandsAre
<1> SUFFICES ASSUME NEW w \in Worker
             PROVE  /\ <<w, "mail">> \in Carrier /\ <<w, "ticker">> \in Carrier
                    /\ Hand[<<w, "mail">>] = IF mail[w].at \in {"send", "delete"} THEN Code(w) ELSE Nobody
                    /\ Hand[<<w, "ticker">>] = IF loop[w].at \in {"send", "delete"} THEN loop[w].row ELSE Nobody
                    /\ <<w, "mail">> \in Holders <=> w \in open
                    /\ <<w, "ticker">> \in Holders <=> loop[w].at \in {"send", "delete"}
  BY DEF HandsAre
<1>1. <<w, "mail">> \in Carrier /\ <<w, "ticker">> \in Carrier
  BY DEF Carrier
<1> QED BY <1>1 DEF Hand, Holders

LEMMA HandsThen == HandsAre'
  BY Hands, PTL

\* A carrier is one of the loops of a worker.
LEMMA LoopsCarry ==
  ASSUME NEW k \in Carrier
  PROVE  \E w \in Worker : k = <<w, "mail">> \/ k = <<w, "ticker">>
  BY DEF Carrier

\* Hands are a function of the carriers, and the holders are carriers.
LEMMA HandsByCarrier ==
  /\ Hand = [k \in Carrier |-> Hand[k]] /\ Hand' = [k \in Carrier |-> Hand'[k]]
  /\ Holders \subseteq Carrier /\ Holders' \subseteq Carrier
  BY DEF Hand, Holders

\* Loops that stand, or move where they have nothing in hand, leave hands and holders alone.
LEMMA HandsStand ==
  ASSUME \A w \in Worker : Hand'[<<w, "mail">>] = Hand[<<w, "mail">>] /\ Hand'[<<w, "ticker">>] = Hand[<<w, "ticker">>],
         \A w \in Worker : /\ <<w, "mail">> \in Holders' <=> <<w, "mail">> \in Holders
                           /\ <<w, "ticker">> \in Holders' <=> <<w, "ticker">> \in Holders
  PROVE  Hand' = Hand /\ Holders' = Holders
<1>1. \A k \in Carrier : Hand'[k] = Hand[k] /\ (k \in Holders' <=> k \in Holders)
  BY LoopsCarry
<1> QED BY <1>1, HandsByCarrier

\* The email loops of workers whose record stands have the same in hand.
LEMMA MailHandStands ==
  ASSUME IInv, NEW w \in Worker, mail'[w] = mail[w], \A i \in 1..Len(log) : log'[i] = log[i]
  PROVE  Hand'[<<w, "mail">>] = Hand[<<w, "mail">>]
<1>1. mail[w].at \in {"send", "delete"} => Code(w)' = Code(w)
  BY DEF IInv, TypeOK, Code
<1>2. /\ Hand[<<w, "mail">>] = IF mail[w].at \in {"send", "delete"} THEN Code(w) ELSE Nobody
      /\ Hand'[<<w, "mail">>] = IF mail'[w].at \in {"send", "delete"} THEN Code(w)' ELSE Nobody
  BY Hands, HandsThen DEF HandsAre
<1> QED BY <1>1, <1>2

\* So have the ticker loops that are at the same row.
LEMMA TickerHandStands ==
  ASSUME NEW w \in Worker, loop'[w] = loop[w]
  PROVE  /\ Hand'[<<w, "ticker">>] = Hand[<<w, "ticker">>]
         /\ <<w, "ticker">> \in Holders' <=> <<w, "ticker">> \in Holders
<1>1. /\ Hand[<<w, "ticker">>] = IF loop[w].at \in {"send", "delete"} THEN loop[w].row ELSE Nobody
      /\ <<w, "ticker">> \in Holders <=> loop[w].at \in {"send", "delete"}
  BY Hands DEF HandsAre
<1>2. /\ Hand'[<<w, "ticker">>] = IF loop'[w].at \in {"send", "delete"} THEN loop'[w].row ELSE Nobody
      /\ <<w, "ticker">> \in Holders' <=> loop'[w].at \in {"send", "delete"}
  BY HandsThen DEF HandsAre
<1> QED BY <1>1, <1>2

\* A held code is locked; a held notice is at a worker.
LEMMA HeldIs ==
  ASSUME IInv
  PROVE  /\ \A c \in Challenge : Mailer!Held(c) <=> Locked(c)
         /\ \A n \in Notice : Mailer!Held(n) <=> \E w \in Worker : loop[w].at \in {"send", "delete"} /\ loop[w].row = n
<1>1. /\ open \subseteq Worker
      /\ \A w \in open : mail[w].at \in {"send", "delete"} /\ Code(w) \in Challenge
      /\ \A w \in Worker : loop[w].at \in {"send", "delete"} => loop[w].row \in Notice
      /\ Challenge \cap Notice = {}
  BY RowType, NamesAssumption DEF IInv, TypeOK, OpenDeliveriesExclude
<1>2. \A k \in Holders : \E w \in Worker : \/ k = <<w, "mail">> /\ w \in open /\ Hand[k] = Code(w)
                                           \/ /\ k = <<w, "ticker">> /\ loop[w].at \in {"send", "delete"}
                                              /\ Hand[k] = loop[w].row
  <2> SUFFICES ASSUME NEW k \in Holders
               PROVE  \E w \in Worker : \/ k = <<w, "mail">> /\ w \in open /\ Hand[k] = Code(w)
                                        \/ /\ k = <<w, "ticker">> /\ loop[w].at \in {"send", "delete"}
                                           /\ Hand[k] = loop[w].row
    OBVIOUS
  <2>1. PICK w \in Worker : k = <<w, "mail">> \/ k = <<w, "ticker">>
    BY HandsByCarrier, LoopsCarry
  <2> QED BY <1>1, <2>1, Hands DEF HandsAre
<1>3. \A w \in open : <<w, "mail">> \in Holders /\ Hand[<<w, "mail">>] = Code(w)
  BY <1>1, Hands DEF HandsAre
<1>4. \A w \in Worker : loop[w].at \in {"send", "delete"} =>
        <<w, "ticker">> \in Holders /\ Hand[<<w, "ticker">>] = loop[w].row
  BY Hands DEF HandsAre
<1>5. ASSUME NEW c \in Challenge PROVE Mailer!Held(c) <=> Locked(c)
  BY <1>1, <1>2, <1>3 DEF Mailer!Held, Locked
<1>6. ASSUME NEW n \in Notice
      PROVE  Mailer!Held(n) <=> \E w \in Worker : loop[w].at \in {"send", "delete"} /\ loop[w].row = n
  <2>1. ASSUME NEW k \in Holders, Hand[k] = n
        PROVE  \E w \in Worker : loop[w].at \in {"send", "delete"} /\ loop[w].row = n
    <3>1. \A w \in open : Hand[k] # Code(w)
      BY <1>1, <1>6, <2>1
    <3> QED BY <1>2, <2>1, <3>1
  <2>2. ASSUME NEW w \in Worker, loop[w].at \in {"send", "delete"}, loop[w].row = n PROVE \E k \in Holders : Hand[k] = n
    BY <1>4, <2>2
  <2> QED BY <2>1, <2>2 DEF Mailer!Held
<1> QED BY <1>5, <1>6

\* One loop takes or leaves something, and the others stand.
LEMMA OneHandMoves ==
  ASSUME NEW k \in Carrier, NEW i,
         \A j \in Carrier \ {k} : Hand'[j] = Hand[j], Hand'[k] = i
  PROVE  Hand' = [Hand EXCEPT ![k] = i]
<1>1. \A j \in Carrier : Hand'[j] = [Hand EXCEPT ![k] = i][j]
  BY HandsByCarrier
<1>2. [Hand EXCEPT ![k] = i] = [j \in Carrier |-> [Hand EXCEPT ![k] = i][j]]
  BY HandsByCarrier
<1> QED BY <1>1, <1>2, HandsByCarrier

\* Loops that let go of what they have.
LEMMA LoopsLetGo ==
  ASSUME NEW K \in SUBSET Carrier, \A k \in Carrier \ K : Hand'[k] = Hand[k], \A k \in K : Hand'[k] = Nobody,
         Holders' = Holders \ K
  PROVE  Mailer!LetGo(K)
<1>1. \A k \in Carrier : Hand'[k] = IF k \in K THEN Nobody ELSE Hand[k]
  OBVIOUS
<1>2. Hand' = [k \in Carrier |-> IF k \in K THEN Nobody ELSE Hand[k]]
  BY <1>1, HandsByCarrier
<1> QED BY <1>2 DEF Mailer!LetGo

\* What a step of the mail loop of w does to the other hands.
LEMMA OtherHandsOfMail ==
  ASSUME IInv, NEW w \in Worker, UNCHANGED <<loop, log>>, \A v \in Worker \ {w} : mail'[v] = mail[v],
         open' \in {open, open \ {w}, open \cup {w}}
  PROVE  /\ \A k \in Carrier \ {<<w, "mail">>} : Hand'[k] = Hand[k] /\ (k \in Holders' <=> k \in Holders)
         /\ Holders' \ {<<w, "mail">>} = Holders \ {<<w, "mail">>}
<1>1. ASSUME NEW k \in Carrier \ {<<w, "mail">>} PROVE Hand'[k] = Hand[k] /\ (k \in Holders' <=> k \in Holders)
  <2>1. PICK v \in Worker : k = <<v, "mail">> \/ k = <<v, "ticker">>
    BY LoopsCarry
  <2>2. CASE k = <<v, "mail">>
    <3>1. v # w /\ mail'[v] = mail[v] /\ (v \in open' <=> v \in open)
      BY <1>1, <2>2
    <3> QED BY <2>2, <3>1, MailHandStands, Hands, HandsThen DEF HandsAre
  <2>3. CASE k = <<v, "ticker">>
    BY <2>3, TickerHandStands
  <2> QED BY <2>1, <2>2, <2>3
<1> QED BY <1>1, HandsByCarrier

\* What a step of the ticker loop of w does to the other hands.
LEMMA OtherHandsOfTicker ==
  ASSUME IInv, NEW w \in Worker, UNCHANGED <<mail, open, log>>, \A v \in Worker \ {w} : loop'[v] = loop[v]
  PROVE  /\ \A k \in Carrier \ {<<w, "ticker">>} : Hand'[k] = Hand[k] /\ (k \in Holders' <=> k \in Holders)
         /\ Holders' \ {<<w, "ticker">>} = Holders \ {<<w, "ticker">>}
<1>1. ASSUME NEW k \in Carrier \ {<<w, "ticker">>} PROVE Hand'[k] = Hand[k] /\ (k \in Holders' <=> k \in Holders)
  <2>1. PICK v \in Worker : k = <<v, "mail">> \/ k = <<v, "ticker">>
    BY LoopsCarry
  <2>2. CASE k = <<v, "mail">>
    BY <2>2, MailHandStands, Hands, HandsThen DEF HandsAre
  <2>3. CASE k = <<v, "ticker">>
    BY <1>1, <2>3, TickerHandStands
  <2> QED BY <2>1, <2>2, <2>3
<1> QED BY <1>1, HandsByCarrier

\* Hands of a step that no loop of a worker takes, or takes with nothing in hand.
LEMMA NoHandMoves ==
  ASSUME IInv, UNCHANGED open, \A i \in 1..Len(log) : log'[i] = log[i],
         \A w \in Worker : \/ mail'[w] = mail[w]
                           \/ mail[w].at \notin {"send", "delete"} /\ mail'[w].at \notin {"send", "delete"},
         \A w \in Worker : \/ loop'[w] = loop[w]
                           \/ loop[w].at \notin {"send", "delete"} /\ loop'[w].at \notin {"send", "delete"}
  PROVE  Hand' = Hand /\ Holders' = Holders
<1>1. ASSUME NEW w \in Worker
      PROVE  Hand'[<<w, "mail">>] = Hand[<<w, "mail">>] /\ (<<w, "mail">> \in Holders' <=> <<w, "mail">> \in Holders)
  <2>1. /\ Hand[<<w, "mail">>] = IF mail[w].at \in {"send", "delete"} THEN Code(w) ELSE Nobody
        /\ <<w, "mail">> \in Holders <=> w \in open
    BY Hands DEF HandsAre
  <2>2. /\ Hand'[<<w, "mail">>] = IF mail'[w].at \in {"send", "delete"} THEN Code(w)' ELSE Nobody
        /\ <<w, "mail">> \in Holders' <=> w \in open'
    BY HandsThen DEF HandsAre
  <2>3. CASE mail'[w] = mail[w]
    BY <2>1, <2>2, <2>3, MailHandStands
  <2> QED BY <2>1, <2>2, <2>3
<1>2. ASSUME NEW w \in Worker
      PROVE  /\ Hand'[<<w, "ticker">>] = Hand[<<w, "ticker">>]
             /\ <<w, "ticker">> \in Holders' <=> <<w, "ticker">> \in Holders
  BY TickerHandStands, Hands, HandsThen DEF HandsAre
<1> QED BY <1>1, <1>2, HandsStand

\* What the courier has accepted and keeps.
Accepted == Created \cup notices \cup (mailed \cap Notice)
Kept == material \cup notices

\* A step of the API, the purge or the environment is one of the courier, or none.
LEMMA TablesOfTheCourier ==
  ASSUME IInv,
         \/ \E c \in Challenge : QueueCode(c) \/ EndCode(c) \/ Expire(c) \/ LeaseLapses(c)
         \/ \E n \in Notice : QueuePasswordChangeNotice(n)
         \/ \E w \in Worker : Rebalance(w)
         \/ PurgeTerminal
  PROVE  [Mailer!Next]_(Mailer!vars)
<1>1. Hand' = Hand /\ Holders' = Holders
  <2>1. UNCHANGED <<loop, log, mail, open>>
    BY DEF QueueCode, EndCode, Expire, LeaseLapses, QueuePasswordChangeNotice, Rebalance, PurgeTerminal, consumer
  <2> QED BY <2>1, NoHandMoves
<1>2. Challenge \cap Notice = {} /\ Created \subseteq Challenge /\ notices \subseteq Notice
      /\ material \subseteq Challenge /\ mailed \subseteq Challenge \cup Notice
  BY NamesAssumption DEF IInv, TypeOK, Created
<1>3. ASSUME NEW c \in Challenge, QueueCode(c) PROVE Mailer!Accept(c)
  <2>1. Accepted' = Accepted \cup {c} /\ Kept' = Kept \cup {c} /\ c \notin Accepted
    BY <1>2, <1>3 DEF QueueCode, Created, Accepted, Kept
  <2> QED BY <1>1, <1>3, <2>1 DEF Mailer!Accept, QueueCode, Accepted, Kept
<1>4. ASSUME NEW c \in Challenge, EndCode(c) PROVE Mailer!Withdraw(c)
  <2>1. Accepted' = Accepted /\ Kept' \in {Kept, Kept \ {c}} /\ c \in Accepted
    BY <1>2, <1>4 DEF EndCode, Created, Accepted, Kept, outbox
  <2>2. ~Mailer!Held(c)
    BY <1>4, HeldIs DEF EndCode
  <2> QED BY <1>1, <1>4, <2>1, <2>2 DEF Mailer!Withdraw, EndCode, Accepted, Kept
<1>5. ASSUME NEW c \in Challenge, Expire(c) PROVE Mailer!Lapse(c)
  <2>1. Accepted' = Accepted /\ Kept' = Kept /\ c \in Accepted
    BY <1>5 DEF Expire, Created, Accepted, Kept, outbox
  <2> QED BY <1>1, <1>5, <2>1 DEF Mailer!Lapse, Expire, Accepted, Kept
<1>6. ASSUME NEW n \in Notice, QueuePasswordChangeNotice(n) PROVE Mailer!Accept(n)
  <2>1. Accepted' = Accepted \cup {n} /\ Kept' = Kept \cup {n} /\ n \notin Accepted
    BY <1>2, <1>6 DEF QueuePasswordChangeNotice, Created, Accepted, Kept, outbox
  <2> QED BY <1>1, <1>6, <2>1 DEF Mailer!Accept, QueuePasswordChangeNotice, Accepted, Kept
<1>7. CASE PurgeTerminal
  <2> DEFINE gone == {c \in material : Terminal(c) /\ ~Locked(c)}
  <2>1. Accepted' = Accepted /\ Kept' = Kept \ gone
    BY <1>2, <1>7 DEF PurgeTerminal, Created, Accepted, Kept, outbox
  <2>2. gone \subseteq ended \cup expired /\ \A c \in gone : ~Mailer!Held(c)
    BY <1>2, HeldIs DEF Terminal
  <2>3. Mailer!Discard(gone)
    BY <1>1, <1>7, <2>1, <2>2 DEF Mailer!Discard, Mailer!Void, PurgeTerminal, Accepted, Kept
  <2> QED BY <2>2, <2>3 DEF Mailer!Next, Mailer!Void
<1>8. CASE \/ \E c \in Challenge : LeaseLapses(c)
           \/ \E w \in Worker : Rebalance(w)
  <2>1. UNCHANGED <<ended, expired, material, notices, Created, mailed>>
    BY <1>8 DEF LeaseLapses, Rebalance, rows, outbox, Created
  <2> QED BY <1>1, <2>1 DEF Mailer!vars
<1> QED BY <1>3, <1>4, <1>5, <1>6, <1>7, <1>8 DEF Mailer!Next

\* So is a step of a ticker loop: only the notices are the courier's.
LEMMA TickerOfTheCourier ==
  ASSUME IInv, NoticesExclude, NEW w \in Worker, TickerStep(w)
  PROVE  [Mailer!Next]_(Mailer!vars)
<1> DEFINE k == <<w, "ticker">>
<1>1. /\ loop \in [Worker -> LoopState] /\ Challenge \cap Notice = {} /\ material \subseteq Challenge
      /\ ended \subseteq Challenge /\ expired \subseteq Challenge /\ Created \subseteq Challenge
      /\ notices \subseteq Notice /\ Nobody \notin Challenge \cup Notice
      /\ loop[w].at \in {"send", "delete"} => loop[w].row \in notices
      /\ log \in Seq(Challenge)
  BY NamesAssumption DEF IInv, TypeOK, NoticesExclude, Created
<1>2. /\ k \in Carrier
      /\ k \in Holders <=> loop[w].at \in {"send", "delete"}
      /\ Hand[k] = IF loop[w].at \in {"send", "delete"} THEN loop[w].row ELSE Nobody
      /\ k \in Holders' <=> loop'[w].at \in {"send", "delete"}
      /\ Hand'[k] = IF loop'[w].at \in {"send", "delete"} THEN loop'[w].row ELSE Nobody
  BY Hands, HandsThen DEF HandsAre
<1>3. ASSUME UNCHANGED <<mail, open, log>>, \A v \in Worker \ {w} : loop'[v] = loop[v]
      PROVE  /\ \A j \in Carrier \ {k} : Hand'[j] = Hand[j]
             /\ Holders' \ {k} = Holders \ {k}
  BY <1>3, OtherHandsOfTicker
<1>4. CASE RunOnce(w) \/ NoNotice(w)
  <2>1. /\ UNCHANGED <<ended, expired, material, notices, mailed, mail, open, Created>>
        /\ \A v \in Worker \ {w} : loop'[v] = loop[v]
        /\ loop[w].at \notin {"send", "delete"} /\ loop'[w].at \notin {"send", "delete"}
    <3>1. UNCHANGED <<ended, expired, material, notices, mailed, mail, open>> /\ loop[w].at \notin {"send", "delete"}
      BY <1>4 DEF RunOnce, ClaimOutboxEvent, NoEvent, Publish, PublishFails, MarkOutboxPublished, MarkFails,
                  NoNotice, rows, consumer
    <3>2. Created' = Created
      <4>1. CASE MarkOutboxPublished(w)
        <5>1. loop[w].at = "mark" /\ loop[w].row \in Created
          BY <4>1 DEF MarkOutboxPublished, IInv, OnlyCreated
        <5> QED BY <4>1, <5>1 DEF MarkOutboxPublished, outbox, Created
      <4>2. CASE ~MarkOutboxPublished(w)
        BY <1>4, <4>2 DEF RunOnce, ClaimOutboxEvent, NoEvent, Publish, PublishFails, MarkFails, NoNotice, outbox,
                          Created
      <4> QED BY <4>1, <4>2
    <3>3. \E at \in {"relay", "notices", "publish", "mark"} : \E row : Step(w, at, row)
      BY <1>4 DEF RunOnce, ClaimOutboxEvent, NoEvent, Publish, PublishFails, MarkOutboxPublished, MarkFails,
                  NoNotice, ToRelay, ToNotices
    <3> QED BY <1>1, <3>1, <3>2, <3>3 DEF Step
  <2>2. log' = log \/ (log' = Append(log, loop[w].row) /\ loop[w].row \in Challenge)
    <3>1. loop[w].at = "publish" => loop[w].row \in Challenge
      BY RowType DEF IInv
    <3> QED BY <1>4, <3>1 DEF RunOnce, ClaimOutboxEvent, NoEvent, Publish, PublishFails, MarkOutboxPublished,
                              MarkFails, NoNotice
  <2>3. \A i \in 1..Len(log) : log'[i] = log[i]
    BY <1>1, <2>2
  <2>4. Hand' = Hand /\ Holders' = Holders
    BY <2>1, <2>3, NoHandMoves
  <2> QED BY <2>1, <2>4 DEF Mailer!vars
<1>5. ASSUME NEW n \in Notice, LockNextPasswordChangeNotice(w, n) PROVE Mailer!Take(k, n)
  <2>1. /\ loop'[w] = [at |-> "send", row |-> n] /\ \A v \in Worker \ {w} : loop'[v] = loop[v]
        /\ loop[w].at = "notices" /\ n \in notices /\ \A v \in Worker : loop[v].row # n
        /\ UNCHANGED <<ended, expired, material, notices, mailed, mail, open, log, Created>>
    BY <1>1, <1>5 DEF LockNextPasswordChangeNotice, Step, rows, outbox, consumer, Created
  <2>2. Hand' = [Hand EXCEPT ![k] = n] /\ Hand[k] = Nobody
    BY <1>2, <1>3, <2>1, OneHandMoves
  <2>3. Holders' = Holders \cup {k}
    BY <1>2, <1>3, <2>1
  <2>4. n \in Kept \ (ended \cup expired) /\ ~Mailer!Held(n)
    BY <1>1, <2>1, HeldIs DEF Kept
  <2> QED BY <2>1, <2>2, <2>3, <2>4 DEF Mailer!Take, Mailer!Void, Kept
<1>6. CASE SendPasswordChangeNotice(w)
  <2>1. /\ loop'[w] = [at |-> "delete", row |-> loop[w].row] /\ \A v \in Worker \ {w} : loop'[v] = loop[v]
        /\ loop[w].at = "send" /\ mailed' = mailed \cup {loop[w].row}
        /\ UNCHANGED <<ended, expired, material, notices, mail, open, log, Created>>
    BY <1>1, <1>6 DEF SendPasswordChangeNotice, Step, rows, outbox, consumer, Created
  <2>2. Hand'[k] = Hand[k] /\ Hand[k] = loop[w].row /\ (k \in Holders <=> k \in Holders')
    BY <1>2, <2>1
  <2>3. Hand' = Hand /\ Holders' = Holders
    <3>1. \A j \in Carrier : Hand'[j] = Hand[j]
      BY <1>3, <2>1, <2>2
    <3> QED BY <1>3, <2>1, <2>2, <3>1, HandsByCarrier
  <2>4. Accepted' = Accepted
    BY <1>1, <2>1 DEF Accepted
  <2>5. Mailer!Mail(k) /\ k \in Mailer!Busy
    BY <1>1, <1>2, <2>1, <2>2, <2>3, <2>4 DEF Mailer!Mail, Mailer!Busy, Accepted
  <2> QED BY <2>5 DEF Mailer!Next
<1>7. CASE DeletePasswordChangeNotice(w) \/ DeferPasswordChangeNotice(w)
  <2>1. /\ loop'[w] = [at |-> "relay", row |-> Nobody] /\ \A v \in Worker \ {w} : loop'[v] = loop[v]
        /\ loop[w].at \in {"send", "delete"}
        /\ UNCHANGED <<ended, expired, material, mailed, mail, open, log, Created>>
    BY <1>1, <1>7 DEF DeletePasswordChangeNotice, DeferPasswordChangeNotice, ToRelay, Step, rows, outbox, consumer,
                      Created
  <2>2. Mailer!LetGo({k})
    <3>1. Holders' = Holders \ {k}
      BY <1>2, <1>3, <2>1
    <3>2. \A j \in {k} : Hand'[j] = Nobody
      BY <1>2, <2>1
    <3> QED BY <1>2, <1>3, <2>1, <3>1, <3>2, LoopsLetGo
  <2>3. k \in Holders /\ k \in Mailer!Busy /\ Hand[k] = loop[w].row
    BY <1>1, <1>2, <2>1 DEF Mailer!Busy
  <2>4. CASE DeferPasswordChangeNotice(w)
    <3>1. UNCHANGED <<notices, mailed>>
      BY <2>4 DEF DeferPasswordChangeNotice, rows
    <3>2. Mailer!Fail({k})
      BY <2>1, <2>2, <3>1 DEF Mailer!Fail
    <3>3. {k} \in SUBSET Mailer!Busy
      BY <2>3
    <3> QED BY <3>2, <3>3 DEF Mailer!Next
  <2>5. CASE DeletePasswordChangeNotice(w)
    <3>1. loop[w].at = "delete" /\ notices' = notices \ {loop[w].row} /\ loop[w].row \in mailed
      BY <2>5 DEF DeletePasswordChangeNotice, NoticesExclude
    <3>2. Accepted' = Accepted /\ Kept' = Kept \ {loop[w].row}
      BY <1>1, <2>1, <3>1 DEF Accepted, Kept
    <3>3. Mailer!Settle(k)
      BY <2>1, <2>2, <2>3, <3>1, <3>2 DEF Mailer!Settle, Accepted, Kept
    <3> QED BY <2>3, <3>3 DEF Mailer!Next
  <2> QED BY <1>7, <2>4, <2>5
<1> HIDE DEF k
<1> QED BY <1>2, <1>4, <1>5, <1>6, <1>7 DEF TickerStep, DeliverPasswordChangeNotice, Mailer!Next

\* And a step of an email loop: only the codes that it sends are the courier's.
LEMMA EmailOfTheCourier ==
  ASSUME IInv, NEW w \in Worker, EmailStep(w)
  PROVE  [Mailer!Next]_(Mailer!vars)
<1> DEFINE k == <<w, "mail">>
<1>1. /\ TypeOK /\ mail \in [Worker -> MailState] /\ Challenge \cap Notice = {} /\ material \subseteq Challenge
      /\ Created \subseteq Challenge /\ notices \subseteq Notice /\ Nobody \notin Challenge
      /\ w \in open => mail[w].at \in {"send", "delete"} /\ Code(w) \in material
      /\ mail[w].at # "idle" => Code(w) \in Challenge
  BY NamesAssumption, AtRecord DEF IInv, TypeOK, OpenDeliveriesExclude, Created
<1>2. /\ k \in Carrier
      /\ k \in Holders <=> w \in open
      /\ k \in Holders' <=> w \in open'
      /\ Hand[k] = IF mail[w].at \in {"send", "delete"} THEN Code(w) ELSE Nobody
      /\ Hand'[k] = IF mail'[w].at \in {"send", "delete"} THEN Code(w)' ELSE Nobody
  BY Hands, HandsThen DEF HandsAre
<1>3. ASSUME UNCHANGED <<loop, log>>, \A v \in Worker \ {w} : mail'[v] = mail[v],
             open' \in {open, open \ {w}, open \cup {w}}
      PROVE  (\A j \in Carrier \ {k} : Hand'[j] = Hand[j]) /\ Holders' \ {k} = Holders \ {k}
  BY <1>3, OtherHandsOfMail
<1>4. ASSUME NEW at \in {"open", "send", "delete", "commit"}, mail[w].at # "idle", At(w, at), UNCHANGED log
      PROVE  mail'[w].at = at /\ Code(w)' = Code(w) /\ \A v \in Worker \ {w} : mail'[v] = mail[v]
  <2>1. mail'[w] = [at |-> at, offset |-> mail[w].offset] /\ \A v \in Worker \ {w} : mail'[v] = mail[v]
    BY <1>1, <1>4, AtType
  <2> QED BY <1>4, <2>1 DEF Code
<1>5. ASSUME mail[w].at \notin {"send", "delete"}, mail'[w].at \notin {"send", "delete"},
             \A v \in Worker \ {w} : mail'[v] = mail[v], UNCHANGED <<open, loop, log>>
      PROVE  Hand' = Hand /\ Holders' = Holders
  BY <1>5, NoHandMoves
<1>6. CASE Poll(w) \/ CommitRecords(w) \/ CommitRecordsFails(w)
  <2>1. /\ mail[w].at \notin {"send", "delete"} /\ mail'[w].at \notin {"send", "delete"}
        /\ \A v \in Worker \ {w} : mail'[v] = mail[v]
        /\ UNCHANGED <<ended, expired, material, notices, mailed, open, loop, log, Created>>
    BY <1>1, <1>6 DEF Poll, CommitRecords, CommitRecordsFails, Idle, rows, outbox, Created
  <2> QED BY <1>5, <2>1 DEF Mailer!vars
<1>7. CASE OpenDelivery(w)
  <2> DEFINE c == Code(w)
  <2>1. /\ mail[w].at = "open" /\ ~Locked(c) /\ c \in Challenge /\ w \notin open
        /\ UNCHANGED <<ended, expired, notices, mailed, loop, log, Created>>
    BY <1>1, <1>7 DEF OpenDelivery, outbox, Created
  <2>2. ~Mailer!Held(c)
    BY <2>1, HeldIs
  <2>3. CASE ~Terminal(c) /\ c \in material
    <3>1. At(w, "send") /\ open' = open \cup {w} /\ UNCHANGED material
      BY <1>7, <2>3 DEF OpenDelivery
    <3>2. mail'[w].at = "send" /\ Code(w)' = c /\ \A v \in Worker \ {w} : mail'[v] = mail[v]
      BY <1>4, <2>1, <3>1
    <3>3. Hand' = [Hand EXCEPT ![k] = c] /\ Hand[k] = Nobody /\ Holders' = Holders \cup {k}
      <4>1. /\ \A j \in Carrier \ {k} : Hand'[j] = Hand[j]
            /\ Holders' \ {k} = Holders \ {k}
        BY <1>3, <2>1, <3>1, <3>2
      <4>2. Hand'[k] = c /\ Hand[k] = Nobody /\ k \in Holders'
        BY <1>2, <2>1, <3>1, <3>2
      <4> HIDE DEF k, c
      <4> QED BY <1>2, <4>1, <4>2, OneHandMoves
    <3>4. Mailer!Take(k, c)
      BY <2>1, <2>2, <2>3, <3>1, <3>3 DEF Mailer!Take, Mailer!Void, Terminal
    <3> QED BY <1>2, <2>1, <3>4 DEF Mailer!Next
  <2>4. CASE Terminal(c) \/ c \notin material
    <3>1. At(w, "commit") /\ UNCHANGED open
      BY <1>7, <2>4 DEF OpenDelivery
    <3>2. Hand' = Hand /\ Holders' = Holders
      BY <1>4, <1>5, <2>1, <3>1
    <3>3. CASE ~Terminal(c)
      BY <1>7, <2>1, <2>4, <3>2, <3>3 DEF OpenDelivery, Mailer!vars
    <3>4. CASE Terminal(c)
      <4>1. material' = material \ {c}
        BY <1>7, <3>4 DEF OpenDelivery
      <4>2. Kept' = Kept \ {c}
        BY <1>1, <2>1, <4>1 DEF Kept
      <4>3. {c} \in SUBSET Mailer!Void /\ Mailer!Discard({c})
        BY <2>1, <2>2, <3>2, <3>4, <4>2 DEF Mailer!Discard, Mailer!Void, Terminal, Kept
      <4> QED BY <4>3 DEF Mailer!Next
    <3> QED BY <3>3, <3>4
  <2> QED BY <2>3, <2>4
<1>8. CASE SendEmail(w)
  <2>1. /\ mail[w].at = "send" /\ mailed' = mailed \cup {Code(w)} /\ At(w, "delete")
        /\ UNCHANGED <<ended, expired, material, notices, loop, log, open, Created>>
    BY <1>8 DEF SendEmail, rows, outbox, Created
  <2>2. mail'[w].at = "delete" /\ Code(w)' = Code(w) /\ \A v \in Worker \ {w} : mail'[v] = mail[v]
    BY <1>4, <2>1
  <2>3. Hand' = Hand /\ Holders' = Holders /\ Hand[k] = Code(w)
    <3>1. /\ \A j \in Carrier \ {k} : Hand'[j] = Hand[j]
          /\ Holders' \ {k} = Holders \ {k}
      BY <1>3, <2>1, <2>2
    <3>2. Hand'[k] = Hand[k] /\ Hand[k] = Code(w) /\ (k \in Holders' <=> k \in Holders)
      BY <1>2, <2>1, <2>2
    <3>3. \A j \in Carrier : Hand'[j] = Hand[j]
      BY <3>1, <3>2
    <3> QED BY <3>1, <3>2, <3>3, HandsByCarrier
  <2>4. Accepted' = Accepted
    BY <1>1, <2>1 DEF Accepted
  <2>5. Mailer!Mail(k) /\ k \in Mailer!Busy
    BY <1>1, <1>2, <2>1, <2>3, <2>4 DEF Mailer!Mail, Mailer!Busy, Accepted
  <2> QED BY <2>5 DEF Mailer!Next
<1>9. ASSUME mail[w].at \in {"send", "delete"}, open' = open \ {w}, mail'[w].at \in {"idle", "commit"},
             \A v \in Worker \ {w} : mail'[v] = mail[v], UNCHANGED <<loop, log>>
      PROVE  Mailer!LetGo({k}) /\ k \in Mailer!Busy /\ Hand[k] = Code(w)
  <2>1. /\ \A j \in Carrier \ {k} : Hand'[j] = Hand[j]
        /\ Holders' \ {k} = Holders \ {k}
    BY <1>3, <1>9
  <2>2. Hand'[k] = Nobody /\ k \notin Holders' /\ Hand[k] = Code(w) /\ Hand[k] # Nobody
    BY <1>1, <1>2, <1>9
  <2>3. k \in Mailer!Busy
    BY <1>2, <2>2 DEF Mailer!Busy
  <2> HIDE DEF k
  <2> QED BY <1>2, <2>1, <2>2, <2>3, LoopsLetGo
<1>10. CASE CommitDelivery(w)
  <2>1. /\ mail[w].at = "delete" /\ w \in open /\ open' = open \ {w} /\ material' = material \ {Code(w)}
        /\ UNCHANGED <<ended, expired, notices, mailed, loop, log, Created>>
        /\ Code(w) \in mailed
    BY <1>10 DEF CommitDelivery, DeleteChallengeDelivery, outbox, Created, IInv, OffsetsFollowDeliveries
  <2>2. mail'[w].at \in {"idle", "commit"} /\ \A v \in Worker \ {w} : mail'[v] = mail[v]
    <3>1. CASE At(w, "commit")
      BY <1>4, <2>1, <3>1
    <3>2. CASE Rewind(w)
      BY <1>1, <2>1, <3>2, RewindType DEF Idle
    <3> QED BY <1>10, <3>1, <3>2 DEF CommitDelivery
  <2>3. Kept' = Kept \ {Code(w)}
    BY <1>1, <2>1 DEF Kept
  <2>4. Mailer!LetGo({k}) /\ k \in Mailer!Busy /\ Hand[k] = Code(w) /\ k \in Holders
    BY <1>2, <1>9, <2>1, <2>2
  <2>5. Mailer!Settle(k)
    BY <2>1, <2>3, <2>4 DEF Mailer!Settle, Kept
  <2> QED BY <2>4, <2>5 DEF Mailer!Next
<1>11. CASE FailDelivery(w)
  <2>1. /\ mail[w].at \in {"open", "send", "delete"} /\ open' = open \ {w}
        /\ UNCHANGED <<ended, expired, material, notices, loop, log, Created>>
        /\ mailed' = mailed \/ (mail[w].at = "send" /\ mailed' = mailed \cup {Code(w)})
    BY <1>11 DEF FailDelivery, rows, outbox, Created
  <2>2. mail'[w].at = "idle" /\ \A v \in Worker \ {w} : mail'[v] = mail[v]
    BY <1>1, <1>11, <2>1, RewindType DEF FailDelivery, Idle
  <2>3. CASE mail[w].at = "open"
    <3>1. open' = open /\ mailed' = mailed
      BY <1>1, <2>1, <2>3
    <3>2. Hand' = Hand /\ Holders' = Holders
      BY <1>5, <2>1, <2>2, <2>3, <3>1
    <3> QED BY <2>1, <3>1, <3>2 DEF Mailer!vars
  <2>4. CASE mail[w].at \in {"send", "delete"}
    <3>1. Mailer!LetGo({k}) /\ k \in Mailer!Busy /\ Hand[k] = Code(w)
      BY <1>9, <2>1, <2>2, <2>4
    <3>2. Accepted' = Accepted
      BY <1>1, <2>1 DEF Accepted
    <3>3. Mailer!Fail({k})
      BY <2>1, <3>1, <3>2 DEF Mailer!Fail, Accepted
    <3>4. {k} \in SUBSET Mailer!Busy
      BY <3>1
    <3> QED BY <3>3, <3>4 DEF Mailer!Next
  <2> QED BY <2>1, <2>3, <2>4
<1> QED BY <1>6, <1>7, <1>8, <1>10, <1>11 DEF EmailStep, ProcessRecord, HandleRecord

\* A lost connection breaks the hold of the email loop, and a process that stops lets go of both.
LEMMA FaultsOfTheCourier ==
  ASSUME IInv, NoticesExclude, NEW w \in Worker, LoseConnection(w) \/ Crash(w)
  PROVE  [Mailer!Next]_(Mailer!vars)
<1>1. /\ mail \in [Worker -> MailState] /\ loop \in [Worker -> LoopState] /\ Nobody \notin Challenge \cup Notice
      /\ open \subseteq Worker /\ notices \subseteq Notice
      /\ w \in open => mail[w].at \in {"send", "delete"} /\ Code(w) \in Challenge
      /\ loop[w].at \in {"send", "delete"} => loop[w].row \in Notice
      /\ mail[w].at # "idle" => Code(w) \in Challenge
  BY NamesAssumption, AtRecord, RowType DEF IInv, TypeOK, OpenDeliveriesExclude
<1>2. UNCHANGED <<ended, expired, material, notices, mailed, log, Created>>
  BY DEF LoseConnection, Crash, rows, outbox, Created
<1>3. CASE LoseConnection(w)
  <2>1. ConnectionsFail /\ w \in open /\ open' = open \ {w} /\ UNCHANGED <<loop, mail>>
    BY <1>3 DEF LoseConnection
  <2>2. <<w, "mail">> \in Carrier /\ Hand[<<w, "mail">>] = Code(w) /\ Hand'[<<w, "mail">>] = Hand[<<w, "mail">>]
        /\ <<w, "mail">> \notin Holders' /\ <<w, "mail">> \in Holders
    BY <1>1, <1>2, <2>1, Hands, HandsThen DEF HandsAre, Code
  <2> DEFINE k == <<w, "mail">>
  <2>3. /\ \A j \in Carrier \ {k} : Hand'[j] = Hand[j]
        /\ Holders' \ {k} = Holders \ {k}
    BY <1>2, <2>1, OtherHandsOfMail
  <2>4. Hand' = Hand /\ Holders' = Holders \ {k}
    <3>1. \A j \in Carrier : Hand'[j] = Hand[j]
      BY <2>2, <2>3
    <3> QED BY <2>2, <2>3, <3>1, HandsByCarrier
  <2>5. Mailer!BreakHold(k) /\ k \in Mailer!Busy
    BY <1>1, <1>2, <2>1, <2>2, <2>4 DEF Mailer!BreakHold, Mailer!Busy
  <2> QED BY <2>5 DEF Mailer!Next
<1>4. CASE Crash(w)
  <2> DEFINE K == {k \in {<<w, "mail">>, <<w, "ticker">>} : Hand[k] # Nobody}
  <2>1. /\ mail'[w].at = "idle" /\ loop'[w].at = "relay" /\ open' = open \ {w}
        /\ \A v \in Worker \ {w} : mail'[v] = mail[v] /\ loop'[v] = loop[v]
    BY <1>1, <1>4 DEF Crash, ToRelay, Step, Idle
  <2>2. \A k \in {<<w, "mail">>, <<w, "ticker">>} :
          /\ k \in Carrier /\ Hand'[k] = Nobody /\ k \notin Holders' /\ (k \in Holders => Hand[k] # Nobody)
    <3>1. w \notin open' /\ mail'[w].at \notin {"send", "delete"} /\ loop'[w].at \notin {"send", "delete"}
      BY <2>1
    <3>2. /\ <<w, "mail">> \in Carrier /\ Hand'[<<w, "mail">>] = Nobody /\ <<w, "mail">> \notin Holders'
          /\ <<w, "ticker">> \in Carrier /\ Hand'[<<w, "ticker">>] = Nobody /\ <<w, "ticker">> \notin Holders'
      BY <3>1, HandsThen DEF HandsAre
    <3>3. <<w, "mail">> \in Holders => Hand[<<w, "mail">>] # Nobody
      <4>1. <<w, "mail">> \in Holders => w \in open /\ Hand[<<w, "mail">>] = Code(w)
        BY <1>1, Hands DEF HandsAre
      <4> QED BY <1>1, <4>1
    <3>4. <<w, "ticker">> \in Holders => Hand[<<w, "ticker">>] # Nobody
      <4>1. <<w, "ticker">> \in Holders => loop[w].at \in {"send", "delete"} /\ Hand[<<w, "ticker">>] = loop[w].row
        BY Hands DEF HandsAre
      <4> QED BY <1>1, <4>1
    <3> QED BY <3>2, <3>3, <3>4
  <2>3. \A k \in Carrier \ {<<w, "mail">>, <<w, "ticker">>} : Hand'[k] = Hand[k] /\ (k \in Holders' <=> k \in Holders)
    <3> SUFFICES ASSUME NEW k \in Carrier, k # <<w, "mail">>, k # <<w, "ticker">>
                 PROVE  Hand'[k] = Hand[k] /\ (k \in Holders' <=> k \in Holders)
      OBVIOUS
    <3>1. PICK v \in Worker : k = <<v, "mail">> \/ k = <<v, "ticker">>
      BY LoopsCarry
    <3>2. v # w
      BY <3>1
    <3>3. CASE k = <<v, "mail">>
      BY <1>2, <2>1, <3>2, <3>3, MailHandStands, Hands, HandsThen DEF HandsAre
    <3>4. CASE k = <<v, "ticker">>
      BY <2>1, <3>2, <3>4, TickerHandStands
    <3> QED BY <3>1, <3>3, <3>4
  <2>4. Mailer!LetGo(K)
    <3>1. K \in SUBSET Carrier /\ \A k \in K : Hand'[k] = Nobody
      BY <2>2
    <3>2. \A k \in Carrier \ K : Hand'[k] = Hand[k]
      BY <2>2, <2>3
    <3>3. Holders' = Holders \ K
      <4>1. \A k \in Carrier : k \in Holders' <=> k \in Holders \ K
        BY <2>2, <2>3
      <4> HIDE DEF K
      <4> QED BY <4>1, HandsByCarrier
    <3> HIDE DEF K
    <3> QED BY <3>1, <3>2, <3>3, LoopsLetGo
  <2>5. K \in SUBSET Mailer!Busy
    BY <2>2 DEF Mailer!Busy
  <2> HIDE DEF K
  <2>6. Mailer!Fail(K)
    BY <1>2, <2>4 DEF Mailer!Fail
  <2> QED BY <2>5, <2>6 DEF Mailer!Next
<1> QED BY <1>3, <1>4

\* Every step of the workers is one of the courier, or none.
LEMMA StepsOfTheCourier ==
  ASSUME IInv, NoticesExclude, [Next]_vars
  PROVE  [Mailer!Next]_(Mailer!vars)
<1>1. CASE UNCHANGED vars
  <2>1. UNCHANGED <<ended, expired, material, notices, mailed, loop, log, mail, open, Created>>
    BY <1>1 DEF vars, rows, outbox, consumer, Created
  <2>2. Hand' = Hand /\ Holders' = Holders
    BY <2>1, NoHandMoves
  <2> QED BY <2>1, <2>2 DEF Mailer!vars
<1> QED BY <1>1, TablesOfTheCourier, TickerOfTheCourier, EmailOfTheCourier, FaultsOfTheCourier
        DEF Next, API, Environment

-----------------------------------------------------------------------------
(* The theorems.                                                           *)

\* Nothing is queued, published, fetched or mailed at first.
LEMMA InitIInv == Init => IInv
<1> SUFFICES ASSUME Init PROVE IInv
  OBVIOUS
<1>1. TypeOK
  BY BoundsAssumption DEF Init, TypeOK, LoopState, MailState, Idle
<1>2. OnlyCreated /\ EventsReachTheLog
  BY DEF Init, OnlyCreated, EventsReachTheLog, Created
<1>3. OffsetsFollowDeliveries /\ OpenDeliveriesExclude
  BY DEF Init, OffsetsFollowDeliveries, OpenDeliveriesExclude, Idle
<1>4. OpenSendsAreCurrent /\ OneDelivery
  BY DEF Init, OpenSendsAreCurrent, OneDelivery
<1> QED BY <1>1, <1>2, <1>3, <1>4, PartsSuffice DEF Parts

\* A step that changes nothing.
LEMMA StutterKeepsIInv ==
  ASSUME IInv, UNCHANGED vars
  PROVE  IInv'
<1>1. UNCHANGED <<ended, expired, material, notices, queued, published, claim, loop, log, committed, assigned,
                  position, mail, open, mailed, deliveries, faults>>
  BY DEF vars, rows, outbox, consumer
<1> QED BY <1>1 DEF IInv, OpenSendsAreCurrent, TypeOK, NothingIsLost, OneDelivery, OnlyCreated,
                    EventsReachTheLog, OffsetsFollowDeliveries, OpenDeliveriesExclude, Code, Created, Handled, Terminal

\* Every step keeps it.
LEMMA NextKeepsIInv == IInv /\ [Next]_vars => IInv'
<1> SUFFICES ASSUME IInv, [Next]_vars PROVE IInv'
  OBVIOUS
<1>1. ASSUME NEW w \in Worker, TickerStep(w) PROVE IInv'
  BY <1>1, TickerKeepsIInv
<1>2. ASSUME NEW w \in Worker, EmailStep(w) PROVE IInv'
  BY <1>2, PollKeepsIInv, OpenDeliveryKeepsIInv, SendEmailKeepsIInv, CommitDeliveryKeepsIInv,
     FailDeliveryKeepsIInv, CommitRecordsKeepsIInv DEF EmailStep, ProcessRecord, HandleRecord
<1>3. CASE API
  BY <1>3, TablesKeepIInv DEF API
<1>4. CASE Environment
  BY <1>4, TablesKeepIInv, FaultsKeepIInv DEF Environment
<1>5. CASE UNCHANGED vars
  BY <1>5, StutterKeepsIInv
<1> QED BY <1>1, <1>2, <1>3, <1>4, <1>5 DEF Next

\* The inductive invariant of the delivery holds in every reachable state.
THEOREM Invariance == Spec => []IInv
<1> QED BY InitIInv, NextKeepsIInv, PTL DEF Spec

\* The notices, too.
THEOREM NoticesAreExclusive == Spec => []NoticesExclude
<1>1. Init => NoticesExclude
  BY DEF Init, NoticesExclude
<1>2. IInv /\ NoticesExclude /\ [Next]_vars => NoticesExclude'
  BY NoticesStand
<1> QED BY <1>1, <1>2, Invariance, PTL DEF Spec

\* No crash, failure, lapsed lease or rebalance loses a code that is current, and none makes a
\* second delivery of it; a code is not replaced, consumed or claimed while its delivery holds the
\* lock of the account, and a notice is sent by one worker at a time (the outbox, the relay and
\* the email worker).
THEOREM DeliverySafety == Spec => []DeliveryInv
<1>1. IInv /\ NoticesExclude => DeliveryInv
  BY DEF IInv, DeliveryInv
<1> QED BY <1>1, Invariance, NoticesAreExclusive, PTL

\* Outbox, partition, account locks and notices implement the courier: each of their steps is a
\* step of it, or changes nothing that it sees (RunOnce, WithCurrentDelivery,
\* WithNextPasswordChangeNotice).
THEOREM DeliveryImplementsCourier == Spec => ImplementsCourier
<1>1. Init => Mailer!Init
  <2> SUFFICES ASSUME Init PROVE Mailer!Init
    OBVIOUS
  <2>1. \A k \in Carrier : Hand[k] = Nobody /\ k \notin Holders
    BY LoopsCarry, Hands DEF HandsAre, Init, Idle
  <2>2. Hand = [k \in Carrier |-> Nobody] /\ Holders = {}
    BY <2>1, HandsByCarrier
  <2> QED BY <2>2 DEF Init, Mailer!Init, Created
<1>2. IInv /\ NoticesExclude /\ [Next]_vars => [Mailer!Next]_(Mailer!vars)
  BY StepsOfTheCourier
<1> QED BY <1>1, <1>2, Invariance, NoticesAreExclusive, PTL DEF Spec, ImplementsCourier, Mailer!Spec

\* What the courier promises follows from its steps alone.
LEMMA CourierKeepsPromise ==
  ASSUME Mailer!Promise, [Mailer!Next]_(Mailer!vars)
  PROVE  Mailer!Promise'
<1> USE DEF Mailer!Promise
<1>1. CASE UNCHANGED Mailer!vars
  <2>1. /\ Accepted' = Accepted /\ Kept' = Kept /\ UNCHANGED <<ended, expired, mailed>>
        /\ Hand' = Hand /\ Holders' = Holders
    BY <1>1 DEF Mailer!vars, Accepted, Kept
  <2> QED BY <2>1 DEF Mailer!Void, Accepted, Kept
<1>2. ASSUME NEW i, Mailer!Accept(i) \/ Mailer!Withdraw(i) \/ Mailer!Lapse(i) PROVE Mailer!Promise'
  <2>1. /\ Hand' = Hand /\ Holders' = Holders /\ mailed' = mailed
    BY <1>2 DEF Mailer!Accept, Mailer!Withdraw, Mailer!Lapse
  <2>2. CASE Mailer!Accept(i)
    BY <2>1, <2>2 DEF Mailer!Accept, Mailer!Void
  <2>3. CASE Mailer!Withdraw(i)
    BY <2>1, <2>3 DEF Mailer!Withdraw, Mailer!Void, Mailer!Held
  <2>4. CASE Mailer!Lapse(i)
    BY <2>1, <2>4 DEF Mailer!Lapse, Mailer!Void
  <2> QED BY <1>2, <2>2, <2>3, <2>4
<1>3. ASSUME NEW k \in Carrier, NEW i, Mailer!Take(k, i) PROVE Mailer!Promise'
  <2>1. /\ Hand'[k] = i /\ \A j \in Carrier \ {k} : Hand'[j] = Hand[j]
    BY <1>3, HandsByCarrier DEF Mailer!Take
  <2>2. \A j \in Holders \ {k} : j \in Carrier \ {k} /\ Hand[j] # i
    BY <1>3, HandsByCarrier DEF Mailer!Take, Mailer!Held
  <2> QED BY <1>3, <2>1, <2>2 DEF Mailer!Take, Mailer!Void
<1>4. ASSUME NEW k \in Carrier, Mailer!Mail(k) PROVE Mailer!Promise'
  BY <1>4 DEF Mailer!Mail, Mailer!Void
<1>5. ASSUME NEW K \in SUBSET Carrier, Mailer!LetGo(K)
      PROVE  /\ Holders' = Holders \ K /\ \A k \in Holders' : Hand'[k] = Hand[k]
             /\ ~ConnectionsFail => \A k \in Carrier : Hand'[k] # Nobody => k \in Holders'
  <2>1. \A k \in Carrier : Hand'[k] = IF k \in K THEN Nobody ELSE Hand[k]
    BY <1>5 DEF Mailer!LetGo
  <2> QED BY <1>5, <2>1, HandsByCarrier DEF Mailer!LetGo
<1>6. ASSUME NEW k \in Carrier, Mailer!Settle(k) PROVE Mailer!Promise'
  <2>1. /\ Holders' = Holders \ {k} /\ \A j \in Holders' : Hand'[j] = Hand[j]
        /\ ~ConnectionsFail => \A j \in Carrier : Hand'[j] # Nobody => j \in Holders'
    BY <1>5, <1>6 DEF Mailer!Settle
  <2>2. \A j \in Holders \ {k} : Hand[j] # Hand[k]
    BY <1>6 DEF Mailer!Settle
  <2> QED BY <1>6, <2>1, <2>2 DEF Mailer!Settle, Mailer!Void
<1>7. ASSUME NEW K \in SUBSET Carrier, Mailer!Fail(K) PROVE Mailer!Promise'
  <2>1. /\ Holders' = Holders \ K /\ \A j \in Holders' : Hand'[j] = Hand[j]
        /\ ~ConnectionsFail => \A j \in Carrier : Hand'[j] # Nobody => j \in Holders'
    BY <1>5, <1>7 DEF Mailer!Fail
  <2>2. mailed \subseteq mailed'
    BY <1>7 DEF Mailer!Fail
  <2> QED BY <1>7, <2>1, <2>2 DEF Mailer!Fail, Mailer!Void
<1>8. ASSUME NEW k \in Carrier, Mailer!BreakHold(k) PROVE Mailer!Promise'
  BY <1>8 DEF Mailer!BreakHold, Mailer!Void
<1>9. ASSUME NEW I, Mailer!Discard(I) PROVE Mailer!Promise'
  BY <1>9 DEF Mailer!Discard, Mailer!Void, Mailer!Held
<1> QED BY <1>1, <1>2, <1>3, <1>4, <1>6, <1>7, <1>8, <1>9 DEF Mailer!Next, Mailer!Busy

\* The workers keep the courier's promise: what is due is kept until it was mailed, what a worker
\* holds is not withdrawn and no other worker holds it, and if no connection breaks every code
\* that a worker is about to mail is held.
THEOREM CourierPromise == Spec => []Mailer!Promise
<1>1. Mailer!Init => Mailer!Promise
  BY DEF Mailer!Init, Mailer!Promise, Mailer!Void
<1>2. Mailer!Promise /\ [Mailer!Next]_(Mailer!vars) => Mailer!Promise'
  BY CourierKeepsPromise
<1> QED BY <1>1, <1>2, DeliveryImplementsCourier, PTL DEF ImplementsCourier, Mailer!Spec

\* While no database connection fails, a code that was replaced, consumed or claimed is not mailed
\* any more, however long the worker that fetched it was held up (WithCurrentDelivery keeps the
\* lock of the account through the mail call).
THEOREM EndedCodesAreNotMailed == Spec => [][~ConnectionsFail => mailed' \cap ended \subseteq mailed]_vars
<1>1. ASSUME Mailer!Promise, [Mailer!Next]_(Mailer!vars), ~ConnectionsFail
      PROVE  mailed' \cap ended \subseteq mailed
  <2>1. ASSUME NEW k \in Mailer!Busy PROVE Hand[k] \notin ended
    BY <1>1, <2>1 DEF Mailer!Promise, Mailer!Busy
  <2>2. mailed' = mailed \/ \E k \in Mailer!Busy : mailed' = mailed \cup {Hand[k]}
    <3>1. ASSUME NEW K \in SUBSET Mailer!Busy, Mailer!Fail(K)
          PROVE  mailed' = mailed \/ \E k \in Mailer!Busy : mailed' = mailed \cup {Hand[k]}
      BY <3>1 DEF Mailer!Fail
    <3>2. ASSUME NEW k \in Mailer!Busy, Mailer!Mail(k) \/ Mailer!Settle(k) \/ Mailer!BreakHold(k)
          PROVE  mailed' = mailed \/ mailed' = mailed \cup {Hand[k]}
      BY <3>2 DEF Mailer!Mail, Mailer!Settle, Mailer!BreakHold
    <3>3. ASSUME \/ \E i : \/ Mailer!Accept(i) \/ Mailer!Withdraw(i) \/ Mailer!Lapse(i) \/ Mailer!Discard(i)
                           \/ \E k : Mailer!Take(k, i)
                 \/ UNCHANGED Mailer!vars
          PROVE  mailed' = mailed
      BY <3>3 DEF Mailer!Accept, Mailer!Withdraw, Mailer!Lapse, Mailer!Discard, Mailer!Take, Mailer!vars
    <3> QED BY <1>1, <3>1, <3>2, <3>3 DEF Mailer!Next
  <2> QED BY <2>1, <2>2
<1>2. Mailer!Promise /\ [Mailer!Next]_(Mailer!vars) => (~ConnectionsFail => mailed' \cap ended \subseteq mailed)
  BY <1>1
<1> QED BY <1>2, CourierPromise, DeliveryImplementsCourier, PTL DEF ImplementsCourier, Mailer!Spec
=============================================================================
