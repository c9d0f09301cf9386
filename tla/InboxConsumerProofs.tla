------------------------ MODULE InboxConsumerProofs ------------------------
(***************************************************************************)
(* Proofs about InboxConsumer for any number of messages, processes,        *)
(* retries and faults.                                                     *)
(*                                                                         *)
(* The inbox row and the effects are written together or not at all, so a   *)
(* message's effects number its inbox rows, of which the unique key admits  *)
(* one (OneWrite).  Nothing the broker or the consumers do can disturb that. *)
(*                                                                         *)
(* No message is lost because a callback lets go of its own delivery only   *)
(* after it has seen an inbox row (Seen) or passed a copy with a higher     *)
(* redelivery count on (Passed); the count makes that argument well founded *)
(* although that copy may itself be let go of meanwhile.                    *)
(*                                                                         *)
(* Retries are bounded because every copy and every callback of a message    *)
(* has a number of attempts ahead of it (Weight), and no step of a callback  *)
(* or the broker makes their sum grow by more than was attempted (Budget).   *)
(***************************************************************************)
EXTENDS InboxConsumer, FiniteSetTheorems, TLAPS

\* The database's part of the types, and the strengthening of ExactlyOnce.
OneWrite ==
    /\ effects \in [Messages -> Nat]
    /\ \A m \in Messages : effects[m] = IF m \in inbox THEN 1 ELSE 0

LEMMA OneWriteInit == Init => OneWrite
BY DEF Init, OneWrite

\* The transaction of a handler writes both or neither.
LEMMA OneWriteCommit ==
    ASSUME OneWrite, NEW m, CommitTx(m)
    PROVE  OneWrite'
<1>1. effects' \in [Messages -> Nat]
  <2>1. ASSUME NEW k \in Messages PROVE effects[k] \in Nat /\ effects[k] + 1 \in Nat
      BY DEF OneWrite
  <2>2. effects' = [k \in Messages |-> IF k = m THEN effects[k] + 1 ELSE effects[k]]
      BY Zenon DEF OneWrite, CommitTx
  <2> QED BY <2>1, <2>2
<1>2. ASSUME NEW k \in Messages, k = m PROVE effects'[k] = 1 /\ k \in inbox'
  <2>1. effects[k] = 0
      BY <1>2 DEF OneWrite, CommitTx
  <2> QED BY <1>2, <2>1 DEF OneWrite, CommitTx
<1>3. ASSUME NEW k \in Messages, k # m
      PROVE  effects'[k] = effects[k] /\ (k \in inbox' <=> k \in inbox)
    BY <1>3 DEF OneWrite, CommitTx
<1>4. ASSUME NEW k \in Messages PROVE effects'[k] = IF k \in inbox' THEN 1 ELSE 0
    BY <1>2, <1>3 DEF OneWrite
<1> QED BY <1>1, <1>4 DEF OneWrite

LEMMA OneWriteStep == OneWrite /\ [Next]_vars => OneWrite'
<1> SUFFICES ASSUME OneWrite, [Next]_vars PROVE OneWrite'
    OBVIOUS
<1>1. ASSUME UNCHANGED database PROVE OneWrite'
    BY <1>1 DEF OneWrite, database
<1>2. CASE UNCHANGED vars
    BY <1>1, <1>2 DEF vars, database
<1>3. ASSUME NEW m \in Messages, Arrive(m) PROVE OneWrite'
    BY <1>1, <1>3 DEF Arrive
<1>4. ASSUME Expire PROVE OneWrite'
    BY <1>1, <1>4 DEF Expire, RetryDue
<1>5. ASSUME NEW p \in Procs, Connect(p) PROVE OneWrite'
    BY <1>1, <1>5 DEF Connect
<1>6. ASSUME NEW p \in Procs, Take(p) PROVE OneWrite'
    BY <1>1, <1>6 DEF Take, Ignore, Deliver
<1>7. ASSUME NEW p \in Procs, Work(p) PROVE OneWrite'
  <2> PICK job \in jobs[p] :
          \/ Lookup(p, job) \/ LookupFails(p, job) \/ Commit(p, job) \/ Fail(p, job)
          \/ Recover(p, job) \/ Ack(p, job) \/ Throw(p, job)
      BY <1>7 DEF Work
  <2>1. CASE Lookup(p, job)
      BY <1>1, <2>1 DEF Lookup
  <2>2. CASE LookupFails(p, job)
      BY <1>1, <2>2 DEF LookupFails
  <2>3. CASE Commit(p, job)
      BY <2>3, OneWriteCommit DEF Commit
  <2>4. CASE Fail(p, job)
      BY <1>1, <2>4 DEF Fail
  <2>5. CASE Recover(p, job)
      BY <1>1, <2>5 DEF Recover
  <2>6. CASE Ack(p, job)
      BY <1>1, <2>6 DEF Ack
  <2>7. CASE Throw(p, job)
      BY <1>1, <2>7 DEF Throw
  <2> QED BY <2>1, <2>2, <2>3, <2>4, <2>5, <2>6, <2>7
<1>8. ASSUME NEW p \in Procs, Break(p) PROVE OneWrite'
  <2>1. CASE Drop(p)
      BY <1>1, <2>1 DEF Drop
  <2>2. CASE Crash(p)
      BY <1>1, <2>2 DEF Crash
  <2>3. ASSUME NEW job \in jobs[p], LostCommit(p, job) PROVE OneWrite'
      BY <2>3, OneWriteCommit DEF LostCommit
  <2> QED BY <1>8, <2>1, <2>2, <2>3 DEF Break
<1> QED BY <1>2, <1>3, <1>4, <1>5, <1>6, <1>7, <1>8 DEF Next

LEMMA AlwaysOneWrite == Spec => []OneWrite
BY OneWriteInit, OneWriteStep, PTL DEF Spec

\* For all messages, processes, retry limits, prefetch and faults: handlers'
\* effects are committed at most once for each message.
THEOREM HandledOnce == Spec => []ExactlyOnce
<1>1. OneWrite => ExactlyOnce
    BY DEF OneWrite, ExactlyOnce
<1> QED BY <1>1, AlwaysOneWrite, PTL

-----------------------------------------------------------------------------
(* Types *)

\* A channel that is gone has no deliveries, and none has infinitely many.
Channels ==
    \A p \in Procs : /\ link[p] = "down" => unacked[p] = {}
                     /\ IsFiniteSet(unacked[p])

TInv == TypeOK /\ Channels

LEMMA ItemFacts ==
    ASSUME NEW i \in Items
    PROVE  /\ i.msg \in Messages /\ i.count \in 0..DelayedRetries
           /\ i.count < DelayedRetries =>
                 /\ [i EXCEPT !.count = @ + 1] \in Items
                 /\ [i EXCEPT !.count = @ + 1].msg = i.msg
                 /\ [i EXCEPT !.count = @ + 1].count = i.count + 1
BY RetriesAssumption DEF Items

LEMMA CountFacts ==
    ASSUME NEW i \in Items
    PROVE  i.msg \in Messages /\ i.count \in Nat /\ i.count + 1 \in Nat
<1>1. i.msg \in Messages /\ i.count \in 0..DelayedRetries
    BY DEF Items
<1> QED BY <1>1, RetriesAssumption

LEMMA FreshItem ==
    ASSUME NEW m \in Messages
    PROVE  [msg |-> m, count |-> 0] \in Items
BY RetriesAssumption DEF Items

\* Replacing or removing a callback.
LEMMA AdvanceType ==
    ASSUME TypeOK, NEW p \in Procs, NEW job \in jobs[p], NEW next \in Jobs,
           Advance(p, job, next)
    PROVE  jobs' \in [Procs -> SUBSET Jobs]
BY DEF TypeOK, Advance

LEMMA StepType ==
    ASSUME NEW job \in Jobs, NEW s \in Steps
    PROVE  /\ [job EXCEPT !.step = s] \in Jobs
           /\ [job EXCEPT !.step = s].step = s
           /\ [job EXCEPT !.step = s].item = job.item
BY DEF Jobs

LEMMA AfterFailureType ==
    ASSUME NEW job \in Jobs, job.step = "attempt"
    PROVE  /\ AfterFailure(job) \in Jobs
           /\ AfterFailure(job).step \in {"attempt", "failed"}
           /\ AfterFailure(job).item = job.item
BY RetriesAssumption DEF Jobs, AfterFailure, LastAttempt, Steps

LEMMA RequeueType ==
    ASSUME TInv, NEW p \in Procs, Requeue(p), UNCHANGED lastTag
    PROVE  /\ ready' \in [Items -> Nat]
           /\ unacked' \in [Procs -> SUBSET (Nat \X Items)]
           /\ \A q \in Procs : \A d \in unacked'[q] : d[1] \in 1..lastTag'[q]
           /\ link' \in [Procs -> {"up", "down"}]
           /\ Channels'
<1>1. ASSUME NEW i \in Items
      PROVE  Cardinality({d \in unacked[p] : d[2] = i}) \in Nat
    <2>1. IsFiniteSet({d \in unacked[p] : d[2] = i})
        BY FS_Subset DEF TInv, Channels
    <2> QED BY <2>1, FS_CardinalityType
<1>2. ready' \in [Items -> Nat]
    BY <1>1 DEF Requeue, TInv, TypeOK
<1>3. \A q \in Procs : unacked'[q] = IF q = p THEN {} ELSE unacked[q]
    BY DEF Requeue, TInv, TypeOK
<1>4. Channels'
    BY <1>3, FS_EmptySet DEF Requeue, TInv, TypeOK, Channels
<1> QED BY <1>2, <1>3, <1>4 DEF Requeue, TInv, TypeOK

LEMMA TInvInit == Init => TInv
<1> SUFFICES ASSUME Init PROVE TInv
    OBVIOUS
<1>1. TypeOK
    BY DEF Init, TypeOK
<1>2. Channels
    BY FS_EmptySet DEF Init, Channels
<1> QED BY <1>1, <1>2 DEF TInv

\* What the handler does in the database.
LEMMA CommitTxType ==
    ASSUME TypeOK, NEW m \in Messages, CommitTx(m)
    PROVE  inbox' \subseteq Messages /\ effects' \in [Messages -> Nat]
BY DEF TypeOK, CommitTx

LEMMA CountType ==
    ASSUME TypeOK, NEW job \in Jobs, Count(job)
    PROVE  attempts' \in [Messages -> Nat]
<1>1. job.item.msg \in Messages
    BY DEF Jobs, Items
<1> QED BY <1>1 DEF TypeOK, Count

LEMMA FaultType ==
    ASSUME TypeOK, NEW kind, Fault(kind)
    PROVE  faults' \in [FaultKinds -> Nat]
<1>1. \A k \in FaultKinds : faults[k] \in Nat /\ faults[k] + 1 \in Nat
    BY DEF TypeOK
<1>2. faults' = [k \in FaultKinds |-> IF k = kind THEN faults[k] + 1 ELSE faults[k]]
    BY Zenon DEF Fault, TypeOK
<1> QED BY <1>1, <1>2

LEMMA HandleErrorType ==
    ASSUME TypeOK, NEW i \in Items, HandleError(i)
    PROVE  waiting' \in [Items -> Nat] /\ dead' \subseteq Messages
<1>1. CASE i.count >= DelayedRetries
    BY <1>1, ItemFacts DEF HandleError, TypeOK
<1>2. CASE ~(i.count >= DelayedRetries)
    <2>1. [i EXCEPT !.count = @ + 1] \in Items
        BY <1>2, ItemFacts, RetriesAssumption
    <2> QED BY <1>2, <2>1 DEF HandleError, TypeOK
<1> QED BY <1>1, <1>2

\* A step of a callback that leaves the channel alone.
LEMMA CallbackType ==
    ASSUME TInv, UNCHANGED <<arrivals, ready, link, epoch, lastTag, unacked, misacked>>,
           waiting' \in [Items -> Nat], dead' \subseteq Messages,
           inbox' \subseteq Messages, effects' \in [Messages -> Nat],
           attempts' \in [Messages -> Nat], faults' \in [FaultKinds -> Nat],
           jobs' \in [Procs -> SUBSET Jobs]
    PROVE  TInv'
BY DEF TInv, TypeOK, Channels

LEMMA TInvWork ==
    ASSUME TInv, NEW p \in Procs, NEW job \in jobs[p],
           \/ Lookup(p, job) \/ LookupFails(p, job) \/ Commit(p, job) \/ Fail(p, job)
           \/ LostCommit(p, job) \/ Recover(p, job)
    PROVE  TInv'
<1>1. job \in Jobs /\ job.item \in Items /\ job.item.msg \in Messages
    BY DEF TInv, TypeOK, Jobs, Items
<1>2. CASE Lookup(p, job)
    <2>1. PICK s \in Steps : Advance(p, job, [job EXCEPT !.step = s])
        BY <1>2 DEF Lookup, Steps
    <2>2. jobs' \in [Procs -> SUBSET Jobs]
        BY <1>1, <2>1, StepType, AdvanceType DEF TInv
    <2> QED BY <1>2, <2>2, CallbackType DEF Lookup, broker, database, TInv, TypeOK
<1>3. CASE LookupFails(p, job)
    <2>1. jobs' \in [Procs -> SUBSET Jobs]
        BY <1>1, <1>3, StepType, AdvanceType DEF TInv, LookupFails, Steps
    <2> QED BY <1>3, <2>1, CallbackType DEF LookupFails, broker, database, TInv, TypeOK
<1>4. CASE Commit(p, job)
    <2>1. jobs' \in [Procs -> SUBSET Jobs]
        BY <1>1, <1>4, StepType, AdvanceType DEF TInv, Commit, Steps
    <2> QED BY <1>1, <1>4, <2>1, CallbackType, CommitTxType, CountType
            DEF Commit, broker, TInv, TypeOK
<1>5. CASE Fail(p, job)
    <2>1. jobs' \in [Procs -> SUBSET Jobs]
        BY <1>1, <1>5, AfterFailureType, AdvanceType DEF TInv, Fail
    <2> QED BY <1>1, <1>5, <2>1, CallbackType, CountType
            DEF Fail, broker, database, TInv, TypeOK
<1>6. CASE LostCommit(p, job)
    <2>1. jobs' \in [Procs -> SUBSET Jobs]
        BY <1>1, <1>6, AfterFailureType, AdvanceType DEF TInv, LostCommit
    <2>2. faults' \in [FaultKinds -> Nat]
        BY <1>6, FaultType DEF LostCommit, TInv
    <2> QED BY <1>1, <1>6, <2>1, <2>2, CallbackType, CommitTxType, CountType
            DEF LostCommit, broker, TInv, TypeOK
<1>7. CASE Recover(p, job)
    <2>1. jobs' \in [Procs -> SUBSET Jobs]
        BY <1>1, <1>7, StepType, AdvanceType DEF TInv, Recover, Steps
    <2> QED BY <1>1, <1>7, <2>1, CallbackType, HandleErrorType
            DEF Recover, database, TInv, TypeOK
<1> QED BY <1>2, <1>3, <1>4, <1>5, <1>6, <1>7

LEMMA TInvAck ==
    ASSUME TInv, NEW p \in Procs, NEW job \in jobs[p], Ack(p, job)
    PROVE  TInv'
<1>1. \A q \in Procs : unacked'[q] \subseteq unacked[q]
    BY DEF Ack, TInv, TypeOK
<1>2. unacked' \in [Procs -> SUBSET (Nat \X Items)]
    BY DEF Ack, TInv, TypeOK
<1>3. jobs' \in [Procs -> SUBSET Jobs]
    BY DEF Ack, TInv, TypeOK
<1>4. misacked' \subseteq Messages
    <2>1. \A d \in unacked[p] : d[2].msg \in Messages
        BY DEF TInv, TypeOK, Items
    <2> QED BY <2>1 DEF Ack, TInv, TypeOK
<1>5. Channels'
    BY <1>1, FS_Subset DEF Ack, TInv, Channels
<1>6. TypeOK'
    BY <1>1, <1>2, <1>3, <1>4 DEF Ack, database, TInv, TypeOK
<1> QED BY <1>5, <1>6 DEF TInv

LEMMA TInvRequeue ==
    ASSUME TInv, NEW p \in Procs, Requeue(p),
           jobs' \in [Procs -> SUBSET Jobs], faults' \in [FaultKinds -> Nat],
           UNCHANGED <<arrivals, waiting, dead, epoch, lastTag, database, attempts, misacked>>
    PROVE  TInv'
BY RequeueType DEF TInv, TypeOK, database

LEMMA TInvDeliver ==
    ASSUME TInv, NEW p \in Procs, NEW item \in Items, Deliver(p, item)
    PROVE  TInv'
<1> DEFINE tag == lastTag[p] + 1
           job == [tag |-> tag, epoch |-> epoch[p], item |-> item,
                   step |-> "lookup", left |-> ImmediateRetries]
<1>1. lastTag' = [lastTag EXCEPT ![p] = tag] /\ tag \in Nat \ {0} /\ lastTag'[p] = tag
    BY DEF Deliver, TInv, TypeOK
<1>2. unacked' = [unacked EXCEPT ![p] = @ \cup {<<tag, item>>}]
    BY <1>1 DEF Deliver
<1>3. jobs' = [jobs EXCEPT ![p] = @ \cup {job}]
    BY <1>1 DEF Deliver
<1>4. job \in Jobs
    BY <1>1, RetriesAssumption DEF Jobs, Steps, TInv, TypeOK
<1>5. jobs' \in [Procs -> SUBSET Jobs]
    BY <1>3, <1>4 DEF TInv, TypeOK
<1>6. unacked' \in [Procs -> SUBSET (Nat \X Items)]
    BY <1>1, <1>2 DEF TInv, TypeOK
<1>7. \A q \in Procs : \A d \in unacked'[q] : d[1] \in 1..lastTag'[q]
    BY <1>1, <1>2 DEF TInv, TypeOK
<1>8. ready' \in [Items -> Nat]
    BY DEF Deliver, CanTake, TInv, TypeOK
<1>9. Channels'
    <2>1. \A q \in Procs : IsFiniteSet(unacked'[q])
        BY <1>2, FS_AddElement DEF TInv, TypeOK, Channels
    <2> QED BY <1>2, <2>1 DEF Deliver, CanTake, TInv, TypeOK, Channels
<1>10. TypeOK'
    BY <1>1, <1>5, <1>6, <1>7, <1>8 DEF Deliver, database, TInv, TypeOK
<1> QED BY <1>9, <1>10 DEF TInv

LEMMA TInvStep == TInv /\ [Next]_vars => TInv'
<1> SUFFICES ASSUME TInv, [Next]_vars PROVE TInv'
    OBVIOUS
<1>1. CASE UNCHANGED vars
    BY <1>1 DEF vars, TInv, TypeOK, Channels
<1>2. ASSUME NEW m \in Messages, Arrive(m) PROVE TInv'
    BY <1>2, FreshItem DEF Arrive, database, TInv, TypeOK, Channels
<1>3. ASSUME NEW i \in Items, RetryDue(i) PROVE TInv'
    BY <1>3 DEF RetryDue, database, TInv, TypeOK, Channels
<1>4. ASSUME NEW p \in Procs, Connect(p) PROVE TInv'
    <2>1. /\ UNCHANGED <<unacked, ready, waiting, dead>>
          /\ lastTag' = [lastTag EXCEPT ![p] = 0] /\ unacked[p] = {}
        BY <1>4 DEF Connect, broker, TInv, Channels
    <2> QED BY <1>4, <2>1 DEF Connect, database, TInv, TypeOK, Channels
<1>5. ASSUME NEW p \in Procs, NEW i \in Items, Ignore(p, i) PROVE TInv'
    <2>1. ready' \in [Items -> Nat] /\ lastTag' \in [Procs -> Nat]
        BY <1>5 DEF Ignore, CanTake, TInv, TypeOK
    <2>2. \A q \in Procs : \A d \in unacked[q] : d[1] \in 1..lastTag'[q]
        BY <1>5 DEF Ignore, TInv, TypeOK
    <2> QED BY <1>5, <2>1, <2>2 DEF Ignore, database, TInv, TypeOK, Channels
<1>6. ASSUME NEW p \in Procs, NEW i \in Items, Deliver(p, i) PROVE TInv'
    BY <1>6, TInvDeliver
<1>7. ASSUME NEW p \in Procs, NEW job \in jobs[p], Throw(p, job) PROVE TInv'
    <2>1. jobs' \in [Procs -> SUBSET Jobs]
        BY <1>7 DEF Throw, Die, TInv, TypeOK
    <2> QED BY <1>7, <2>1, TInvRequeue DEF Throw, Die, TInv, TypeOK
<1>8. ASSUME NEW p \in Procs, Work(p) PROVE TInv'
    BY <1>7, <1>8, TInvWork, TInvAck DEF Work
<1>9. ASSUME NEW p \in Procs, Drop(p) \/ Crash(p) PROVE TInv'
    <2>1. jobs' \in [Procs -> SUBSET Jobs]
        BY <1>9 DEF Drop, Crash, Die, TInv, TypeOK
    <2>2. faults' \in [FaultKinds -> Nat]
        BY <1>9, FaultType DEF Drop, Crash, TInv
    <2> QED BY <1>9, <2>1, <2>2, TInvRequeue DEF Drop, Crash, Die, TInv, TypeOK
<1>10. ASSUME NEW p \in Procs, Break(p) PROVE TInv'
    BY <1>9, <1>10, TInvWork DEF Break
<1> QED BY <1>1, <1>2, <1>3, <1>4, <1>5, <1>6, <1>8, <1>10 DEF Next, Take, Expire

LEMMA AlwaysTInv == Spec => []TInv
BY TInvInit, TInvStep, PTL DEF Spec

\* The types of the variables hold in every state, and no callback retries more
\* often than it may.
THEOREM TypeCorrect == Spec => []TypeOK
<1>1. TInv => TypeOK
    BY DEF TInv
<1> QED BY <1>1, AlwaysTInv, PTL

-----------------------------------------------------------------------------
(* No message is lost *)

\* The items of which the broker has a copy.
Copies ==
    {i \in Items :
        \/ ready[i] + waiting[i] > 0
        \/ \E p \in Procs : \E d \in unacked[p] : d[2] = i}

\* The messages to which nothing more needs to happen.
Settled == inbox \cup dead \cup misacked

\* m is settled, or a copy of it is left that was redelivered n times or more.
Safe(m, n) == m \in Settled \/ \E i \in Copies : i.msg = m /\ i.count >= n

\* A callback that is done has seen, or written, the inbox row.
Seen ==
    \A p \in Procs : \A j \in jobs[p] : j.step = "handled" => j.item.msg \in inbox

\* A callback that has passed its message on has done so with a higher count.
Passed ==
    \A p \in Procs : \A j \in jobs[p] :
        j.step = "recovered" /\ j.item.msg \notin Ignored =>
            Safe(j.item.msg, j.item.count + 1)

Arrived == \A m \in Messages \ Ignored : arrivals[m] > 0 => Safe(m, 0)

IInv == TInv /\ Seen /\ Passed /\ Arrived

LEMMA CopyIsItem ==
    ASSUME NEW i \in Copies
    PROVE  i \in Items /\ i.msg \in Messages /\ i.count \in Nat
BY RetriesAssumption DEF Copies, Items

LEMMA HeldByCopies ==
    ASSUME TypeOK, NEW m \in Messages
    PROVE  Held(m) <=> \E i \in Copies : i.msg = m
<1>1. \A p \in Procs : \A d \in unacked[p] : d[2] \in Items
    BY DEF TypeOK
<1> QED BY <1>1 DEF Copies, Held

\* A step that unsettles nothing, and takes a copy away only when its message is
\* safe without it, keeps everything safe.
LEMMA SafeStays ==
    ASSUME Settled \subseteq Settled',
           \A i \in Copies : i.msg \notin Ignored => Safe(i.msg, i.count)',
           NEW m \in Messages \ Ignored, NEW n \in Nat, Safe(m, n)
    PROVE  Safe(m, n)'
<1>1. CASE m \in Settled
    BY <1>1 DEF Safe
<1>2. ASSUME NEW i \in Copies, i.msg = m, i.count >= n PROVE Safe(m, n)'
    <2>1. m \in Settled' \/ \E k \in Copies' : k.msg = m /\ k.count >= i.count
        BY <1>2 DEF Safe
    <2>2. ASSUME NEW k \in Copies', k.count >= i.count PROVE k.count >= n
        <3>1. k.count \in Nat
            BY RetriesAssumption DEF Copies, Items
        <3> QED BY <1>2, <2>2, <3>1, CopyIsItem
    <2> QED BY <2>1, <2>2 DEF Safe
<1> QED BY <1>1, <1>2 DEF Safe

\* So such a step keeps the invariant, if the callbacks that are done by then
\* were done before or are right about it.
LEMMA KeepsIInv ==
    ASSUME IInv, TInv', UNCHANGED arrivals,
           Settled \subseteq Settled', inbox \subseteq inbox',
           \A i \in Copies : i.msg \notin Ignored => Safe(i.msg, i.count)',
           \A p \in Procs : \A j \in jobs'[p] :
              \/ j \in jobs[p]
              \/ j.step = "handled" /\ j.item.msg \in inbox'
              \/ /\ j.step = "recovered"
                 /\ \/ j.item.msg \in Settled'
                    \/ \E i \in Copies' : i.msg = j.item.msg /\ i.count >= j.item.count + 1
              \/ j.step \notin {"handled", "recovered"}
    PROVE  IInv'
<1>1. Seen'
    BY DEF IInv, Seen
<1>2. ASSUME NEW p \in Procs, NEW j \in jobs'[p], j.step = "recovered",
             j.item.msg \notin Ignored
      PROVE  Safe(j.item.msg, j.item.count + 1)'
    <2>1. CASE j \notin jobs[p]
        <3>1. \/ j.item.msg \in Settled'
              \/ \E i \in Copies' : i.msg = j.item.msg /\ i.count >= j.item.count + 1
            BY <1>2, <2>1
        <3> QED BY <3>1 DEF Safe
    <2>2. CASE j \in jobs[p]
        <3>1. j.item \in Items
            BY <2>2 DEF IInv, TInv, TypeOK, Jobs
        <3>2. j.item.msg \in Messages \ Ignored /\ j.item.count + 1 \in Nat
            BY <1>2, <3>1, CountFacts
        <3>3. Safe(j.item.msg, j.item.count + 1)
            BY <1>2, <2>2 DEF IInv, Passed
        <3> QED BY <3>2, <3>3, SafeStays
    <2> QED BY <2>1, <2>2
<1>3. Passed'
    BY <1>2 DEF Passed
<1>4. ASSUME NEW m \in Messages \ Ignored, arrivals[m] > 0 PROVE Safe(m, 0)'
    <2>1. Safe(m, 0)
        BY <1>4 DEF IInv, Arrived
    <2> QED BY <2>1, SafeStays
<1>5. Arrived'
    BY <1>4 DEF Arrived
<1> QED BY <1>1, <1>3, <1>5 DEF IInv

LEMMA CopyIsSafe ==
    ASSUME NEW i \in Copies
    PROVE  Safe(i.msg, i.count)
<1>1. i.count >= i.count
    BY CopyIsItem
<1> QED BY <1>1 DEF Safe

\* Steps that touch neither the queues nor the database.
LEMMA SameCopies ==
    ASSUME UNCHANGED <<ready, waiting, unacked>>
    PROVE  Copies' = Copies
BY DEF Copies

\* A requeued delivery is a copy in the queue.
LEMMA RequeueKeeps ==
    ASSUME TInv, NEW p \in Procs, Requeue(p), UNCHANGED waiting
    PROVE  Copies' = Copies
<1>1. \A q \in Procs : unacked'[q] = IF q = p THEN {} ELSE unacked[q]
    BY DEF Requeue, TInv, TypeOK
<1>2. ASSUME NEW i \in Items
      PROVE  i \in Copies' <=> i \in Copies
    <2> DEFINE D == {d \in unacked[p] : d[2] = i}
    <2>1. IsFiniteSet(D)
        BY FS_Subset DEF TInv, Channels
    <2>2. Cardinality(D) \in Nat /\ (Cardinality(D) = 0 <=> D = {})
        BY <2>1, FS_CardinalityType, FS_EmptySet
    <2>3. ready'[i] = ready[i] + Cardinality(D)
        BY DEF Requeue
    <2>4. ready[i] \in Nat /\ waiting[i] \in Nat /\ waiting'[i] = waiting[i]
        BY DEF TInv, TypeOK
    <2>5. D = {} <=> \A d \in unacked[p] : d[2] # i
        OBVIOUS
    <2> HIDE DEF D
    <2>6. ready'[i] + waiting'[i] > 0 <=> ready[i] + waiting[i] > 0 \/ D # {}
        BY <2>2, <2>3, <2>4
    <2>7. (\E q \in Procs : \E d \in unacked'[q] : d[2] = i)
             <=> \E q \in Procs \ {p} : \E d \in unacked[q] : d[2] = i
        BY <1>1
    <2> QED BY <2>5, <2>6, <2>7 DEF Copies
<1> QED BY <1>2 DEF Copies

\* Taking a delivery, letting a TTL expire: the copy only moves.
LEMMA DeliverKeeps ==
    ASSUME TInv, NEW p \in Procs, NEW item \in Items, Deliver(p, item)
    PROVE  Copies' = Copies
<1> DEFINE tag == lastTag'[p]
<1>1. /\ ready' = [ready EXCEPT ![item] = @ - 1] /\ ready[item] > 0 /\ waiting' = waiting
      /\ \A q \in Procs : unacked'[q] = IF q = p THEN unacked[q] \cup {<<tag, item>>}
                                       ELSE unacked[q]
    BY DEF Deliver, CanTake, TInv, TypeOK
<1>2. item \in Copies /\ item \in Copies'
    <2>1. <<tag, item>> \in unacked'[p] /\ <<tag, item>>[2] = item
        BY <1>1
    <2>2. ready[item] + waiting[item] > 0
        BY <1>1 DEF TInv, TypeOK
    <2> QED BY <2>1, <2>2 DEF Copies
<1>3. ASSUME NEW i \in Items, i # item PROVE i \in Copies' <=> i \in Copies
    <2>1. ready'[i] = ready[i] /\ waiting'[i] = waiting[i]
        BY <1>1, <1>3 DEF TInv, TypeOK
    <2>2. <<tag, item>>[2] # i
        BY <1>3
    <2>3. (\E q \in Procs : \E d \in unacked'[q] : d[2] = i)
             <=> \E q \in Procs : \E d \in unacked[q] : d[2] = i
        BY <1>1, <2>2
    <2> QED BY <2>1, <2>3 DEF Copies
<1> QED BY <1>2, <1>3 DEF Copies

LEMMA RetryDueKeeps ==
    ASSUME TInv, NEW item \in Items, RetryDue(item)
    PROVE  Copies' = Copies
<1>1. \A i \in Items : /\ ready[i] \in Nat /\ waiting[i] \in Nat
                        /\ ready'[i] + waiting'[i] = ready[i] + waiting[i]
    BY DEF RetryDue, TInv, TypeOK
<1> QED BY <1>1 DEF Copies, RetryDue

\* An ignored delivery is the only copy that may go.
LEMMA IgnoreKeeps ==
    ASSUME TInv, NEW p \in Procs, NEW item \in Items, Ignore(p, item)
    PROVE  Copies' \subseteq Copies /\ Copies \ {item} \subseteq Copies'
<1>1. \A i \in Items :
         /\ ready[i] \in Nat /\ waiting[i] \in Nat /\ ready'[i] \in Int
         /\ ready'[i] <= ready[i] /\ waiting'[i] = waiting[i]
         /\ i # item => ready'[i] = ready[i]
    BY DEF Ignore, CanTake, TInv, TypeOK
<1>2. unacked' = unacked
    BY DEF Ignore
<1> QED BY <1>1, <1>2 DEF Copies

\* An acknowledgement takes away the callback's own delivery, or one whose
\* message is recorded as given up.
LEMMA AckKeeps ==
    ASSUME TInv, NEW p \in Procs, NEW job \in jobs[p], Ack(p, job)
    PROVE  /\ Copies' \subseteq Copies
           /\ \A i \in Copies \ Copies' : i = job.item \/ i.msg \in misacked'
<1>1. /\ UNCHANGED <<ready, waiting>>
      /\ \A q \in Procs : unacked'[q] = IF q = p THEN {d \in unacked[q] : d[1] # job.tag}
                                       ELSE unacked[q]
    BY DEF Ack, TInv, TypeOK
<1>2. Copies' \subseteq Copies
    BY <1>1 DEF Copies
<1>3. ASSUME NEW i \in Copies, i \notin Copies', i # job.item
      PROVE  i.msg \in misacked'
    <2>1. PICK q \in Procs : \E d \in unacked[q] : d[2] = i
        BY <1>1, <1>3 DEF Copies
    <2>2. PICK d \in unacked[q] : d[2] = i
        BY <2>1
    <2>3. q = p /\ d[1] = job.tag
        BY <1>1, <1>3, <2>2 DEF Copies
    <2> QED BY <1>3, <2>2, <2>3 DEF Ack
<1> QED BY <1>2, <1>3

\* A step that changes no queue but perhaps the database, and may move callbacks.
LEMMA QuietStep ==
    ASSUME IInv, TInv', UNCHANGED <<arrivals, dead, misacked>>, Copies' = Copies,
           inbox \subseteq inbox',
           \A p \in Procs : \A j \in jobs'[p] :
              \/ j \in jobs[p]
              \/ j.step = "handled" /\ j.item.msg \in inbox'
              \/ j.step \notin {"handled", "recovered"}
    PROVE  IInv'
<1>1. Settled \subseteq Settled'
    BY DEF Settled
<1>2. ASSUME NEW i \in Copies PROVE Safe(i.msg, i.count)'
    <2>1. i \in Copies' /\ i.count >= i.count
        BY CopyIsItem
    <2> QED BY <2>1 DEF Safe
<1> QED BY <1>1, <1>2, KeepsIInv

\* A callback that moves to next, when next is not done or is right about it.
LEMMA AdvanceStep ==
    ASSUME IInv, TInv', NEW p \in Procs, NEW job \in jobs[p], NEW next,
           Advance(p, job, next),
           UNCHANGED <<arrivals, ready, waiting, dead, unacked, misacked>>,
           inbox \subseteq inbox',
           next.step = "handled" => next.item.msg \in inbox',
           next.step # "recovered"
    PROVE  IInv'
<1>1. \A q \in Procs : \A j \in jobs'[q] : j \in jobs[q] \/ j = next
    BY DEF Advance, IInv, TInv, TypeOK
<1>2. Copies' = Copies
    BY SameCopies
<1> QED BY <1>1, <1>2, QuietStep

LEMMA RecoverStep ==
    ASSUME IInv, TInv', NEW p \in Procs, NEW job \in jobs[p], Recover(p, job)
    PROVE  IInv'
<1> DEFINE item == job.item
           next == [job EXCEPT !.step = "recovered"]
           more == [item EXCEPT !.count = @ + 1]
<1>1. job \in Jobs /\ item \in Items
    BY DEF IInv, TInv, TypeOK, Jobs
<1>2. next.item = item /\ next.step = "recovered"
    BY <1>1, StepType DEF Steps
<1>3. \A q \in Procs : \A j \in jobs'[q] : j \in jobs[q] \/ j = next
    BY DEF Recover, Advance, IInv, TInv, TypeOK
<1>4. UNCHANGED <<arrivals, ready, unacked, inbox, misacked>>
    BY DEF Recover, database
<1>5. ready \in [Items -> Nat] /\ waiting \in [Items -> Nat]
    BY DEF IInv, TInv, TypeOK
<1>6. /\ Settled \subseteq Settled' /\ Copies \subseteq Copies'
      /\ \/ item.msg \in Settled'
         \/ \E i \in Copies' : i.msg = item.msg /\ i.count >= item.count + 1
    <2>1. CASE item.count >= DelayedRetries
        <3>1. dead' = dead \cup {item.msg} /\ waiting' = waiting
            BY <2>1 DEF Recover, HandleError
        <3> QED BY <1>4, <3>1 DEF Settled, Copies
    <2>2. CASE ~(item.count >= DelayedRetries)
        <3>1. waiting' = [waiting EXCEPT ![more] = @ + 1] /\ dead' = dead
            BY <2>2 DEF Recover, HandleError
        <3>2. more \in Items /\ more.msg = item.msg /\ more.count = item.count + 1
            BY <1>1, <2>2, ItemFacts, RetriesAssumption
        <3>3. \A i \in Items : waiting'[i] >= waiting[i]
            BY <1>5, <3>1, <3>2
        <3>4. ready'[more] + waiting'[more] > 0
            BY <1>4, <1>5, <3>1, <3>2
        <3>5. Copies \subseteq Copies'
            <4>1. ASSUME NEW i \in Items, ready[i] + waiting[i] > 0
                  PROVE  ready'[i] + waiting'[i] > 0
                BY <1>4, <1>5, <3>1, <3>2, <4>1
            <4> QED BY <1>4, <4>1 DEF Copies
        <3>6. more \in Copies'
            BY <3>2, <3>4 DEF Copies
        <3>7. more.count >= item.count + 1
            BY <1>1, <3>2, ItemFacts, RetriesAssumption
        <3> HIDE DEF more
        <3> QED BY <1>4, <3>1, <3>2, <3>5, <3>6, <3>7 DEF Settled
    <2> QED BY <2>1, <2>2
<1>7. ASSUME NEW i \in Copies PROVE Safe(i.msg, i.count)'
    <2>1. i \in Copies' /\ i.count >= i.count
        BY <1>6, CopyIsItem
    <2> QED BY <2>1 DEF Safe
<1> HIDE DEF next, item, more
<1> QED BY <1>2, <1>3, <1>4, <1>6, <1>7, KeepsIInv DEF item

LEMMA AckStep ==
    ASSUME IInv, TInv', NEW p \in Procs, NEW job \in jobs[p], Ack(p, job)
    PROVE  IInv'
<1>1. /\ UNCHANGED <<arrivals, inbox, dead>> /\ misacked \subseteq misacked'
      /\ \A q \in Procs : jobs'[q] \subseteq jobs[q]
    BY DEF Ack, database, IInv, TInv, TypeOK
<1>2. Settled \subseteq Settled'
    BY <1>1 DEF Settled
<1>3. job.item \in Items
    BY DEF IInv, TInv, TypeOK, Jobs
<1>4. \A i \in Copies \ Copies' : i = job.item \/ i.msg \in misacked'
    BY AckKeeps DEF IInv
<1>5. ASSUME NEW i \in Copies, i.msg \notin Ignored PROVE Safe(i.msg, i.count)'
    <2>1. CASE i \in Copies'
        <3>1. i.count >= i.count
            BY CopyIsItem
        <3> QED BY <2>1, <3>1 DEF Safe
    <2>2. CASE i \notin Copies' /\ i.msg \in misacked'
        BY <2>2 DEF Safe, Settled
    <2>3. CASE i = job.item /\ job.step = "handled"
        BY <1>1, <2>3 DEF IInv, Seen, Safe, Settled
    <2>4. CASE i = job.item /\ job.step = "recovered"
        <3>1. Safe(i.msg, i.count + 1)
            BY <1>5, <2>4 DEF IInv, Passed
        <3>2. CASE i.msg \in Settled
            BY <1>2, <3>2 DEF Safe
        <3>3. ASSUME NEW k \in Copies, k.msg = i.msg, k.count >= i.count + 1
              PROVE  Safe(i.msg, i.count)'
            <4>1. k.count \in Nat /\ i.count \in Nat
                BY CopyIsItem
            <4>2. k # i /\ k.count >= i.count
                BY <3>3, <4>1
            <4>3. CASE k \in Copies'
                BY <3>3, <4>2, <4>3 DEF Safe
            <4>4. CASE k.msg \in misacked'
                BY <3>3, <4>4 DEF Safe, Settled
            <4> QED BY <1>4, <2>4, <4>2, <4>3, <4>4
        <3> QED BY <3>1, <3>2, <3>3 DEF Safe
    <2>5. job.step \in {"handled", "recovered"}
        BY DEF Ack
    <2> QED BY <1>4, <2>1, <2>2, <2>3, <2>4, <2>5
<1> QED BY <1>1, <1>2, <1>5, KeepsIInv

LEMMA IgnoreStep ==
    ASSUME IInv, TInv', NEW p \in Procs, NEW item \in Items, Ignore(p, item)
    PROVE  IInv'
<1>1. /\ UNCHANGED <<arrivals, inbox, dead, misacked, jobs>>
      /\ Settled' = Settled
    BY DEF Ignore, database, Settled
<1>2. ASSUME NEW i \in Copies, i.msg \notin Ignored PROVE Safe(i.msg, i.count)'
    <2>1. i # item
        BY <1>2 DEF Ignore
    <2>2. i \in Copies' /\ i.count >= i.count
        BY <2>1, IgnoreKeeps, CopyIsItem DEF IInv
    <2> QED BY <2>2 DEF Safe
<1>3. \A q \in Procs : \A j \in jobs'[q] : j \in jobs[q]
    BY <1>1
<1> QED BY <1>1, <1>2, <1>3, KeepsIInv

\* A process that loses its channel keeps some of its callbacks, or none.
LEMMA RequeueStep ==
    ASSUME IInv, TInv', NEW p \in Procs, Requeue(p),
           UNCHANGED <<arrivals, waiting, dead, inbox, misacked>>,
           \A q \in Procs : jobs'[q] \subseteq jobs[q]
    PROVE  IInv'
<1>1. Copies' = Copies
    BY RequeueKeeps DEF IInv
<1>2. \A q \in Procs : \A j \in jobs'[q] : j \in jobs[q]
    OBVIOUS
<1> QED BY <1>1, <1>2, QuietStep

\* A copy that arrives makes its message safe.
LEMMA ArriveStep ==
    ASSUME IInv, TInv', NEW m \in Messages, Arrive(m)
    PROVE  IInv'
<1> DEFINE fresh == [msg |-> m, count |-> 0]
<1>1. fresh \in Items /\ fresh.msg = m /\ fresh.count = 0
    BY FreshItem
<1>2. /\ UNCHANGED <<waiting, unacked, inbox, dead, misacked, jobs>>
      /\ ready' = [ready EXCEPT ![fresh] = @ + 1]
      /\ arrivals' = [arrivals EXCEPT ![m] = @ + 1]
    BY DEF Arrive, database
<1>3. ready \in [Items -> Nat] /\ waiting \in [Items -> Nat] /\ arrivals \in [Messages -> Nat]
    BY DEF IInv, TInv, TypeOK
<1>4. Settled' = Settled
    BY <1>2 DEF Settled
<1>5. Copies \subseteq Copies' /\ fresh \in Copies'
    <2>1. \A i \in Items : ready[i] + waiting[i] > 0 => ready'[i] + waiting'[i] > 0
        BY <1>1, <1>2, <1>3
    <2>2. ready'[fresh] + waiting'[fresh] > 0
        BY <1>1, <1>2, <1>3
    <2> HIDE DEF fresh
    <2> QED BY <1>1, <1>2, <2>1, <2>2 DEF Copies
<1> HIDE DEF fresh
<1>6. ASSUME NEW i \in Copies PROVE Safe(i.msg, i.count)'
    <2>1. i \in Copies' /\ i.count >= i.count
        BY <1>5, CopyIsItem
    <2> QED BY <2>1 DEF Safe
<1>7. Seen'
    BY <1>2 DEF IInv, Seen
<1>8. ASSUME NEW k \in Messages \ Ignored, NEW n \in Nat, Safe(k, n) PROVE Safe(k, n)'
    BY <1>4, <1>6, <1>8, SafeStays
<1>9. ASSUME NEW q \in Procs, NEW j \in jobs'[q], j.step = "recovered",
             j.item.msg \notin Ignored
      PROVE  Safe(j.item.msg, j.item.count + 1)'
    <2>1. j \in jobs[q]
        BY <1>2, <1>9
    <2>2. j.item \in Items
        BY <2>1 DEF IInv, TInv, TypeOK, Jobs
    <2>3. j.item.msg \in Messages \ Ignored /\ j.item.count + 1 \in Nat
        BY <1>9, <2>2, CountFacts
    <2>4. Safe(j.item.msg, j.item.count + 1)
        BY <1>9, <2>1 DEF IInv, Passed
    <2> QED BY <1>8, <2>3, <2>4
<1>10. ASSUME NEW k \in Messages \ Ignored, arrivals'[k] > 0 PROVE Safe(k, 0)'
    <2>1. CASE k = m
        BY <1>1, <1>5, <2>1 DEF Safe
    <2>2. CASE k # m
        <3>1. arrivals[k] > 0
            BY <1>2, <1>3, <1>10, <2>2
        <3> QED BY <1>8, <3>1 DEF IInv, Arrived
    <2> QED BY <2>1, <2>2
<1>11. Passed' /\ Arrived'
    BY <1>9, <1>10 DEF Passed, Arrived
<1> QED BY <1>7, <1>11 DEF IInv

LEMMA IInvInit == Init => IInv
<1> SUFFICES ASSUME Init PROVE IInv
    OBVIOUS
<1>1. Seen /\ Passed
    BY DEF Init, Seen, Passed
<1>2. Arrived
    BY DEF Init, Arrived
<1> QED BY <1>1, <1>2, TInvInit DEF IInv

LEMMA IInvWork ==
    ASSUME IInv, TInv', NEW p \in Procs, Work(p)
    PROVE  IInv'
<1> PICK job \in jobs[p] :
        \/ Lookup(p, job) \/ LookupFails(p, job) \/ Commit(p, job) \/ Fail(p, job)
        \/ Recover(p, job) \/ Ack(p, job) \/ Throw(p, job)
    BY DEF Work
<1>1. job \in Jobs
    BY DEF IInv, TInv, TypeOK
<1>2. CASE Lookup(p, job)
    <2> DEFINE s == IF job.item.msg \in inbox THEN "handled" ELSE "attempt"
               next == [job EXCEPT !.step = s]
    <2>1. s \in Steps
        BY DEF Steps
    <2>2. next.step = s /\ next.item = job.item
        BY <1>1, <2>1, StepType
    <2>3. Advance(p, job, next)
          /\ UNCHANGED <<arrivals, ready, waiting, dead, unacked, misacked, inbox>>
        BY <1>2 DEF Lookup, broker, database
    <2>4. s = "handled" => job.item.msg \in inbox
        OBVIOUS
    <2>5. s # "recovered"
        OBVIOUS
    <2> HIDE DEF next, s
    <2> QED BY <2>2, <2>3, <2>4, <2>5, AdvanceStep
<1>3. CASE LookupFails(p, job)
    <2> DEFINE next == [job EXCEPT !.step = "failed"]
    <2>1. next.step = "failed"
        BY <1>1, StepType DEF Steps
    <2>2. Advance(p, job, next)
          /\ UNCHANGED <<arrivals, ready, waiting, dead, unacked, misacked, inbox>>
        BY <1>3 DEF LookupFails, broker, database
    <2> HIDE DEF next
    <2> QED BY <2>1, <2>2, AdvanceStep
<1>4. CASE Commit(p, job)
    <2> DEFINE next == [job EXCEPT !.step = "handled"]
    <2>1. next.step = "handled" /\ next.item = job.item
        BY <1>1, StepType DEF Steps
    <2>2. /\ Advance(p, job, next) /\ inbox' = inbox \cup {job.item.msg}
          /\ UNCHANGED <<arrivals, ready, waiting, dead, unacked, misacked>>
        BY <1>4 DEF Commit, CommitTx, broker
    <2> HIDE DEF next
    <2> QED BY <2>1, <2>2, AdvanceStep
<1>5. CASE Fail(p, job)
    <2>1. AfterFailure(job).step \in {"attempt", "failed"}
        BY <1>1, <1>5, AfterFailureType DEF Fail
    <2>2. Advance(p, job, AfterFailure(job))
          /\ UNCHANGED <<arrivals, ready, waiting, dead, unacked, misacked, inbox>>
        BY <1>5 DEF Fail, broker, database
    <2> QED BY <2>1, <2>2, AdvanceStep
<1>6. CASE Recover(p, job)
    BY <1>6, RecoverStep
<1>7. CASE Ack(p, job)
    BY <1>7, AckStep
<1>8. CASE Throw(p, job)
    <2>1. \A q \in Procs : jobs'[q] \subseteq jobs[q]
        BY <1>8 DEF Throw, Die, IInv, TInv, TypeOK
    <2> QED BY <1>8, <2>1, RequeueStep DEF Throw, Die, database
<1> QED BY <1>2, <1>3, <1>4, <1>5, <1>6, <1>7, <1>8

LEMMA IInvBreak ==
    ASSUME IInv, TInv', NEW p \in Procs, Break(p)
    PROVE  IInv'
<1>1. CASE Drop(p) \/ Crash(p)
    <2>1. \A q \in Procs : jobs'[q] \subseteq jobs[q]
        BY <1>1 DEF Drop, Crash, Die, IInv, TInv, TypeOK
    <2> QED BY <1>1, <2>1, RequeueStep DEF Drop, Crash, Die, database
<1>2. ASSUME NEW job \in jobs[p], LostCommit(p, job) PROVE IInv'
    <2>1. job \in Jobs
        BY DEF IInv, TInv, TypeOK
    <2>2. AfterFailure(job).step \in {"attempt", "failed"}
        BY <1>2, <2>1, AfterFailureType DEF LostCommit
    <2>3. /\ Advance(p, job, AfterFailure(job)) /\ inbox \subseteq inbox'
          /\ UNCHANGED <<arrivals, ready, waiting, dead, unacked, misacked>>
        BY <1>2 DEF LostCommit, CommitTx, broker
    <2> QED BY <2>2, <2>3, AdvanceStep
<1> QED BY <1>1, <1>2 DEF Break

LEMMA IInvStep == IInv /\ [Next]_vars => IInv'
<1> SUFFICES ASSUME IInv, [Next]_vars PROVE IInv'
    OBVIOUS
<1>1. TInv'
    BY TInvStep DEF IInv
<1>2. CASE UNCHANGED vars
    <2>1. Copies' = Copies /\ \A q \in Procs : \A j \in jobs'[q] : j \in jobs[q]
        BY <1>2 DEF vars, Copies
    <2> QED BY <1>1, <1>2, <2>1, QuietStep DEF vars
<1>3. ASSUME NEW m \in Messages, Arrive(m) PROVE IInv'
    BY <1>1, <1>3, ArriveStep
<1>4. ASSUME NEW item \in Items, RetryDue(item) PROVE IInv'
    <2>1. Copies' = Copies
        BY <1>4, RetryDueKeeps DEF IInv
    <2>2. \A q \in Procs : \A j \in jobs'[q] : j \in jobs[q]
        BY <1>4 DEF RetryDue
    <2> QED BY <1>1, <1>4, <2>1, <2>2, QuietStep DEF RetryDue, database
<1>5. ASSUME NEW p \in Procs, Connect(p) PROVE IInv'
    <2>1. Copies' = Copies /\ \A q \in Procs : \A j \in jobs'[q] : j \in jobs[q]
        BY <1>5 DEF Connect, broker, Copies
    <2> QED BY <1>1, <1>5, <2>1, QuietStep DEF Connect, broker, database
<1>6. ASSUME NEW p \in Procs, NEW item \in Items, Ignore(p, item) PROVE IInv'
    BY <1>1, <1>6, IgnoreStep
<1>7. ASSUME NEW p \in Procs, NEW item \in Items, Deliver(p, item) PROVE IInv'
    <2>1. Copies' = Copies
        BY <1>7, DeliverKeeps DEF IInv
    <2>2. \A q \in Procs : \A j \in jobs'[q] :
              j \in jobs[q] \/ j.step \notin {"handled", "recovered"}
        BY <1>7 DEF Deliver, IInv, TInv, TypeOK
    <2> QED BY <1>1, <1>7, <2>1, <2>2, QuietStep DEF Deliver, database
<1> QED BY <1>1, <1>2, <1>3, <1>4, <1>5, <1>6, <1>7, IInvWork, IInvBreak
        DEF Next, Take, Expire

LEMMA AlwaysIInv == Spec => []IInv
BY IInvInit, IInvStep, PTL DEF Spec

\* For all messages, processes, limits and faults: a message that reached the
\* queue is handled, in the error queue, still with the broker, or was
\* acknowledged for another one by a callback that outlived its channel.
THEOREM NoMessageLost == Spec => []NothingLost
<1>1. IInv => NothingLost
    <2> SUFFICES ASSUME IInv, NEW m \in Messages \ Ignored, arrivals[m] > 0
                 PROVE  m \in inbox \cup dead \cup misacked \/ Held(m)
        BY DEF NothingLost
    <2>1. Safe(m, 0)
        BY DEF IInv, Arrived
    <2>2. Held(m) <=> \E i \in Copies : i.msg = m
        BY HeldByCopies DEF IInv, TInv
    <2> QED BY <2>1, <2>2 DEF Safe, Settled
<1> QED BY <1>1, AlwaysIInv, PTL

-----------------------------------------------------------------------------
(* The consumer is a mailbox *)

Queued == {m \in Messages : Held(m)}

Published == {m \in Messages : arrivals[m] > 0}

\* Only what was published has copies and callbacks.
Known ==
    /\ \A i \in Copies : arrivals[i.msg] > 0
    /\ \A p \in Procs : \A j \in jobs[p] : arrivals[j.item.msg] > 0

LEMMA KnownInit == Init => Known
<1> SUFFICES ASSUME Init PROVE Known
    OBVIOUS
<1>1. \A i \in Items : ~(ready[i] + waiting[i] > 0)
    BY DEF Init
<1> QED BY <1>1 DEF Init, Known, Copies

\* Copies come from copies and from callbacks, callbacks from both.
LEMMA KnownStays ==
    ASSUME Known, UNCHANGED arrivals,
           \A i \in Copies' : i \in Copies \/ arrivals[i.msg] > 0,
           \A p \in Procs : \A j \in jobs'[p] :
              j.item \in Copies \/ \E k \in jobs[p] : k.item = j.item
    PROVE  Known'
BY DEF Known

LEMMA KnownAdvance ==
    ASSUME Known, TypeOK, UNCHANGED <<arrivals, ready, waiting, unacked>>,
           NEW p \in Procs, NEW job \in jobs[p], NEW next,
           Advance(p, job, next), next.item = job.item
    PROVE  Known' /\ Copies' = Copies
<1>1. \A q \in Procs : \A j \in jobs'[q] : \E k \in jobs[q] : k.item = j.item
    BY DEF TypeOK, Advance
<1> QED BY <1>1, SameCopies, KnownStays

LEMMA KnownItem ==
    ASSUME Known, TypeOK, NEW p \in Procs, NEW job \in jobs[p]
    PROVE  /\ job.item \in Items /\ job.item.msg \in Messages
           /\ arrivals[job.item.msg] > 0
<1>1. job.item \in Items
    BY DEF TypeOK, Jobs
<1> QED BY <1>1, ItemFacts DEF Known

LEMMA QueuedNow ==
    ASSUME TypeOK
    PROVE  Queued = {i.msg : i \in Copies}
<1>1. \A m \in Messages : Held(m) <=> \E i \in Copies : i.msg = m
    BY HeldByCopies
<1> QED BY <1>1, CopyIsItem DEF Queued

LEMMA QueuedNext ==
    ASSUME TypeOK'
    PROVE  Queued' = {i.msg : i \in Copies'}
<1>1. \A p \in Procs : \A d \in unacked'[p] : d[2] \in Items
    BY DEF TypeOK
<1>2. \A m \in Messages : m \in Queued' <=> \E i \in Copies' : i.msg = m
    BY <1>1 DEF Queued, Held, Copies
<1>3. \A i \in Copies' : i.msg \in Messages
    BY DEF Copies, Items
<1>4. \A m \in Queued' : m \in Messages
    BY DEF Queued
<1> QED BY <1>2, <1>3, <1>4

\* A step that the mailbox does not see.
LEMMA Unseen ==
    ASSUME TypeOK, TypeOK', Copies' = Copies, UNCHANGED <<arrivals, effects, dead, misacked>>
    PROVE  UNCHANGED M!vars
<1>1. Queued' = Queued
    BY QueuedNow, QueuedNext
<1>2. Published' = Published
    BY DEF Published
<1> QED BY <1>1, <1>2 DEF M!vars, Queued, Published

\* A message arrives, or comes again for a retry.
LEMMA Publishes ==
    ASSUME TypeOK, TypeOK', UNCHANGED <<effects, dead, misacked>>,
           NEW i \in Items, Copies' = Copies \cup {i},
           Published' = Published \cup {i.msg}
    PROVE  M!Next
<1>1. i.msg \in Messages
    BY ItemFacts
<1>2. Queued' = Queued \cup {i.msg}
    BY QueuedNow, QueuedNext
<1>3. M!Publish(i.msg)
    BY <1>2 DEF M!Publish, Queued, Published
<1> QED BY <1>1, <1>3 DEF M!Next

\* A copy goes; if it was the last, NothingLost says that it may.
LEMMA Forgets ==
    ASSUME TypeOK, TypeOK', OneWrite', NothingLost', Copies' \subseteq Copies, Known,
           UNCHANGED <<arrivals, effects, inbox, dead>>,
           misacked \subseteq misacked', misacked' \subseteq misacked \cup Published
    PROVE  M!Next
<1> DEFINE F == Queued \ Queued'
           L == misacked' \ misacked
<1>1. Queued' = Queued \ F
    BY QueuedNow, QueuedNext
<1>2. F \subseteq Published /\ F \subseteq Messages /\ Published \subseteq Messages
    BY QueuedNow, CopyIsItem DEF Queued, Published, Known
<1>3. ASSUME NEW m \in F
      PROVE  m \in Ignored \cup dead \cup misacked' \/ effects[m] > 0
    <2>1. m \in Messages /\ arrivals'[m] > 0 /\ m \notin Queued'
        BY <1>2 DEF Published
    <2>2. CASE m \in inbox'
        BY <2>1, <2>2 DEF OneWrite
    <2> QED BY <2>1, <2>2 DEF NothingLost, Queued
<1>4. M!Forget(F, L)
    BY <1>1, <1>3 DEF M!Forget, Queued, Published
<1> QED BY <1>2, <1>4 DEF M!Next

\* The inbox row is written with the effects.
LEMMA Handles ==
    ASSUME TypeOK, TypeOK', OneWrite, Copies' = Copies, UNCHANGED <<arrivals, dead, misacked>>,
           NEW m \in Messages, arrivals[m] > 0, CommitTx(m)
    PROVE  M!Next
<1>1. Queued' = Queued /\ Published' = Published
    BY QueuedNow, QueuedNext DEF Published
<1>2. effects[m] = 0 /\ effects' = [effects EXCEPT ![m] = 1]
  <2>1. effects[m] = 0
      BY DEF OneWrite, CommitTx
  <2>2. effects' = [effects EXCEPT ![m] = effects[m] + 1]
      BY Zenon DEF CommitTx
  <2>3. effects[m] + 1 = 1
      BY <2>1
  <2> QED BY <2>1, <2>2, <2>3
<1>3. M!Handle(m)
    BY <1>1, <1>2 DEF M!Handle, Queued, Published
<1> QED BY <1>3 DEF M!Next
LEMMA ServesArrive ==
    ASSUME IInv, TInv', Known, NEW m \in Messages, Arrive(m)
    PROVE  Known' /\ M!Next
<1> DEFINE fresh == [msg |-> m, count |-> 0]
<1>1. fresh \in Items /\ fresh.msg = m
    BY FreshItem
<1>2. /\ UNCHANGED <<waiting, unacked, effects, dead, misacked, jobs>>
      /\ ready' = [ready EXCEPT ![fresh] = @ + 1]
      /\ arrivals' = [arrivals EXCEPT ![m] = @ + 1]
    BY DEF Arrive, database
<1>3. ready \in [Items -> Nat] /\ waiting \in [Items -> Nat] /\ arrivals \in [Messages -> Nat]
    BY DEF IInv, TInv, TypeOK
<1> HIDE DEF fresh
<1>4. Copies' = Copies \cup {fresh}
    <2>1. \A i \in Items :
             ready'[i] + waiting'[i] > 0 <=> ready[i] + waiting[i] > 0 \/ i = fresh
        BY <1>1, <1>2, <1>3
    <2> QED BY <1>1, <1>2, <2>1 DEF Copies
<1>5. \A k \in Messages : arrivals'[k] > 0 <=> arrivals[k] > 0 \/ k = m
    BY <1>2, <1>3
<1>6. Published' = Published \cup {fresh.msg}
    BY <1>1, <1>5 DEF Published
<1>7. \A i \in Copies' : arrivals'[i.msg] > 0
    <2>1. \A i \in Copies : i.msg \in Messages /\ arrivals[i.msg] > 0
        BY CopyIsItem DEF Known
    <2> QED BY <1>1, <1>4, <1>5, <2>1
<1>8. \A p \in Procs : \A j \in jobs'[p] : arrivals'[j.item.msg] > 0
    BY <1>2, <1>5, KnownItem DEF IInv, TInv
<1> QED BY <1>1, <1>2, <1>4, <1>6, <1>7, <1>8, Publishes DEF Known, IInv, TInv

LEMMA ServesRecover ==
    ASSUME IInv, TInv', Known, NEW p \in Procs, NEW job \in jobs[p], Recover(p, job)
    PROVE  Known' /\ M!Next
<1> DEFINE item == job.item
           next == [job EXCEPT !.step = "recovered"]
           more == [item EXCEPT !.count = @ + 1]
<1>1. job \in Jobs /\ item \in Items /\ item.msg \in Messages /\ arrivals[item.msg] > 0
    BY KnownItem DEF IInv, TInv, TypeOK
<1>2. next.item = item
    BY <1>1, StepType DEF Steps
<1>3. \A q \in Procs : \A j \in jobs'[q] : j \in jobs[q] \/ (j = next /\ q = p)
    BY DEF Recover, Advance, IInv, TInv, TypeOK
<1>4. \A q \in Procs : \A j \in jobs'[q] : \E k \in jobs[q] : k.item = j.item
    BY <1>2, <1>3
<1>5. UNCHANGED <<arrivals, ready, unacked, effects, misacked>>
    BY DEF Recover, database
<1>6. CASE item.count >= DelayedRetries
    <2>1. dead' = dead \cup {item.msg} /\ waiting' = waiting
        BY <1>6 DEF Recover, HandleError
    <2>2. Copies' = Copies
        BY <1>5, <2>1, SameCopies
    <2>3. Known'
        BY <1>4, <1>5, <2>2, KnownStays
    <2>4. Queued' = Queued /\ Published' = Published
        BY <1>5, <2>2, QueuedNow, QueuedNext DEF Published, IInv, TInv
    <2>5. M!Park(item.msg)
        BY <1>1, <1>5, <2>1, <2>4 DEF M!Park, Queued, Published
    <2> QED BY <1>1, <2>3, <2>5 DEF M!Next
<1>7. CASE ~(item.count >= DelayedRetries)
    <2>1. waiting' = [waiting EXCEPT ![more] = @ + 1] /\ dead' = dead
        BY <1>7 DEF Recover, HandleError
    <2>2. more \in Items /\ more.msg = item.msg
        BY <1>1, <1>7, ItemFacts, RetriesAssumption
    <2>3. ready \in [Items -> Nat] /\ waiting \in [Items -> Nat]
        BY DEF IInv, TInv, TypeOK
    <2> HIDE DEF more, item, next
    <2>4. Copies' = Copies \cup {more}
        <3>1. \A i \in Items :
                 ready'[i] + waiting'[i] > 0 <=> ready[i] + waiting[i] > 0 \/ i = more
            BY <1>5, <2>1, <2>2, <2>3
        <3> QED BY <1>5, <2>2, <3>1 DEF Copies
    <2>5. Known'
        BY <1>1, <1>4, <1>5, <2>2, <2>4, KnownStays
    <2>6. Published' = Published \cup {more.msg}
        BY <1>1, <1>5, <2>2 DEF Published
    <2> QED BY <1>5, <2>1, <2>2, <2>4, <2>5, <2>6, Publishes DEF IInv, TInv
<1> QED BY <1>6, <1>7

LEMMA ServesAck ==
    ASSUME IInv, TInv', Known, OneWrite', NothingLost',
           NEW p \in Procs, NEW job \in jobs[p], Ack(p, job)
    PROVE  Known' /\ M!Next
<1>1. /\ UNCHANGED <<arrivals, inbox, effects, dead>> /\ misacked \subseteq misacked'
      /\ \A q \in Procs : jobs'[q] \subseteq jobs[q]
    BY DEF Ack, database, IInv, TInv, TypeOK
<1>2. Copies' \subseteq Copies
    BY AckKeeps DEF IInv
<1>3. Known'
    BY <1>1, <1>2, KnownStays
<1>4. misacked' \subseteq misacked \cup Published
    <2>1. \A d \in unacked[p] : d[2] \in Copies
        BY DEF Copies, IInv, TInv, TypeOK
    <2>2. \A d \in unacked[p] : d[2].msg \in Published
        BY <2>1, CopyIsItem DEF Known, Published
    <2> QED BY <2>2 DEF Ack
<1> QED BY <1>1, <1>2, <1>3, <1>4, Forgets DEF IInv, TInv

LEMMA ServesTake ==
    ASSUME IInv, TInv', Known, OneWrite', NothingLost',
           NEW p \in Procs, NEW item \in Items, Ignore(p, item) \/ Deliver(p, item)
    PROVE  Known' /\ [M!Next]_(M!vars)
<1>1. CASE Ignore(p, item)
    <2>1. UNCHANGED <<arrivals, inbox, effects, dead, misacked, jobs>>
        BY <1>1 DEF Ignore, database
    <2>2. Copies' \subseteq Copies
        BY <1>1, IgnoreKeeps DEF IInv
    <2>3. Known'
        BY <2>1, <2>2, KnownStays
    <2> QED BY <2>1, <2>2, <2>3, Forgets DEF IInv, TInv
<1>2. CASE Deliver(p, item)
    <2>1. UNCHANGED <<arrivals, effects, dead, misacked>> /\ Copies' = Copies
        BY <1>2, DeliverKeeps DEF Deliver, database, IInv
    <2>2. item \in Copies
        BY <1>2 DEF Deliver, CanTake, Copies, IInv, TInv, TypeOK
    <2>3. \A q \in Procs : \A j \in jobs'[q] : j \in jobs[q] \/ j.item = item
        BY <1>2 DEF Deliver, IInv, TInv, TypeOK
    <2>4. Known'
        BY <2>1, <2>2, <2>3, KnownStays
    <2> QED BY <2>1, <2>4, Unseen DEF IInv, TInv
<1> QED BY <1>1, <1>2

LEMMA ServesRequeue ==
    ASSUME IInv, TInv', Known, NEW p \in Procs, Requeue(p),
           UNCHANGED <<arrivals, waiting, dead, effects, misacked>>,
           \A q \in Procs : jobs'[q] \subseteq jobs[q]
    PROVE  Known' /\ UNCHANGED M!vars
<1>1. Copies' = Copies
    BY RequeueKeeps DEF IInv
<1> QED BY <1>1, KnownStays, Unseen DEF IInv, TInv

\* The steps of handleMessage up to its answer.
LEMMA ServesTry ==
    ASSUME IInv, TInv', Known, OneWrite, NEW p \in Procs, NEW job \in jobs[p],
           \/ Lookup(p, job) \/ LookupFails(p, job) \/ Commit(p, job) \/ Fail(p, job)
           \/ LostCommit(p, job)
    PROVE  Known' /\ [M!Next]_(M!vars)
<1>1. job \in Jobs /\ job.item.msg \in Messages /\ arrivals[job.item.msg] > 0
    BY KnownItem DEF IInv, TInv, TypeOK
<1>2. UNCHANGED <<arrivals, ready, waiting, dead, unacked, misacked>>
    BY DEF Lookup, LookupFails, Commit, Fail, LostCommit, broker
<1>3. PICK next : Advance(p, job, next) /\ next.item = job.item
    <2>1. CASE Lookup(p, job)
        <3>1. PICK s \in Steps : Advance(p, job, [job EXCEPT !.step = s])
            BY <2>1 DEF Lookup, Steps
        <3> QED BY <1>1, <3>1, StepType
    <2>2. CASE LookupFails(p, job)
        BY <1>1, <2>2, StepType DEF LookupFails, Steps
    <2>3. CASE Commit(p, job)
        BY <1>1, <2>3, StepType DEF Commit, Steps
    <2>4. CASE Fail(p, job) \/ LostCommit(p, job)
        BY <1>1, <2>4, AfterFailureType DEF Fail, LostCommit
    <2> QED BY <2>1, <2>2, <2>3, <2>4
<1>4. Known' /\ Copies' = Copies
    BY <1>2, <1>3, KnownAdvance DEF IInv, TInv
<1>5. effects' = effects \/ CommitTx(job.item.msg)
    BY DEF Lookup, LookupFails, Commit, Fail, LostCommit, database
<1> QED BY <1>1, <1>2, <1>4, <1>5, Unseen, Handles DEF IInv, TInv

LEMMA ServesStep ==
    IInv /\ TInv' /\ Known /\ OneWrite /\ OneWrite' /\ NothingLost' /\ [Next]_vars
        => Known' /\ [M!Next]_(M!vars)
<1> SUFFICES ASSUME IInv, TInv', Known, OneWrite, OneWrite', NothingLost', [Next]_vars
             PROVE  Known' /\ [M!Next]_(M!vars)
    OBVIOUS
<1>1. ASSUME UNCHANGED <<arrivals, dead, effects, misacked, jobs>>, Copies' = Copies
      PROVE  Known' /\ [M!Next]_(M!vars)
    BY <1>1, KnownStays, Unseen DEF IInv, TInv
<1>2. CASE UNCHANGED vars
    BY <1>1, <1>2, SameCopies DEF vars
<1>3. ASSUME NEW item \in Items, RetryDue(item) PROVE Known' /\ [M!Next]_(M!vars)
    BY <1>1, <1>3, RetryDueKeeps DEF RetryDue, database, IInv
<1>4. ASSUME NEW p \in Procs, Connect(p) PROVE Known' /\ [M!Next]_(M!vars)
    BY <1>1, <1>4, SameCopies DEF Connect, broker, database
<1>5. ASSUME NEW p \in Procs, NEW job \in jobs[p], Throw(p, job)
      PROVE  Known' /\ [M!Next]_(M!vars)
    <2>1. \A q \in Procs : jobs'[q] \subseteq jobs[q]
        BY <1>5 DEF Throw, Die, IInv, TInv, TypeOK
    <2> QED BY <1>5, <2>1, ServesRequeue DEF Throw, Die, database
<1>6. ASSUME NEW p \in Procs, Drop(p) \/ Crash(p) PROVE Known' /\ [M!Next]_(M!vars)
    <2>1. \A q \in Procs : jobs'[q] \subseteq jobs[q]
        BY <1>6 DEF Drop, Crash, Die, IInv, TInv, TypeOK
    <2> QED BY <1>6, <2>1, ServesRequeue DEF Drop, Crash, Die, database
<1>7. ASSUME NEW p \in Procs, Take(p) PROVE Known' /\ [M!Next]_(M!vars)
    BY <1>7, ServesTake DEF Take
<1>8. ASSUME NEW p \in Procs, Work(p) PROVE Known' /\ [M!Next]_(M!vars)
    BY <1>5, <1>8, ServesTry, ServesRecover, ServesAck DEF Work
<1>9. ASSUME NEW p \in Procs, Break(p) PROVE Known' /\ [M!Next]_(M!vars)
    BY <1>6, <1>9, ServesTry DEF Break
<1> QED BY <1>2, <1>3, <1>4, <1>7, <1>8, <1>9, ServesArrive DEF Next, Expire

LEMMA ServesInit == Init => M!Init
<1> SUFFICES ASSUME Init PROVE M!Init
    OBVIOUS
<1>1. Published = {}
    BY DEF Init, Published
<1>2. Copies = {}
    BY DEF Init, Copies
<1>3. Queued = {}
    BY <1>2, QueuedNow, TInvInit DEF TInv
<1> QED BY <1>1, <1>3 DEF Init, M!Init, Queued, Published

\* The queues, the consumers and the inbox table together implement the mailbox.
THEOREM ImplementsMailbox == Spec => ServesMailbox
<1>1. Spec => []NothingLost
    BY NoMessageLost
<1>2. IInv => TInv
    BY DEF IInv
<1> QED BY <1>1, <1>2, KnownInit, ServesInit, ServesStep, AlwaysIInv, AlwaysOneWrite,
          PTL DEF Spec, ServesMailbox, M!Spec

-----------------------------------------------------------------------------
(* Attempts *)

\* No connection broke and no process died so far.
Steady == \A kind \in FaultKinds : faults[kind] = 0

\* Until then a callback's delivery is on the channel of now, and no two
\* callbacks share one.
Orderly ==
    \A p \in Procs :
        /\ link[p] = "down" => jobs[p] = {}
        /\ \A job \in jobs[p] : job.tag \in Tags(p)
        /\ \A j, k \in jobs[p] : j.tag = k.tag => j = k

Rounds == ImmediateRetries + 1

\* What may still lead to attempts at message m: its copies in the queues, each
\* with a number of its own, and its callbacks under way.
Trying == {"lookup", "attempt", "failed"}

CopiesOf(q, kind, m) ==
    {h \in {kind} \X Items \X (Nat \ {0}) : h[2].msg = m /\ h[3] <= q[h[2]]}

Callbacks(m) ==
    {h \in {"job"} \X Procs \X Jobs :
        h[3] \in jobs[h[2]] /\ h[3].item.msg = m /\ h[3].step \in Trying}

Holders(m) ==
    CopiesOf(ready, "ready", m) \cup CopiesOf(waiting, "waiting", m) \cup Callbacks(m)

\* How many attempts each of them may still make: those of this delivery and
\* those of the redeliveries left.
Later(item) == Rounds * (DelayedRetries - item.count)

Weight(h) ==
    IF h[1] # "job" THEN Later(h[2]) + Rounds
    ELSE IF h[3].step = "failed" THEN Later(h[3].item)
    ELSE Later(h[3].item) + h[3].left + 1

Chances(H) == UNION {{h} \X (1..Weight(h)) : h \in H}

PerCopy == Rounds * (DelayedRetries + 1)

Within(m) ==
    /\ IsFiniteSet(Chances(Holders(m)))
    /\ attempts[m] + Cardinality(Chances(Holders(m))) <= arrivals[m] * PerCopy

Budget == \A m \in Messages : Within(m)

Patience == TInv /\ (Steady => Orderly /\ Budget)

\* One holder has as many chances as its weight, and its chances are its own.
LEMMA ChancesOfOne ==
    ASSUME NEW h, Weight(h) \in Nat
    PROVE  /\ IsFiniteSet({h} \X (1..Weight(h)))
           /\ Cardinality({h} \X (1..Weight(h))) = Weight(h)
<1>1. IsFiniteSet(1..Weight(h)) /\ Cardinality(1..Weight(h)) = Weight(h)
    BY FS_Interval
<1>2. IsFiniteSet({h}) /\ Cardinality({h}) = 1
    BY FS_Singleton
<1> QED BY <1>1, <1>2, FS_Product

LEMMA ChancesGrow ==
    ASSUME NEW G, NEW H, G \subseteq H, IsFiniteSet(Chances(H))
    PROVE  IsFiniteSet(Chances(G)) /\ Cardinality(Chances(G)) <= Cardinality(Chances(H))
<1>1. Chances(G) \subseteq Chances(H)
    BY DEF Chances
<1> QED BY <1>1, FS_Subset

LEMMA ChancesGained ==
    ASSUME NEW G, NEW H, NEW y, G \subseteq H \cup {y},
           IsFiniteSet(Chances(H)), Weight(y) \in Nat
    PROVE  /\ IsFiniteSet(Chances(G))
           /\ Cardinality(Chances(G)) <= Cardinality(Chances(H)) + Weight(y)
<1> DEFINE own == {y} \X (1..Weight(y))
<1>1. Chances(H \cup {y}) = Chances(H) \cup own
    BY DEF Chances
<1>2. IsFiniteSet(own) /\ Cardinality(own) = Weight(y)
    BY ChancesOfOne
<1> HIDE DEF own
<1>3. /\ IsFiniteSet(Chances(H) \cup own)
      /\ Cardinality(Chances(H) \cup own)
             = Cardinality(Chances(H)) + Cardinality(own) - Cardinality(Chances(H) \cap own)
    BY <1>2, FS_Union
<1>4. Cardinality(Chances(H) \cap own) \in Nat
    BY <1>2, FS_Intersection, FS_CardinalityType
<1>5. Cardinality(Chances(H)) \in Nat
    BY FS_CardinalityType
<1>6. /\ IsFiniteSet(Chances(G))
      /\ Cardinality(Chances(G)) <= Cardinality(Chances(H) \cup own)
  <2>1. Chances(G) \subseteq Chances(H) \cup own
      BY <1>1 DEF Chances
  <2> QED BY <1>3, <2>1, FS_Subset
<1>7. Cardinality(Chances(G)) \in Nat
    BY <1>6, FS_CardinalityType
<1> QED BY <1>2, <1>3, <1>4, <1>5, <1>6, <1>7

LEMMA ChancesSpent ==
    ASSUME NEW G, NEW H, NEW x \in H, G \subseteq H \ {x},
           IsFiniteSet(Chances(H)), Weight(x) \in Nat
    PROVE  /\ IsFiniteSet(Chances(G))
           /\ Cardinality(Chances(G)) + Weight(x) <= Cardinality(Chances(H))
<1> DEFINE own == {x} \X (1..Weight(x))
<1>1. own \subseteq Chances(H) /\ Chances(G) \subseteq Chances(H) \ own
    BY DEF Chances
<1>2. IsFiniteSet(own) /\ Cardinality(own) = Weight(x)
    BY ChancesOfOne
<1> HIDE DEF own
<1>3. /\ IsFiniteSet(Chances(H) \ own)
      /\ Cardinality(Chances(H) \ own)
             = Cardinality(Chances(H)) - Cardinality(Chances(H) \cap own)
    BY FS_Difference
<1>4. Chances(H) \cap own = own
    BY <1>1
<1>5. /\ IsFiniteSet(Chances(G))
      /\ Cardinality(Chances(G)) <= Cardinality(Chances(H) \ own)
    BY <1>1, <1>3, FS_Subset
<1>6. Cardinality(Chances(G)) \in Nat /\ Cardinality(Chances(H)) \in Nat
    BY <1>5, FS_CardinalityType
<1> QED BY <1>2, <1>3, <1>4, <1>5, <1>6

\* One holder takes the place of another.
LEMMA ChancesPassedOn ==
    ASSUME NEW G, NEW H, NEW x \in H, NEW y, G \subseteq (H \ {x}) \cup {y},
           IsFiniteSet(Chances(H)), Weight(x) \in Nat, Weight(y) \in Nat
    PROVE  /\ IsFiniteSet(Chances(G))
           /\ Cardinality(Chances(G)) + Weight(x) <= Cardinality(Chances(H)) + Weight(y)
<1>1. /\ IsFiniteSet(Chances(H \ {x}))
      /\ Cardinality(Chances(H \ {x})) + Weight(x) <= Cardinality(Chances(H))
    BY ChancesSpent
<1>2. /\ IsFiniteSet(Chances(G))
      /\ Cardinality(Chances(G)) <= Cardinality(Chances(H \ {x})) + Weight(y)
    BY <1>1, ChancesGained
<1>3. /\ Cardinality(Chances(G)) \in Nat /\ Cardinality(Chances(H)) \in Nat
      /\ Cardinality(Chances(H \ {x})) \in Nat
    BY <1>1, <1>2, FS_CardinalityType
<1> QED BY <1>1, <1>2, <1>3

\* A copy in a queue weighs its deliveries left, a callback less.
LEMMA LaterFacts ==
    ASSUME NEW i \in Items
    PROVE  /\ Rounds \in Nat /\ Later(i) \in Nat
           /\ i.count = 0 => Later(i) + Rounds = PerCopy
           /\ i.count < DelayedRetries =>
                  Later([i EXCEPT !.count = @ + 1]) + Rounds = Later(i)
<1>1. Rounds \in Nat
    BY RetriesAssumption DEF Rounds
<1>2. ASSUME NEW a \in Nat, NEW b \in Nat
      PROVE  /\ a * b \in Nat /\ a * (b + 1) = a * b + a
    BY Z3
<1>3. i.count \in 0..DelayedRetries /\ DelayedRetries \in Nat
    BY RetriesAssumption DEF Items
<1>4. DelayedRetries - i.count \in Nat
    BY <1>3
<1>5. Later(i) \in Nat
    BY <1>1, <1>2, <1>4 DEF Later
<1>6. ASSUME i.count = 0 PROVE Later(i) + Rounds = PerCopy
  <2>1. DelayedRetries - i.count = DelayedRetries
      BY <1>3, <1>6
  <2> QED BY <1>1, <1>2, <1>3, <2>1 DEF Later, PerCopy
<1>7. ASSUME i.count < DelayedRetries
      PROVE  Later([i EXCEPT !.count = @ + 1]) + Rounds = Later(i)
  <2>1. [i EXCEPT !.count = @ + 1].count = i.count + 1
      BY <1>7, ItemFacts
  <2>2. DelayedRetries - (i.count + 1) \in Nat
      BY <1>3, <1>7
  <2>3. DelayedRetries - i.count = (DelayedRetries - (i.count + 1)) + 1
      BY <1>3, <1>7
  <2> QED BY <1>1, <1>2, <2>1, <2>2, <2>3 DEF Later
<1> QED BY <1>1, <1>5, <1>6, <1>7

\* A fault ends the steady time.
LEMMA FaultsAreCounted ==
    ASSUME TypeOK, NEW kind, Fault(kind)
    PROVE  ~Steady'
<1>1. kind \in FaultKinds
    BY FaultsAssumption DEF Fault
<1>2. faults[kind] \in Nat /\ faults'[kind] = faults[kind] + 1
    BY <1>1 DEF Fault, TypeOK
<1>3. faults'[kind] # 0
    BY <1>2
<1> QED BY <1>1, <1>3 DEF Steady

LEMMA CallbackKeeps ==
    ASSUME NEW job \in Jobs, NEW s \in Steps
    PROVE  /\ [job EXCEPT !.step = s].tag = job.tag
           /\ [job EXCEPT !.step = s].left = job.left
BY DEF Jobs

LEMMA AfterFailureKeeps ==
    ASSUME NEW job \in Jobs
    PROVE  /\ AfterFailure(job).tag = job.tag
           /\ job.left = 0 => AfterFailure(job).step = "failed"
           /\ job.left # 0 => /\ AfterFailure(job).step = job.step
                              /\ AfterFailure(job).left = job.left - 1
BY DEF Jobs, AfterFailure, LastAttempt

LEMMA OrderlyStays ==
    ASSUME Orderly, UNCHANGED <<link, unacked, jobs>>
    PROVE  Orderly'
BY DEF Orderly, Tags

\* A callback goes on with the delivery it has.
LEMMA OrderlyAdvance ==
    ASSUME TInv, Orderly, NEW p \in Procs, NEW job \in jobs[p], NEW next,
           next.tag = job.tag, Advance(p, job, next), UNCHANGED <<link, unacked>>
    PROVE  Orderly'
<1>1. \A q \in Procs : jobs'[q] = IF q = p THEN (jobs[p] \ {job}) \cup {next} ELSE jobs[q]
    BY DEF Advance, TInv, TypeOK
<1>2. \A q \in Procs : Tags(q)' = Tags(q)
    BY DEF Tags
<1> QED BY <1>1, <1>2 DEF Orderly

LEMMA OrderlyConnect ==
    ASSUME TInv, Orderly, NEW p \in Procs, Connect(p)
    PROVE  Orderly'
<1>1. jobs[p] = {} /\ UNCHANGED <<jobs, unacked>>
    BY DEF Orderly, Connect, broker
<1>2. \A q \in Procs : Tags(q)' = Tags(q)
    BY <1>1 DEF Tags
<1>3. \A q \in Procs : q # p => link'[q] = link[q]
    BY DEF Connect, TInv, TypeOK
<1> QED BY <1>1, <1>2, <1>3 DEF Orderly

\* The broker numbers the deliveries of a channel upwards.
LEMMA OrderlyDeliver ==
    ASSUME TInv, Orderly, NEW p \in Procs, NEW item \in Items, Deliver(p, item)
    PROVE  Orderly'
<1> DEFINE tag == lastTag[p] + 1
           new == [tag |-> tag, epoch |-> epoch[p], item |-> item,
                   step |-> "lookup", left |-> ImmediateRetries]
<1>1. lastTag'[p] = tag /\ lastTag[p] \in Nat
    BY DEF Deliver, TInv, TypeOK
<1>2. \A q \in Procs : jobs'[q] = IF q = p THEN jobs[p] \cup {new} ELSE jobs[q]
    BY <1>1 DEF Deliver, TInv, TypeOK
<1>3. \A q \in Procs :
          unacked'[q] = IF q = p THEN unacked[p] \cup {<<tag, item>>} ELSE unacked[q]
    BY <1>1 DEF Deliver, TInv, TypeOK
<1>4. \A q \in Procs :
          Tags(q)' = IF q = p THEN Tags(p) \cup {tag} ELSE Tags(q)
  <2>1. /\ \A t : t \in Tags(p) <=> \E d \in unacked[p] : d[1] = t
        /\ \A t : t \in Tags(p)' <=> \E d \in unacked'[p] : d[1] = t
      BY Zenon DEF Tags
  <2>2. Tags(p)' = Tags(p) \cup {tag}
      <3>1. unacked'[p] = unacked[p] \cup {<<tag, item>>}
          BY <1>3
      <3>2. <<tag, item>>[1] = tag
          OBVIOUS
      <3>3. ASSUME NEW t PROVE t \in Tags(p)' <=> t \in Tags(p) \/ t = tag
          <4>1. (\E d \in unacked'[p] : d[1] = t)
                   <=> (\E d \in unacked[p] : d[1] = t) \/ <<tag, item>>[1] = t
              BY Zenon, <3>1
          <4> QED BY Zenon, <2>1, <3>2, <4>1
      <3> QED BY <3>3
  <2>3. ASSUME NEW q \in Procs, q # p PROVE Tags(q)' = Tags(q)
      BY <1>3, <2>3 DEF Tags
  <2> QED BY <2>2, <2>3
<1>5. tag \notin Tags(p)
    BY <1>1 DEF Tags, TInv, TypeOK
<1>6. new.tag = tag
    OBVIOUS
<1>7. link[p] = "up" /\ link' = link
    BY DEF Deliver, CanTake
<1> HIDE DEF tag, new
<1>8. \A j, k \in jobs'[p] : j.tag = k.tag => j = k
    BY <1>2, <1>5, <1>6 DEF Orderly
<1>9. \A j \in jobs'[p] : j.tag \in Tags(p)'
    BY <1>2, <1>4, <1>6 DEF Orderly
<1> QED BY <1>2, <1>4, <1>7, <1>8, <1>9 DEF Orderly

\* An acknowledged delivery is that of the callback which ends.
LEMMA OrderlyAck ==
    ASSUME TInv, Orderly, NEW p \in Procs, NEW job \in jobs[p], Ack(p, job)
    PROVE  Orderly'
<1>1. \A q \in Procs : jobs'[q] = IF q = p THEN jobs[p] \ {job} ELSE jobs[q]
    BY DEF Ack, TInv, TypeOK
<1>2. \A q \in Procs :
          unacked'[q] = IF q = p THEN {d \in unacked[p] : d[1] # job.tag} ELSE unacked[q]
    BY DEF Ack, TInv, TypeOK
<1>3. \A q \in Procs : Tags(q)' = IF q = p THEN Tags(p) \ {job.tag} ELSE Tags(q)
    BY <1>2 DEF Tags
<1>4. \A j \in jobs'[p] : j.tag \in Tags(p)'
    BY <1>1, <1>3 DEF Orderly
<1>5. link' = link
    BY DEF Ack
<1> QED BY <1>1, <1>3, <1>4, <1>5 DEF Orderly

\* A callback whose delivery is on the channel of now has nothing to throw at.
LEMMA OrderlyNeverThrows ==
    ASSUME Orderly, NEW p \in Procs, NEW job \in jobs[p]
    PROVE  ~Throw(p, job)
BY DEF Orderly, Throw

LEMMA PerCopyFacts ==
    /\ PerCopy \in Nat
    /\ \A a \in Nat : a * PerCopy \in Nat /\ (a + 1) * PerCopy = a * PerCopy + PerCopy
<1>1. ASSUME NEW a \in Nat, NEW b \in Nat
      PROVE  a * b \in Nat /\ (a + 1) * b = a * b + b
    BY Z3
<1>2. Rounds \in Nat /\ DelayedRetries + 1 \in Nat
    BY RetriesAssumption DEF Rounds
<1>3. PerCopy \in Nat
    BY <1>1, <1>2 DEF PerCopy
<1> QED BY <1>1, <1>3

\* The budget of a message in a step that takes a holder away, replaces one,
\* adds one with a copy that arrives, or leaves them alone.
LEMMA WithinSpent ==
    ASSUME TInv, NEW m \in Messages, Within(m), NEW x \in Holders(m),
           Holders(m)' \subseteq Holders(m) \ {x}, Weight(x) \in Nat,
           attempts'[m] \in Nat, attempts'[m] <= attempts[m] + Weight(x),
           arrivals'[m] = arrivals[m]
    PROVE  Within(m)'
<1>1. IsFiniteSet(Chances(Holders(m)))
    BY DEF Within
<1>2. /\ IsFiniteSet(Chances(Holders(m)'))
      /\ Cardinality(Chances(Holders(m)')) + Weight(x) <= Cardinality(Chances(Holders(m)))
    BY <1>1, ChancesSpent
<1>3. /\ Cardinality(Chances(Holders(m)')) \in Nat
      /\ Cardinality(Chances(Holders(m))) \in Nat
    BY <1>1, <1>2, FS_CardinalityType
<1>4. attempts[m] \in Nat /\ arrivals[m] * PerCopy \in Nat
    BY PerCopyFacts DEF TInv, TypeOK
<1>5. attempts[m] + Cardinality(Chances(Holders(m))) <= arrivals[m] * PerCopy
    BY DEF Within
<1>6. attempts'[m] + Cardinality(Chances(Holders(m)')) <= arrivals[m] * PerCopy
    BY <1>2, <1>3, <1>4, <1>5
<1> QED BY <1>2, <1>6 DEF Within

LEMMA WithinPassedOn ==
    ASSUME TInv, NEW m \in Messages, Within(m), NEW x \in Holders(m), NEW y,
           Holders(m)' \subseteq (Holders(m) \ {x}) \cup {y},
           Weight(x) \in Nat, Weight(y) \in Nat,
           attempts'[m] \in Nat, attempts'[m] + Weight(y) <= attempts[m] + Weight(x),
           arrivals'[m] = arrivals[m]
    PROVE  Within(m)'
<1>1. IsFiniteSet(Chances(Holders(m)))
    BY DEF Within
<1>2. /\ IsFiniteSet(Chances(Holders(m)'))
      /\ Cardinality(Chances(Holders(m)')) + Weight(x)
             <= Cardinality(Chances(Holders(m))) + Weight(y)
    BY <1>1, ChancesPassedOn
<1>3. /\ Cardinality(Chances(Holders(m)')) \in Nat
      /\ Cardinality(Chances(Holders(m))) \in Nat
    BY <1>1, <1>2, FS_CardinalityType
<1>4. attempts[m] \in Nat /\ arrivals[m] * PerCopy \in Nat
    BY PerCopyFacts DEF TInv, TypeOK
<1>5. attempts[m] + Cardinality(Chances(Holders(m))) <= arrivals[m] * PerCopy
    BY DEF Within
<1>6. attempts'[m] + Cardinality(Chances(Holders(m)')) <= arrivals[m] * PerCopy
    BY <1>2, <1>3, <1>4, <1>5
<1> QED BY <1>2, <1>6 DEF Within

LEMMA WithinGained ==
    ASSUME TInv, NEW m \in Messages, Within(m), NEW y,
           Holders(m)' \subseteq Holders(m) \cup {y}, Weight(y) = PerCopy,
           attempts'[m] = attempts[m], arrivals'[m] = arrivals[m] + 1
    PROVE  Within(m)'
<1>1. IsFiniteSet(Chances(Holders(m)))
    BY DEF Within
<1>2. /\ IsFiniteSet(Chances(Holders(m)'))
      /\ Cardinality(Chances(Holders(m)')) <= Cardinality(Chances(Holders(m))) + PerCopy
    BY <1>1, ChancesGained, PerCopyFacts
<1>3. /\ Cardinality(Chances(Holders(m)')) \in Nat
      /\ Cardinality(Chances(Holders(m))) \in Nat
    BY <1>1, <1>2, FS_CardinalityType
<1>4. /\ attempts[m] \in Nat /\ arrivals[m] * PerCopy \in Nat /\ PerCopy \in Nat
      /\ (arrivals[m] + 1) * PerCopy = arrivals[m] * PerCopy + PerCopy
    BY PerCopyFacts DEF TInv, TypeOK
<1>5. attempts[m] + Cardinality(Chances(Holders(m))) <= arrivals[m] * PerCopy
    BY DEF Within
<1>6. attempts'[m] + Cardinality(Chances(Holders(m)')) <= arrivals'[m] * PerCopy
    BY <1>2, <1>3, <1>4, <1>5
<1> QED BY <1>2, <1>6 DEF Within

LEMMA WithinStays ==
    ASSUME TInv, NEW m \in Messages, Within(m), Holders(m)' \subseteq Holders(m),
           attempts'[m] = attempts[m], arrivals'[m] = arrivals[m]
    PROVE  Within(m)'
<1>1. IsFiniteSet(Chances(Holders(m)))
    BY DEF Within
<1>2. /\ IsFiniteSet(Chances(Holders(m)'))
      /\ Cardinality(Chances(Holders(m)')) <= Cardinality(Chances(Holders(m)))
    BY <1>1, ChancesGrow
<1>3. /\ Cardinality(Chances(Holders(m)')) \in Nat
      /\ Cardinality(Chances(Holders(m))) \in Nat
    BY <1>1, <1>2, FS_CardinalityType
<1>4. attempts[m] \in Nat /\ arrivals[m] * PerCopy \in Nat
    BY PerCopyFacts DEF TInv, TypeOK
<1>5. attempts[m] + Cardinality(Chances(Holders(m))) <= arrivals[m] * PerCopy
    BY DEF Within
<1>6. attempts'[m] + Cardinality(Chances(Holders(m)')) <= arrivals[m] * PerCopy
    BY <1>2, <1>3, <1>4, <1>5
<1> QED BY <1>2, <1>6 DEF Within

Raised(q, i) == [q EXCEPT ![i] = @ + 1]
Lowered(q, i) == [q EXCEPT ![i] = @ - 1]

\* A copy that is put in a queue takes the next number, one that leaves it gives
\* the last number back.
LEMMA QueueUp ==
    ASSUME NEW q \in [Items -> Nat], NEW i \in Items, NEW kind, NEW m
    PROVE  /\ CopiesOf(Raised(q, i), kind, m) \subseteq
                  CopiesOf(q, kind, m) \cup {<<kind, i, q[i] + 1>>}
           /\ i.msg # m => CopiesOf(Raised(q, i), kind, m) \subseteq CopiesOf(q, kind, m)
<1> DEFINE r == Raised(q, i)
<1>1. ASSUME NEW k \in Items
      PROVE  q[k] \in Nat /\ r[k] = IF k = i THEN q[k] + 1 ELSE q[k]
    BY DEF Raised
<1> HIDE DEF r
<1>2. ASSUME NEW h \in CopiesOf(r, kind, m), h \notin CopiesOf(q, kind, m)
      PROVE  h = <<kind, i, q[i] + 1>> /\ i.msg = m
  <2>1. /\ h[1] = kind /\ h[2] \in Items /\ h[3] \in Nat \ {0}
        /\ h = <<h[1], h[2], h[3]>> /\ h[2].msg = m /\ h[3] <= r[h[2]]
      BY DEF CopiesOf
  <2>2. ~(h[3] <= q[h[2]])
      BY <1>2 DEF CopiesOf
  <2>3. h[2] = i
      BY <1>1, <2>1, <2>2
  <2>4. h[3] = q[i] + 1
      BY <1>1, <2>1, <2>2, <2>3
  <2> QED BY <2>1, <2>3, <2>4
<1> QED BY <1>2 DEF r

LEMMA QueueDown ==
    ASSUME NEW q \in [Items -> Nat], NEW i \in Items, q[i] > 0, NEW kind, NEW m
    PROVE  /\ CopiesOf(Lowered(q, i), kind, m) \subseteq CopiesOf(q, kind, m) \ {<<kind, i, q[i]>>}
           /\ i.msg = m => <<kind, i, q[i]>> \in CopiesOf(q, kind, m)
<1> DEFINE r == Lowered(q, i)
<1>1. ASSUME NEW k \in Items
      PROVE  q[k] \in Nat /\ r[k] = IF k = i THEN q[k] - 1 ELSE q[k]
    BY DEF Lowered
<1> HIDE DEF r
<1>2. ASSUME NEW h \in CopiesOf(r, kind, m)
      PROVE  h \in CopiesOf(q, kind, m) /\ h # <<kind, i, q[i]>>
  <2>1. /\ h \in {kind} \X Items \X (Nat \ {0})
        /\ h[2] \in Items /\ h[3] \in Nat \ {0} /\ h[2].msg = m /\ h[3] <= r[h[2]]
      BY DEF CopiesOf
  <2>2. h[3] <= q[h[2]]
      BY <1>1, <2>1
  <2>3. ASSUME h = <<kind, i, q[i]>> PROVE FALSE
      BY <1>1, <2>1, <2>3
  <2> QED BY <2>1, <2>2, <2>3 DEF CopiesOf
<1>3. ASSUME i.msg = m PROVE <<kind, i, q[i]>> \in CopiesOf(q, kind, m)
  <2>1. q[i] \in Nat \ {0}
      BY <1>1
  <2>2. <<kind, i, q[i]>> \in {kind} \X Items \X (Nat \ {0})
      BY <2>1
  <2> QED BY <1>3, <2>1, <2>2 DEF CopiesOf
<1> QED BY <1>2, <1>3 DEF r

\* Copies and callbacks are told apart.
LEMMA HolderKinds ==
    ASSUME NEW m, NEW h
    PROVE  /\ h \in CopiesOf(ready, "ready", m) => h[1] = "ready"
           /\ h \in CopiesOf(waiting, "waiting", m) => h[1] = "waiting"
           /\ h \in Callbacks(m) => h[1] = "job"
BY DEF CopiesOf, Callbacks

\* The holders a callback that goes on, ends or begins leaves.
LEMMA CallbackHolder ==
    ASSUME TInv, NEW p \in Procs, NEW job \in jobs[p], job.step \in Trying
    PROVE  <<"job", p, job>> \in Callbacks(job.item.msg)
<1>1. job \in Jobs
    BY DEF TInv, TypeOK
<1>2. <<"job", p, job>> \in {"job"} \X Procs \X Jobs
    BY <1>1
<1> QED BY <1>2 DEF Callbacks

LEMMA CallbacksAdvance ==
    ASSUME TInv, NEW p \in Procs, NEW job \in jobs[p], NEW next \in Jobs,
           next.item = job.item, Advance(p, job, next), NEW m
    PROVE  /\ Callbacks(m)' \subseteq
                  (Callbacks(m) \ {<<"job", p, job>>}) \cup {<<"job", p, next>>}
           /\ job.item.msg # m \/ next.step \notin Trying =>
                  Callbacks(m)' \subseteq Callbacks(m) \ {<<"job", p, job>>}
           /\ job.item.msg # m => Callbacks(m)' \subseteq Callbacks(m)
<1>1. \A q \in Procs : jobs'[q] = IF q = p THEN (jobs[p] \ {job}) \cup {next} ELSE jobs[q]
    BY DEF Advance, TInv, TypeOK
<1>2. ASSUME NEW h \in Callbacks(m)', h # <<"job", p, next>>
      PROVE  h \in Callbacks(m) /\ h # <<"job", p, job>>
  <2>1. /\ h \in {"job"} \X Procs \X Jobs /\ h[1] = "job" /\ h[2] \in Procs
        /\ h[3] \in jobs'[h[2]] /\ h[3].item.msg = m /\ h[3].step \in Trying
        /\ h = <<h[1], h[2], h[3]>>
      BY DEF Callbacks
  <2>2. h[2] = p => h[3] # next
      BY <1>2, <2>1
  <2>3. h[3] \in jobs[h[2]] /\ ~(h[2] = p /\ h[3] = job)
      BY <1>1, <2>1, <2>2
  <2>4. h \in Callbacks(m)
      BY <2>1, <2>3 DEF Callbacks
  <2> QED BY <2>3, <2>4
<1>3. ASSUME <<"job", p, next>> \in Callbacks(m)'
      PROVE  job.item.msg = m /\ next.step \in Trying
    BY <1>3 DEF Callbacks
<1> QED BY <1>2, <1>3

LEMMA CallbacksBegin ==
    ASSUME TInv, NEW p \in Procs, NEW new, jobs' = [jobs EXCEPT ![p] = @ \cup {new}], NEW m
    PROVE  /\ Callbacks(m)' \subseteq Callbacks(m) \cup {<<"job", p, new>>}
           /\ new.item.msg # m => Callbacks(m)' \subseteq Callbacks(m)
<1>1. \A q \in Procs : jobs'[q] = IF q = p THEN jobs[p] \cup {new} ELSE jobs[q]
    BY DEF TInv, TypeOK
<1>2. ASSUME NEW h \in Callbacks(m)', h \notin Callbacks(m)
      PROVE  h = <<"job", p, new>> /\ new.item.msg = m
  <2>1. /\ h \in {"job"} \X Procs \X Jobs /\ h[1] = "job" /\ h[2] \in Procs
        /\ h[3] \in jobs'[h[2]] /\ h[3].item.msg = m /\ h[3].step \in Trying
        /\ h = <<h[1], h[2], h[3]>>
      BY DEF Callbacks
  <2>2. h[3] \notin jobs[h[2]]
      BY <1>2, <2>1 DEF Callbacks
  <2> QED BY <1>1, <2>1, <2>2
<1> QED BY <1>2

LEMMA CallbacksEnd ==
    ASSUME TInv, NEW p \in Procs, NEW job, jobs' = [jobs EXCEPT ![p] = @ \ {job}], NEW m
    PROVE  Callbacks(m)' \subseteq Callbacks(m)
<1>1. \A q \in Procs : jobs'[q] \subseteq jobs[q]
    BY DEF TInv, TypeOK
<1> QED BY <1>1 DEF Callbacks

LEMMA CopyWeight ==
    ASSUME NEW i \in Items, NEW kind \in {"ready", "waiting"}, NEW n
    PROVE  /\ Weight(<<kind, i, n>>) = Later(i) + Rounds
           /\ Weight(<<kind, i, n>>) \in Nat
<1>1. Weight(<<kind, i, n>>) = Later(i) + Rounds
    BY DEF Weight
<1>2. Later(i) \in Nat /\ Rounds \in Nat
    BY LaterFacts
<1> QED BY <1>1, <1>2

LEMMA CallbackWeight ==
    ASSUME NEW p, NEW job \in Jobs
    PROVE  /\ Weight(<<"job", p, job>>) \in Nat
           /\ Later(job.item) \in Nat /\ job.left \in Nat
           /\ Weight(<<"job", p, job>>) =
                  IF job.step = "failed" THEN Later(job.item)
                  ELSE Later(job.item) + job.left + 1
<1>1. Weight(<<"job", p, job>>) =
          IF job.step = "failed" THEN Later(job.item) ELSE Later(job.item) + job.left + 1
    BY DEF Weight
<1>2. job.item \in Items /\ job.left \in Nat
    BY RetriesAssumption DEF Jobs
<1>3. Later(job.item) \in Nat
    BY <1>2, LaterFacts
<1> QED BY <1>1, <1>2, <1>3

\* The handlers' calls are counted for their message.
LEMMA CountStep ==
    ASSUME TypeOK, NEW job \in Jobs, Count(job), NEW m \in Messages
    PROVE  /\ attempts'[m] \in Nat /\ attempts[m] \in Nat
           /\ attempts'[m] = IF m = job.item.msg THEN attempts[m] + 1 ELSE attempts[m]
BY DEF TypeOK, Count

\* A callback that goes on: with a lower weight, by as much as it attempted.
LEMMA BudgetAdvance ==
    ASSUME TInv, Budget, NEW p \in Procs, NEW job \in jobs[p], NEW next \in Jobs,
           job.step \in Trying, next.item = job.item, Advance(p, job, next),
           UNCHANGED <<arrivals, ready, waiting>>,
           \A m \in Messages : m # job.item.msg => attempts'[m] = attempts[m],
           attempts'[job.item.msg] \in Nat,
           IF next.step \in Trying
           THEN attempts'[job.item.msg] + Weight(<<"job", p, next>>)
                    <= attempts[job.item.msg] + Weight(<<"job", p, job>>)
           ELSE attempts'[job.item.msg]
                    <= attempts[job.item.msg] + Weight(<<"job", p, job>>)
    PROVE  Budget'
<1> SUFFICES ASSUME NEW m \in Messages PROVE Within(m)'
    BY DEF Budget
<1> DEFINE x == <<"job", p, job>>
           y == <<"job", p, next>>
<1>1. Within(m) /\ job \in Jobs
    BY DEF Budget, TInv, TypeOK
<1>2. /\ CopiesOf(ready, "ready", m)' = CopiesOf(ready, "ready", m)
      /\ CopiesOf(waiting, "waiting", m)' = CopiesOf(waiting, "waiting", m)
    BY DEF CopiesOf
<1>3. arrivals'[m] = arrivals[m]
    OBVIOUS
<1>4. CASE m # job.item.msg
  <2>1. Callbacks(m)' \subseteq Callbacks(m)
      BY <1>4, CallbacksAdvance
  <2>2. Holders(m)' \subseteq Holders(m)
      BY <1>2, <2>1 DEF Holders
  <2> QED BY <1>1, <1>3, <1>4, <2>2, WithinStays
<1>5. CASE m = job.item.msg
  <2>1. /\ x \in Holders(m)
        /\ x \notin CopiesOf(ready, "ready", m) \cup CopiesOf(waiting, "waiting", m)
      <3>1. x \in Callbacks(m)
          BY <1>5, CallbackHolder
      <3>2. x[1] = "job"
          OBVIOUS
      <3> QED BY <3>1, <3>2, HolderKinds DEF Holders
  <2>2. Weight(x) \in Nat /\ Weight(y) \in Nat
      BY <1>1, CallbackWeight
  <2>3. CASE next.step \in Trying
      <3>1. Callbacks(m)' \subseteq (Callbacks(m) \ {x}) \cup {y}
          BY CallbacksAdvance
      <3>2. Holders(m)' \subseteq (Holders(m) \ {x}) \cup {y}
          BY <1>2, <2>1, <3>1 DEF Holders
      <3>3. attempts'[m] + Weight(y) <= attempts[m] + Weight(x) /\ attempts'[m] \in Nat
          BY <1>5, <2>3
      <3> HIDE DEF x, y
      <3> QED BY <1>1, <1>3, <2>1, <2>2, <3>2, <3>3, WithinPassedOn
  <2>4. CASE next.step \notin Trying
      <3>1. Callbacks(m)' \subseteq Callbacks(m) \ {x}
          BY <2>4, CallbacksAdvance
      <3>2. Holders(m)' \subseteq Holders(m) \ {x}
          BY <1>2, <2>1, <3>1 DEF Holders
      <3>3. attempts'[m] <= attempts[m] + Weight(x) /\ attempts'[m] \in Nat
          BY <1>5, <2>4
      <3> HIDE DEF x, y
      <3> QED BY <1>1, <1>3, <2>1, <2>2, <3>2, <3>3, WithinSpent
  <2> QED BY <2>3, <2>4
<1> QED BY <1>4, <1>5

LEMMA BudgetWork ==
    ASSUME TInv, Budget, NEW p \in Procs, NEW job \in jobs[p],
           Lookup(p, job) \/ LookupFails(p, job) \/ Commit(p, job) \/ Fail(p, job)
    PROVE  Budget'
<1> DEFINE m == job.item.msg
<1>1. job \in Jobs /\ job.item \in Items /\ m \in Messages
    BY DEF TInv, TypeOK, Jobs, Items
<1>2. /\ Weight(<<"job", p, job>>) \in Nat
      /\ Later(job.item) \in Nat /\ job.left \in Nat
      /\ job.step # "failed" =>
             Weight(<<"job", p, job>>) = Later(job.item) + job.left + 1
    BY <1>1, CallbackWeight
<1>3. attempts[m] \in Nat
    BY <1>1 DEF TInv, TypeOK
<1>4. CASE Lookup(p, job) \/ LookupFails(p, job)
  <2>1. PICK s \in {"handled", "attempt", "failed"} :
            Advance(p, job, [job EXCEPT !.step = s])
      <3>1. CASE Lookup(p, job)
          BY <3>1 DEF Lookup
      <3>2. CASE LookupFails(p, job)
          BY <3>2 DEF LookupFails
      <3> QED BY <1>4, <3>1, <3>2
  <2> DEFINE next == [job EXCEPT !.step = s]
  <2>2. /\ next \in Jobs /\ next.step = s /\ next.item = job.item /\ next.left = job.left
      <3>1. s \in Steps
          BY DEF Steps
      <3> QED BY <1>1, <3>1, StepType, CallbackKeeps
  <2>3. /\ job.step = "lookup" /\ attempts' = attempts
        /\ UNCHANGED <<arrivals, ready, waiting>>
      BY <1>4 DEF Lookup, LookupFails, broker
  <2>4. Weight(<<"job", p, next>>) <= Weight(<<"job", p, job>>)
      <3>1. Weight(<<"job", p, next>>) =
                IF s = "failed" THEN Later(job.item) ELSE Later(job.item) + job.left + 1
          BY <2>2, CallbackWeight
      <3> QED BY <1>2, <2>3, <3>1
  <2>5. Weight(<<"job", p, next>>) \in Nat
      BY <2>2, CallbackWeight
  <2>6. /\ attempts'[m] + Weight(<<"job", p, next>>)
               <= attempts[m] + Weight(<<"job", p, job>>)
        /\ attempts'[m] <= attempts[m] + Weight(<<"job", p, job>>)
      BY <1>2, <1>3, <2>3, <2>4, <2>5
  <2>7. job.step \in Trying
      BY <2>3 DEF Trying
  <2> HIDE DEF next
  <2> QED BY <1>3, <2>1, <2>2, <2>3, <2>6, <2>7, BudgetAdvance DEF next
<1>5. CASE Commit(p, job)
  <2> DEFINE next == [job EXCEPT !.step = "handled"]
  <2>1. next \in Jobs /\ next.step = "handled" /\ next.item = job.item
      BY <1>1, StepType DEF Steps
  <2>2. /\ job.step = "attempt" /\ Count(job) /\ Advance(p, job, next)
        /\ UNCHANGED <<arrivals, ready, waiting>>
      BY <1>5 DEF Commit, broker
  <2>3. /\ attempts'[m] \in Nat /\ attempts'[m] = attempts[m] + 1
        /\ \A k \in Messages : k # m => attempts'[k] = attempts[k]
      BY <1>1, <2>2, CountStep DEF TInv
  <2>4. attempts'[m] <= attempts[m] + Weight(<<"job", p, job>>)
      BY <1>2, <1>3, <2>2, <2>3
  <2>5. job.step \in Trying /\ next.step \notin Trying
      BY <2>1, <2>2 DEF Trying
  <2> HIDE DEF next
  <2> QED BY <2>1, <2>2, <2>3, <2>4, <2>5, BudgetAdvance
<1>6. CASE Fail(p, job)
  <2> DEFINE next == AfterFailure(job)
  <2>1. /\ job.step = "attempt" /\ Count(job) /\ Advance(p, job, next)
        /\ UNCHANGED <<arrivals, ready, waiting>>
      BY <1>6 DEF Fail, broker
  <2>2. next \in Jobs /\ next.step \in Trying /\ next.item = job.item
      BY <1>1, <2>1, AfterFailureType DEF Trying
  <2>3. /\ attempts'[m] \in Nat /\ attempts'[m] = attempts[m] + 1
        /\ \A k \in Messages : k # m => attempts'[k] = attempts[k]
      BY <1>1, <2>1, CountStep DEF TInv
  <2>4. Weight(<<"job", p, next>>) + 1 = Weight(<<"job", p, job>>)
      <3>1. /\ Weight(<<"job", p, next>>) =
                   IF next.step = "failed" THEN Later(job.item)
                   ELSE Later(job.item) + next.left + 1
          BY <2>2, CallbackWeight
      <3>2. /\ job.left = 0 => next.step = "failed"
            /\ job.left # 0 => next.step = "attempt" /\ next.left = job.left - 1
          BY <1>1, <2>1, AfterFailureKeeps
      <3> HIDE DEF next
      <3> QED BY <1>2, <2>1, <3>1, <3>2
  <2>5. Weight(<<"job", p, next>>) \in Nat
      BY <2>2, CallbackWeight
  <2>6. attempts'[m] + Weight(<<"job", p, next>>) <= attempts[m] + Weight(<<"job", p, job>>)
      BY <1>2, <1>3, <2>3, <2>4, <2>5
  <2>7. job.step \in Trying
      BY <2>1 DEF Trying
  <2> HIDE DEF next
  <2> QED BY <2>1, <2>2, <2>3, <2>6, <2>7, BudgetAdvance
<1> QED BY <1>4, <1>5, <1>6

\* A message that failed in this delivery waits for the next, or has none.
LEMMA BudgetRecover ==
    ASSUME TInv, Budget, NEW p \in Procs, NEW job \in jobs[p], Recover(p, job)
    PROVE  Budget'
<1> SUFFICES ASSUME NEW m \in Messages PROVE Within(m)'
    BY DEF Budget
<1> DEFINE i == job.item
           next == [job EXCEPT !.step = "recovered"]
           x == <<"job", p, job>>
<1>1. Within(m) /\ job \in Jobs /\ i \in Items
    BY DEF Budget, TInv, TypeOK, Jobs
<1>2. next \in Jobs /\ next.step = "recovered" /\ next.item = i
    BY <1>1, StepType DEF Steps
<1>3. /\ job.step = "failed" /\ Advance(p, job, next) /\ HandleError(i)
      /\ UNCHANGED <<arrivals, ready, attempts>>
    BY DEF Recover
<1>4. next.step \notin Trying /\ job.step \in Trying
    BY <1>2, <1>3 DEF Trying
<1>5. Callbacks(m)' \subseteq Callbacks(m) \ {x}
    BY <1>2, <1>3, <1>4, CallbacksAdvance
<1>6. CopiesOf(ready, "ready", m)' = CopiesOf(ready, "ready", m)
    BY <1>3 DEF CopiesOf
<1>7. attempts'[m] = attempts[m] /\ attempts[m] \in Nat /\ arrivals'[m] = arrivals[m]
    BY <1>3 DEF TInv, TypeOK
<1>8. CASE i.count >= DelayedRetries
  <2>1. waiting' = waiting
      BY <1>3, <1>8 DEF HandleError
  <2>2. CopiesOf(waiting, "waiting", m)' = CopiesOf(waiting, "waiting", m)
      BY <2>1 DEF CopiesOf
  <2>3. Holders(m)' \subseteq Holders(m)
      BY <1>5, <1>6, <2>2 DEF Holders
  <2> QED BY <1>1, <1>7, <2>3, WithinStays
<1>9. CASE i.count < DelayedRetries
  <2> DEFINE again == [i EXCEPT !.count = @ + 1]
             y == <<"waiting", again, waiting[again] + 1>>
  <2>1. again \in Items /\ again.msg = i.msg /\ Later(again) + Rounds = Later(i)
      BY <1>1, <1>9, ItemFacts, LaterFacts
  <2>2. waiting' = [waiting EXCEPT ![again] = @ + 1] /\ waiting \in [Items -> Nat]
      <3>1. ~(i.count >= DelayedRetries)
          BY <1>1, <1>9, CountFacts, RetriesAssumption
      <3> QED BY <1>3, <3>1 DEF HandleError, TInv, TypeOK
  <2>3. /\ CopiesOf(waiting, "waiting", m)' \subseteq CopiesOf(waiting, "waiting", m) \cup {y}
        /\ i.msg # m =>
               CopiesOf(waiting, "waiting", m)' \subseteq CopiesOf(waiting, "waiting", m)
      <3>1. waiting' = Raised(waiting, again)
          BY <2>2 DEF Raised
      <3> HIDE DEF again
      <3>2. /\ CopiesOf(waiting', "waiting", m) \subseteq CopiesOf(waiting, "waiting", m) \cup {y}
            /\ i.msg # m =>
                   CopiesOf(waiting', "waiting", m) \subseteq CopiesOf(waiting, "waiting", m)
          BY <2>1, <2>2, <3>1, QueueUp
      <3> QED BY <3>2
  <2>4. CASE i.msg # m
      <3>1. Holders(m)' \subseteq Holders(m)
          BY <1>5, <1>6, <2>3, <2>4 DEF Holders
      <3> QED BY <1>1, <1>7, <3>1, WithinStays
  <2>5. CASE i.msg = m
      <3>1. x \in Callbacks(m) /\ x[1] = "job"
          BY <1>4, <2>5, CallbackHolder
      <3>2. Holders(m)' \subseteq (Holders(m) \ {x}) \cup {y} /\ x \in Holders(m)
          BY <1>5, <1>6, <2>3, <3>1, HolderKinds DEF Holders
      <3>3. Weight(x) = Later(i) /\ Weight(x) \in Nat
          BY <1>1, <1>3, CallbackWeight
      <3>4. Weight(y) = Later(again) + Rounds /\ Weight(y) \in Nat
          BY <2>1, CopyWeight
      <3>5. attempts'[m] + Weight(y) <= attempts[m] + Weight(x) /\ attempts'[m] \in Nat
          BY <1>7, <2>1, <3>3, <3>4
      <3> HIDE DEF x, y
      <3> QED BY <1>1, <1>7, <3>2, <3>3, <3>4, <3>5, WithinPassedOn
  <2> QED BY <2>4, <2>5
<1> QED BY <1>1, <1>8, <1>9, CountFacts, RetriesAssumption

\* A message that is published brings the budget of its copy along.
LEMMA BudgetArrive ==
    ASSUME TInv, Budget, NEW k \in Messages, Arrive(k)
    PROVE  Budget'
<1> SUFFICES ASSUME NEW m \in Messages PROVE Within(m)'
    BY DEF Budget
<1> DEFINE new == [msg |-> k, count |-> 0]
           y == <<"ready", new, ready[new] + 1>>
<1>1. new \in Items /\ new.msg = k /\ new.count = 0
    BY FreshItem
<1>2. ready' = Raised(ready, new) /\ ready \in [Items -> Nat]
    BY DEF Arrive, Raised, TInv, TypeOK
<1>3. UNCHANGED <<waiting, jobs, attempts>>
    BY DEF Arrive
<1>4. /\ CopiesOf(waiting, "waiting", m)' = CopiesOf(waiting, "waiting", m)
      /\ Callbacks(m)' = Callbacks(m)
    BY <1>3 DEF CopiesOf, Callbacks
<1>5. arrivals'[m] = IF m = k THEN arrivals[m] + 1 ELSE arrivals[m]
    BY DEF Arrive, TInv, TypeOK
<1>6. Weight(y) = PerCopy
  <2>1. Weight(y) = Later(new) + Rounds /\ Later(new) + Rounds = PerCopy
      BY <1>1, CopyWeight, LaterFacts
  <2> QED BY <2>1
<1> HIDE DEF new
<1>7. /\ CopiesOf(ready', "ready", m) \subseteq CopiesOf(ready, "ready", m) \cup {y}
      /\ k # m => CopiesOf(ready', "ready", m) \subseteq CopiesOf(ready, "ready", m)
    BY <1>1, <1>2, QueueUp
<1>8. Within(m) /\ attempts'[m] = attempts[m]
    BY <1>3 DEF Budget
<1>9. CASE k # m
  <2>1. Holders(m)' \subseteq Holders(m)
      BY <1>4, <1>7, <1>9 DEF Holders
  <2> QED BY <1>5, <1>8, <1>9, <2>1, WithinStays
<1>10. CASE k = m
  <2>1. Holders(m)' \subseteq Holders(m) \cup {y}
      BY <1>4, <1>7 DEF Holders
  <2> HIDE DEF y
  <2> QED BY <1>5, <1>6, <1>8, <1>10, <2>1, WithinGained
<1> QED BY <1>9, <1>10

\* A copy weighs the same in the retry queue as in the primary queue.
LEMMA BudgetRetryDue ==
    ASSUME TInv, Budget, NEW i \in Items, RetryDue(i)
    PROVE  Budget'
<1> SUFFICES ASSUME NEW m \in Messages PROVE Within(m)'
    BY DEF Budget
<1> DEFINE x == <<"waiting", i, waiting[i]>>
           y == <<"ready", i, ready[i] + 1>>
<1>1. /\ ready' = Raised(ready, i) /\ ready \in [Items -> Nat]
      /\ waiting' = Lowered(waiting, i) /\ waiting \in [Items -> Nat] /\ waiting[i] > 0
      /\ UNCHANGED <<jobs, attempts, arrivals>>
    BY DEF RetryDue, Raised, Lowered, TInv, TypeOK
<1>2. Callbacks(m)' = Callbacks(m)
    BY <1>1 DEF Callbacks
<1>3. /\ CopiesOf(ready', "ready", m) \subseteq CopiesOf(ready, "ready", m) \cup {y}
      /\ i.msg # m => CopiesOf(ready', "ready", m) \subseteq CopiesOf(ready, "ready", m)
    BY <1>1, QueueUp
<1>4. /\ CopiesOf(waiting', "waiting", m) \subseteq CopiesOf(waiting, "waiting", m) \ {x}
      /\ i.msg = m => x \in CopiesOf(waiting, "waiting", m)
    BY <1>1, QueueDown
<1>5. Within(m) /\ attempts'[m] = attempts[m] /\ arrivals'[m] = arrivals[m]
    BY <1>1 DEF Budget
<1>6. CASE i.msg # m
  <2>1. Holders(m)' \subseteq Holders(m)
      BY <1>2, <1>3, <1>4, <1>6 DEF Holders
  <2> QED BY <1>5, <2>1, WithinStays
<1>7. CASE i.msg = m
  <2>1. x[1] = "waiting"
      OBVIOUS
  <2>2. Holders(m)' \subseteq (Holders(m) \ {x}) \cup {y} /\ x \in Holders(m)
      BY <1>2, <1>3, <1>4, <1>7, <2>1, HolderKinds DEF Holders
  <2>3. Weight(x) \in Nat /\ Weight(y) = Weight(x)
      BY CopyWeight
  <2>4. attempts[m] \in Nat
      BY DEF TInv, TypeOK
  <2> HIDE DEF x, y
  <2>5. attempts'[m] \in Nat /\ attempts'[m] + Weight(y) <= attempts[m] + Weight(x)
      BY <1>5, <2>3, <2>4
  <2> QED BY <1>5, <2>2, <2>3, <2>5, WithinPassedOn
<1> QED BY <1>6, <1>7

LEMMA BudgetIgnore ==
    ASSUME TInv, Budget, NEW p \in Procs, NEW i \in Items, Ignore(p, i)
    PROVE  Budget'
<1> SUFFICES ASSUME NEW m \in Messages PROVE Within(m)'
    BY DEF Budget
<1>1. /\ ready' = Lowered(ready, i) /\ ready \in [Items -> Nat] /\ ready[i] > 0
      /\ UNCHANGED <<waiting, jobs, attempts, arrivals>>
    BY DEF Ignore, CanTake, Lowered, TInv, TypeOK
<1>2. /\ CopiesOf(waiting, "waiting", m)' = CopiesOf(waiting, "waiting", m)
      /\ Callbacks(m)' = Callbacks(m)
    BY <1>1 DEF CopiesOf, Callbacks
<1>3. CopiesOf(ready', "ready", m) \subseteq CopiesOf(ready, "ready", m)
    BY <1>1, QueueDown
<1>4. Holders(m)' \subseteq Holders(m)
    BY <1>2, <1>3 DEF Holders
<1>5. Within(m) /\ attempts'[m] = attempts[m] /\ arrivals'[m] = arrivals[m]
    BY <1>1 DEF Budget
<1> QED BY <1>4, <1>5, WithinStays

\* A delivery has one attempt and its immediate retries, as many as one copy
\* weighs more than its next redelivery.
LEMMA BudgetDeliver ==
    ASSUME TInv, Budget, NEW p \in Procs, NEW i \in Items, Deliver(p, i)
    PROVE  Budget'
<1> SUFFICES ASSUME NEW m \in Messages PROVE Within(m)'
    BY DEF Budget
<1> DEFINE new == [tag |-> lastTag[p] + 1, epoch |-> epoch[p], item |-> i,
                   step |-> "lookup", left |-> ImmediateRetries]
           x == <<"ready", i, ready[i]>>
           y == <<"job", p, new>>
<1>1. /\ ready' = Lowered(ready, i) /\ ready \in [Items -> Nat] /\ ready[i] > 0
      /\ UNCHANGED <<waiting, attempts, arrivals>>
    BY DEF Deliver, CanTake, Lowered, TInv, TypeOK
<1>2. lastTag'[p] = lastTag[p] + 1 /\ lastTag[p] + 1 \in Nat \ {0}
    BY DEF Deliver, TInv, TypeOK
<1>3. jobs' = [jobs EXCEPT ![p] = @ \cup {new}]
    BY <1>2 DEF Deliver
<1>4. new \in Jobs
    BY <1>2, RetriesAssumption DEF Jobs, Steps, TInv, TypeOK
<1>5. new.item = i /\ new.step = "lookup" /\ new.left = ImmediateRetries
    OBVIOUS
<1> HIDE DEF new
<1>6. /\ CopiesOf(ready', "ready", m) \subseteq CopiesOf(ready, "ready", m) \ {x}
      /\ i.msg = m => x \in CopiesOf(ready, "ready", m)
    BY <1>1, QueueDown
<1>7. CopiesOf(waiting, "waiting", m)' = CopiesOf(waiting, "waiting", m)
    BY <1>1 DEF CopiesOf
<1>8. /\ Callbacks(m)' \subseteq Callbacks(m) \cup {y}
      /\ i.msg # m => Callbacks(m)' \subseteq Callbacks(m)
    BY <1>3, <1>5, CallbacksBegin
<1>9. Within(m) /\ attempts'[m] = attempts[m] /\ arrivals'[m] = arrivals[m]
    BY <1>1 DEF Budget
<1>10. CASE i.msg # m
  <2>1. Holders(m)' \subseteq Holders(m)
      BY <1>6, <1>7, <1>8, <1>10 DEF Holders
  <2> QED BY <1>9, <2>1, WithinStays
<1>11. CASE i.msg = m
  <2>1. x[1] = "ready"
      OBVIOUS
  <2>2. Holders(m)' \subseteq (Holders(m) \ {x}) \cup {y} /\ x \in Holders(m)
      BY <1>6, <1>7, <1>8, <1>11, <2>1, HolderKinds DEF Holders
  <2>3. Weight(x) \in Nat /\ Weight(x) = Later(i) + Rounds
      BY CopyWeight
  <2>4. Weight(y) \in Nat /\ Weight(y) = Later(i) + ImmediateRetries + 1
      BY <1>4, <1>5, CallbackWeight
  <2>5. attempts[m] \in Nat /\ Later(i) \in Nat
      BY LaterFacts DEF TInv, TypeOK
  <2> HIDE DEF x, y
  <2>6. attempts'[m] \in Nat /\ attempts'[m] + Weight(y) <= attempts[m] + Weight(x)
      BY <1>9, <2>3, <2>4, <2>5, RetriesAssumption DEF Rounds
  <2> QED BY <1>9, <2>2, <2>3, <2>4, <2>6, WithinPassedOn
<1> QED BY <1>10, <1>11

LEMMA BudgetAck ==
    ASSUME TInv, Budget, NEW p \in Procs, NEW job \in jobs[p], Ack(p, job)
    PROVE  Budget'
<1> SUFFICES ASSUME NEW m \in Messages PROVE Within(m)'
    BY DEF Budget
<1>1. /\ jobs' = [jobs EXCEPT ![p] = @ \ {job}]
      /\ UNCHANGED <<ready, waiting, attempts, arrivals>>
    BY DEF Ack
<1>2. /\ CopiesOf(waiting, "waiting", m)' = CopiesOf(waiting, "waiting", m)
      /\ CopiesOf(ready, "ready", m)' = CopiesOf(ready, "ready", m)
    BY <1>1 DEF CopiesOf
<1>3. Callbacks(m)' \subseteq Callbacks(m)
    BY <1>1, CallbacksEnd
<1>4. Holders(m)' \subseteq Holders(m)
    BY <1>2, <1>3 DEF Holders
<1>5. Within(m) /\ attempts'[m] = attempts[m] /\ arrivals'[m] = arrivals[m]
    BY <1>1 DEF Budget
<1> QED BY <1>4, <1>5, WithinStays

LEMMA BudgetStays ==
    ASSUME Budget, UNCHANGED <<ready, waiting, jobs, attempts, arrivals>>
    PROVE  Budget'
<1>1. ASSUME NEW m \in Messages PROVE Within(m)'
  <2>1. Holders(m)' = Holders(m)
      BY DEF Holders, CopiesOf, Callbacks
  <2>2. Within(m)
      BY DEF Budget
  <2> QED BY <2>1, <2>2 DEF Within
<1> QED BY <1>1 DEF Budget

LEMMA PatienceInit == Init => Patience
<1> SUFFICES ASSUME Init PROVE Patience
    OBVIOUS
<1>1. Orderly
    BY DEF Init, Orderly
<1>2. ASSUME NEW m \in Messages PROVE Within(m)
  <2>1. Holders(m) = {}
    <3>1. ASSUME NEW h \in CopiesOf(ready, "ready", m) \cup CopiesOf(waiting, "waiting", m)
          PROVE  FALSE
        BY <3>1 DEF CopiesOf, Init
    <3>2. ASSUME NEW h \in Callbacks(m) PROVE FALSE
        BY <3>2 DEF Callbacks, Init
    <3> QED BY <3>1, <3>2 DEF Holders
  <2>2. Chances(Holders(m)) = {}
      BY <2>1 DEF Chances
  <2>3. IsFiniteSet(Chances(Holders(m))) /\ Cardinality(Chances(Holders(m))) = 0
      BY <2>2, FS_EmptySet
  <2>4. attempts[m] = 0 /\ arrivals[m] = 0
      BY DEF Init
  <2>5. arrivals[m] * PerCopy \in Nat
      BY <2>4, PerCopyFacts
  <2> QED BY <2>3, <2>4, <2>5 DEF Within
<1> QED BY <1>1, <1>2, TInvInit DEF Patience, Budget

LEMMA PatienceStep == Patience /\ [Next]_vars => Patience'
<1> SUFFICES ASSUME Patience, [Next]_vars, Steady' PROVE Orderly' /\ Budget'
    BY TInvStep DEF Patience
<1>1. TInv /\ TypeOK
    BY DEF Patience, TInv
<1>2. ASSUME NEW kind, Fault(kind) PROVE FALSE
    BY <1>1, <1>2, FaultsAreCounted
<1>3. ASSUME UNCHANGED faults PROVE Orderly /\ Budget
    BY <1>3 DEF Patience, Steady
<1>4. CASE UNCHANGED vars
    BY <1>3, <1>4, OrderlyStays, BudgetStays DEF vars
<1>5. ASSUME NEW m \in Messages, Arrive(m) PROVE Orderly' /\ Budget'
    BY <1>1, <1>3, <1>5, OrderlyStays, BudgetArrive DEF Arrive
<1>6. ASSUME Expire PROVE Orderly' /\ Budget'
  <2> PICK i \in Items : RetryDue(i)
      BY <1>6 DEF Expire
  <2>1. UNCHANGED <<link, unacked, jobs, faults>>
      BY DEF RetryDue
  <2> QED BY <1>1, <1>3, <2>1, OrderlyStays, BudgetRetryDue
<1>7. ASSUME NEW p \in Procs, Connect(p) PROVE Orderly' /\ Budget'
  <2>1. UNCHANGED <<ready, waiting, jobs, attempts, arrivals, faults>>
      BY <1>7 DEF Connect, broker
  <2> QED BY <1>1, <1>3, <1>7, <2>1, OrderlyConnect, BudgetStays
<1>8. ASSUME NEW p \in Procs, NEW i \in Items, Ignore(p, i) PROVE Orderly' /\ Budget'
    BY <1>1, <1>3, <1>8, OrderlyStays, BudgetIgnore DEF Ignore
<1>9. ASSUME NEW p \in Procs, NEW i \in Items, Deliver(p, i) PROVE Orderly' /\ Budget'
  <2>1. UNCHANGED faults
      BY <1>9 DEF Deliver
  <2> QED BY <1>1, <1>3, <1>9, <2>1, OrderlyDeliver, BudgetDeliver
<1>10. ASSUME NEW p \in Procs, Work(p) PROVE Orderly' /\ Budget'
  <2> PICK job \in jobs[p] :
          \/ Lookup(p, job) \/ LookupFails(p, job) \/ Commit(p, job) \/ Fail(p, job)
          \/ Recover(p, job) \/ Ack(p, job) \/ Throw(p, job)
      BY <1>10 DEF Work
  <2>1. UNCHANGED faults
      BY DEF Lookup, LookupFails, Commit, Fail, Recover, Ack, Throw
  <2>2. Orderly /\ Budget /\ job \in Jobs
      BY <1>1, <1>3, <2>1 DEF TypeOK
  <2>3. ASSUME NEW s \in Steps, Advance(p, job, [job EXCEPT !.step = s]),
               UNCHANGED <<link, unacked>>
        PROVE  Orderly'
      BY <1>1, <2>2, <2>3, CallbackKeeps, OrderlyAdvance
  <2>4. CASE Lookup(p, job)
      <3>1. PICK s \in Steps : Advance(p, job, [job EXCEPT !.step = s])
          BY <2>4 DEF Lookup, Steps
      <3>2. UNCHANGED <<link, unacked>>
          BY <2>4 DEF Lookup, broker
      <3> QED BY <1>1, <2>2, <2>3, <2>4, <3>1, <3>2, BudgetWork
  <2>5. CASE LookupFails(p, job)
      <3>1. /\ Advance(p, job, [job EXCEPT !.step = "failed"]) /\ "failed" \in Steps
            /\ UNCHANGED <<link, unacked>>
          BY <2>5 DEF LookupFails, Steps, broker
      <3> QED BY <1>1, <2>2, <2>3, <2>5, <3>1, BudgetWork
  <2>6. CASE Commit(p, job)
      <3>1. /\ Advance(p, job, [job EXCEPT !.step = "handled"]) /\ "handled" \in Steps
            /\ UNCHANGED <<link, unacked>>
          BY <2>6 DEF Commit, Steps, broker
      <3> QED BY <1>1, <2>2, <2>3, <2>6, <3>1, BudgetWork
  <2>7. CASE Fail(p, job)
      <3>1. Advance(p, job, AfterFailure(job)) /\ UNCHANGED <<link, unacked>>
          BY <2>7 DEF Fail, broker
      <3>2. AfterFailure(job).tag = job.tag
          BY <2>2, AfterFailureKeeps
      <3>3. Orderly'
          BY <1>1, <2>2, <3>1, <3>2, OrderlyAdvance
      <3> QED BY <1>1, <2>2, <2>7, <3>3, BudgetWork
  <2>8. CASE Recover(p, job)
      <3>1. /\ Advance(p, job, [job EXCEPT !.step = "recovered"]) /\ "recovered" \in Steps
            /\ UNCHANGED <<link, unacked>>
          BY <2>8 DEF Recover, Steps
      <3> QED BY <1>1, <2>2, <2>3, <2>8, <3>1, BudgetRecover
  <2>9. CASE Ack(p, job)
      BY <1>1, <2>2, <2>9, OrderlyAck, BudgetAck
  <2>10. CASE Throw(p, job)
      BY <2>2, <2>10, OrderlyNeverThrows
  <2> QED BY <2>4, <2>5, <2>6, <2>7, <2>8, <2>9, <2>10
<1>11. ASSUME NEW p \in Procs, Break(p) PROVE Orderly' /\ Budget'
    BY <1>2, <1>11 DEF Break, Drop, Crash, LostCommit
<1> QED BY <1>4, <1>5, <1>6, <1>7, <1>8, <1>9, <1>10, <1>11 DEF Next, Take

\* As long as no connection breaks, no process dies and no answer of the database
\* is lost, the handler is called at most (1 + immediate) * (1 + delayed) times
\* for each copy published of a message, for any prefetch and any interleaving of
\* any number of processes.
THEOREM RetriesAreBounded == Spec => []AttemptsBounded
<1>1. Patience => AttemptsBounded
  <2> SUFFICES ASSUME Patience, Steady, NEW m \in Messages
               PROVE  attempts[m] <=
                          arrivals[m] * (ImmediateRetries + 1) * (DelayedRetries + 1)
      BY DEF AttemptsBounded, Steady
  <2>1. /\ IsFiniteSet(Chances(Holders(m)))
        /\ attempts[m] + Cardinality(Chances(Holders(m))) <= arrivals[m] * PerCopy
      BY DEF Patience, Budget, Within
  <2>2. attempts[m] \in Nat /\ arrivals[m] \in Nat
      BY DEF Patience, TInv, TypeOK
  <2>3. Cardinality(Chances(Holders(m))) \in Nat /\ arrivals[m] * PerCopy \in Nat
      BY <2>1, <2>2, FS_CardinalityType, PerCopyFacts
  <2>4. attempts[m] <= arrivals[m] * PerCopy
      BY <2>1, <2>2, <2>3
  <2>5. ASSUME NEW a \in Nat, NEW b \in Nat, NEW c \in Nat
        PROVE  a * (b * c) = a * b * c
      BY Z3
  <2>6. ImmediateRetries + 1 \in Nat /\ DelayedRetries + 1 \in Nat
      BY RetriesAssumption
  <2>7. arrivals[m] * PerCopy = arrivals[m] * (ImmediateRetries + 1) * (DelayedRetries + 1)
      BY <2>2, <2>5, <2>6 DEF PerCopy, Rounds
  <2> QED BY <2>4, <2>7
<1> QED BY <1>1, PatienceInit, PatienceStep, PTL DEF Spec

=============================================================================
