--------------------------- MODULE InboxConsumer ---------------------------
(***************************************************************************)
(* The consumers of one module: processes running handle-messages, the      *)
(* module's primary, retry and error queues at the broker, and its inbox    *)
(* table.                                                                  *)
(*                                                                         *)
(* ConsumerService takes up to Prefetch deliveries at a time from one       *)
(* channel and works on them concurrently; InboxMessageHandler looks for an *)
(* inbox row and tries the handler; a message that keeps failing is         *)
(* published again to the retry queue, in the end to the error queue.       *)
(* Every event type has one handler in a module, so an inbox row is         *)
(* identified by its message.                                              *)
(***************************************************************************)
EXTENDS Integers, FiniteSets, Functions

CONSTANTS
    Messages,          \* outbox ids, as the broker sees them
    Ignored,           \* those of a type the module has no handler for
    Procs,             \* consumer processes of the module
    ImmediateRetries,  \* RABBITMQ_IMMEDIATE_RETRIES
    DelayedRetries,    \* RABBITMQ_DELAYED_RETRIES
    Prefetch,          \* RABBITMQ_CONSUME_MESSAGE_LIMIT
    MaxCopies,         \* bound: times a relay publishes one message
    Faults,            \* which of FaultKinds may happen
    MaxFaults          \* bound: faults in a behaviour

\* "drop": a connection breaks; "crash": a process dies; "lostcommit": the
\* database commits but its answer is lost.
FaultKinds == {"drop", "crash", "lostcommit"}

ASSUME IgnoredAssumption == Ignored \subseteq Messages
ASSUME RetriesAssumption == ImmediateRetries \in Nat /\ DelayedRetries \in Nat
ASSUME PrefetchAssumption == Prefetch \in Nat \ {0}
ASSUME BoundsAssumption == MaxCopies \in Nat /\ MaxFaults \in Nat
ASSUME FaultsAssumption == Faults \subseteq FaultKinds

VARIABLES
    arrivals,  \* times each message was published to the primary queue
    ready,     \* ready[i]: copies of item i waiting in the primary queue
    waiting,   \* the same for the retry queue
    dead,      \* messages in the error queue
    link,      \* each process's connection and channel
    epoch,     \* channels each process has had
    lastTag,   \* last delivery tag of the process's channel
    unacked,   \* <<tag, item>>: deliveries on the channel not acknowledged
    jobs,      \* callbacks of channel.consume under way in each process
    inbox,     \* messages with an inbox row
    effects,   \* times a message's effects were committed
    attempts,  \* times the handler was called for a message
    misacked,  \* messages of which a delivery was acknowledged for another item
    faults     \* faults of each kind so far

broker == <<ready, waiting, dead, unacked>>
database == <<inbox, effects>>
vars == <<arrivals, ready, waiting, dead, link, epoch, lastTag, unacked, jobs,
          inbox, effects, attempts, misacked, faults>>

\* What a queue holds: a message and its redelivery_count header.
Items == [msg : Messages, count : 0..DelayedRetries]

Steps == {"lookup", "attempt", "handled", "failed", "recovered"}

\* A callback: its delivery (the tag it will acknowledge, from the channel of
\* that epoch), where it is and retryCount, the immediate retries left.
Jobs == [tag : Nat \ {0}, epoch : Nat, item : Items, step : Steps,
         left : 0..ImmediateRetries]

Init ==
    /\ arrivals = [m \in Messages |-> 0]
    /\ ready = [i \in Items |-> 0]
    /\ waiting = [i \in Items |-> 0]
    /\ dead = {}
    /\ link = [p \in Procs |-> "down"]
    /\ epoch = [p \in Procs |-> 0]
    /\ lastTag = [p \in Procs |-> 0]
    /\ unacked = [p \in Procs |-> {}]
    /\ jobs = [p \in Procs |-> {}]
    /\ inbox = {}
    /\ effects = [m \in Messages |-> 0]
    /\ attempts = [m \in Messages |-> 0]
    /\ misacked = {}
    /\ faults = [kind \in FaultKinds |-> 0]

Fault(kind) ==
    /\ kind \in Faults
    /\ SumFunction(faults) < MaxFaults
    /\ faults' = [faults EXCEPT ![kind] = @ + 1]

\* The relay publishes a message, possibly not for the first time.
Arrive(m) ==
    /\ arrivals[m] < MaxCopies
    /\ arrivals' = [arrivals EXCEPT ![m] = @ + 1]
    /\ ready' = [ready EXCEPT ![[msg |-> m, count |-> 0]] = @ + 1]
    /\ UNCHANGED <<waiting, dead, link, epoch, lastTag, unacked, jobs, database,
                   attempts, misacked, faults>>

\* connect and consume: a new channel, whose delivery tags start again at 1.
\* Callbacks of earlier channels go on.
Connect(p) ==
    /\ link[p] = "down"
    /\ link' = [link EXCEPT ![p] = "up"]
    /\ epoch' = [epoch EXCEPT ![p] = @ + 1]
    /\ lastTag' = [lastTag EXCEPT ![p] = 0]
    /\ UNCHANGED <<arrivals, broker, jobs, database, attempts, misacked, faults>>

CanTake(p, item) ==
    /\ link[p] = "up"
    /\ Cardinality(unacked[p]) < Prefetch
    /\ ready[item] > 0

\* A message the service has no handler for is acknowledged at once.
Ignore(p, item) ==
    /\ CanTake(p, item)
    /\ item.msg \in Ignored
    /\ ready' = [ready EXCEPT ![item] = @ - 1]
    /\ lastTag' = [lastTag EXCEPT ![p] = @ + 1]
    /\ UNCHANGED <<arrivals, waiting, dead, link, epoch, unacked, jobs, database,
                   attempts, misacked, faults>>

\* The consumer is set up with noAck: the broker forgets what it delivers.
MutDeliver(p, item) ==
    /\ CanTake(p, item)
    /\ item.msg \notin Ignored
    /\ ready' = [ready EXCEPT ![item] = @ - 1]
    /\ lastTag' = [lastTag EXCEPT ![p] = @ + 1]
    /\ jobs' = [jobs EXCEPT ![p] = @ \cup
          {[tag |-> lastTag'[p], epoch |-> epoch[p], item |-> item,
            step |-> "lookup", left |-> ImmediateRetries]}]
    /\ UNCHANGED <<arrivals, waiting, dead, link, epoch, unacked, database, attempts,
                   misacked, faults>>

Deliver(p, item) ==
    /\ CanTake(p, item)
    /\ item.msg \notin Ignored
    /\ ready' = [ready EXCEPT ![item] = @ - 1]
    /\ lastTag' = [lastTag EXCEPT ![p] = @ + 1]
    /\ unacked' = [unacked EXCEPT ![p] = @ \cup {<<lastTag'[p], item>>}]
    /\ jobs' = [jobs EXCEPT ![p] = @ \cup
          {[tag |-> lastTag'[p], epoch |-> epoch[p], item |-> item,
            step |-> "lookup", left |-> ImmediateRetries]}]
    /\ UNCHANGED <<arrivals, waiting, dead, link, epoch, database, attempts, misacked, faults>>

-----------------------------------------------------------------------------
(* InboxMessageHandler.handleMessage *)

Advance(p, job, next) == jobs' = [jobs EXCEPT ![p] = (@ \ {job}) \cup {next}]

\* A duplicate returns nothing to acknowledge.
MutLookup(p, job) ==
    /\ job.step = "lookup"
    /\ IF job.item.msg \in inbox
       THEN jobs' = [jobs EXCEPT ![p] = @ \ {job}]
       ELSE Advance(p, job, [job EXCEPT !.step = "attempt"])
    /\ UNCHANGED <<arrivals, broker, link, epoch, lastTag, database, attempts, misacked, faults>>

\* Is there an inbox row already?
Lookup(p, job) ==
    /\ job.step = "lookup"
    /\ Advance(p, job, [job EXCEPT !.step =
                           IF job.item.msg \in inbox THEN "handled" ELSE "attempt"])
    /\ UNCHANGED <<arrivals, broker, link, epoch, lastTag, database, attempts, misacked, faults>>

\* The handler cannot be loaded or the query fails: it is not tried at all.
LookupFails(p, job) ==
    /\ job.step = "lookup"
    /\ Advance(p, job, [job EXCEPT !.step = "failed"])
    /\ UNCHANGED <<arrivals, broker, link, epoch, lastTag, database, attempts, misacked, faults>>

Count(job) == attempts' = [attempts EXCEPT ![job.item.msg] = @ + 1]

\* No unique key on (message_id, handler_name).
MutCommitTx(m) ==
    /\ inbox' = inbox \cup {m}
    /\ effects' = [effects EXCEPT ![m] = @ + 1]

\* The transaction of a handler commits its effects with its inbox row, whose
\* unique key admits one row for a message: a second transaction waits for the
\* first, and goes on only if that one rolls back.
CommitTx(m) ==
    /\ m \notin inbox
    /\ inbox' = inbox \cup {m}
    /\ effects' = [effects EXCEPT ![m] = @ + 1]

Commit(p, job) ==
    /\ job.step = "attempt"
    /\ CommitTx(job.item.msg)
    /\ Count(job)
    /\ Advance(p, job, [job EXCEPT !.step = "handled"])
    /\ UNCHANGED <<arrivals, broker, link, epoch, lastTag, misacked, faults>>

\* One attempt too many: the loop runs while retryCount >= -1.
MutLastAttempt(job) == job.left < 0

\* retryCount would drop below 0.
LastAttempt(job) == job.left = 0

AfterFailure(job) ==
    IF LastAttempt(job) THEN [job EXCEPT !.step = "failed"]
    ELSE [job EXCEPT !.left = @ - 1]

\* The handler throws and its transaction rolls back: the business refuses,
\* the database fails, or the inbox row exists by now.
Fail(p, job) ==
    /\ job.step = "attempt"
    /\ Count(job)
    /\ Advance(p, job, AfterFailure(job))
    /\ UNCHANGED <<arrivals, broker, link, epoch, lastTag, database, misacked, faults>>

\* The transaction commits, but the handler throws.
LostCommit(p, job) ==
    /\ Fault("lostcommit")
    /\ job.step = "attempt"
    /\ CommitTx(job.item.msg)
    /\ Count(job)
    /\ Advance(p, job, AfterFailure(job))
    /\ UNCHANGED <<arrivals, broker, link, epoch, lastTag, misacked>>

-----------------------------------------------------------------------------
(* ConsumerService: the catch and the finally of the callback *)

\* The process dies: its transactions roll back, and the broker puts what it
\* had not acknowledged back in the queue.  It is started again (Connect).
Requeue(p) ==
    /\ ready' = [i \in Items |->
                    ready[i] + Cardinality({d \in unacked[p] : d[2] = i})]
    /\ unacked' = [unacked EXCEPT ![p] = {}]
    /\ link' = [link EXCEPT ![p] = "down"]

Die(p) ==
    /\ Requeue(p)
    /\ jobs' = [jobs EXCEPT ![p] = {}]

\* A message that was redelivered too much is given up without a trace.
MutHandleError(item) ==
    IF item.count >= DelayedRetries
    THEN UNCHANGED <<waiting, dead>>
    ELSE /\ waiting' = [waiting EXCEPT ![[item EXCEPT !.count = @ + 1]] = @ + 1]
         /\ UNCHANGED dead

\* handleError: to the retry queue with the count raised, or to the error queue.
HandleError(item) ==
    IF item.count >= DelayedRetries
    THEN dead' = dead \cup {item.msg} /\ UNCHANGED waiting
    ELSE /\ waiting' = [waiting EXCEPT ![[item EXCEPT !.count = @ + 1]] = @ + 1]
         /\ UNCHANGED dead

Recover(p, job) ==
    /\ job.step = "failed"
    /\ link[p] = "up"
    /\ HandleError(job.item)
    /\ Advance(p, job, [job EXCEPT !.step = "recovered"])
    /\ UNCHANGED <<arrivals, ready, link, epoch, lastTag, unacked, database,
                   attempts, misacked, faults>>

Tags(p) == {d[1] : d \in unacked[p]}

\* The finally block acknowledges the job's tag on the channel of now.
Ack(p, job) ==
    /\ job.step \in {"handled", "recovered"}
    /\ link[p] = "up"
    /\ job.tag \in Tags(p)
    /\ unacked' = [unacked EXCEPT ![p] = {d \in @ : d[1] # job.tag}]
    /\ misacked' = misacked \cup
          {d[2].msg : d \in {e \in unacked[p] : e[1] = job.tag /\ e[2] # job.item}}
    /\ jobs' = [jobs EXCEPT ![p] = @ \ {job}]
    /\ UNCHANGED <<arrivals, ready, waiting, dead, link, epoch, lastTag, database,
                   attempts, faults>>

\* An exception nobody handles ends the process: the channel is closed, or it
\* does not know the tag and the broker answers with a channel error.  Should the
\* connection's 'error' listener get that one, it is a Drop: the process goes on
\* without this callback.
Throw(p, job) ==
    /\ \/ job.step \in {"failed", "handled", "recovered"} /\ link[p] = "down"
       \/ job.step \in {"handled", "recovered"} /\ link[p] = "up" /\ job.tag \notin Tags(p)
    /\ Die(p)
    /\ UNCHANGED <<arrivals, waiting, dead, epoch, lastTag, database, attempts, misacked, faults>>

-----------------------------------------------------------------------------
(* Broker and failures *)

\* The TTL of a message in the retry queue expires.
RetryDue(item) ==
    /\ waiting[item] > 0
    /\ waiting' = [waiting EXCEPT ![item] = @ - 1]
    /\ ready' = [ready EXCEPT ![item] = @ + 1]
    /\ UNCHANGED <<arrivals, dead, link, epoch, lastTag, unacked, jobs, database,
                   attempts, misacked, faults>>

\* The connection breaks.  The broker requeues; the process goes on with its
\* jobs, except those whose last words were written but not received.
Drop(p) ==
    /\ Fault("drop")
    /\ link[p] = "up"
    /\ Requeue(p)
    /\ \E gone \in SUBSET {j \in jobs[p] : j.step \in {"failed", "handled", "recovered"}} :
          jobs' = [jobs EXCEPT ![p] = @ \ gone]
    /\ UNCHANGED <<arrivals, waiting, dead, epoch, lastTag, database, attempts, misacked>>

Crash(p) ==
    /\ Fault("crash")
    /\ link[p] = "up" \/ jobs[p] # {}
    /\ Die(p)
    /\ UNCHANGED <<arrivals, waiting, dead, epoch, lastTag, database, attempts, misacked>>

-----------------------------------------------------------------------------
Take(p) == \E item \in Items : Ignore(p, item) \/ Deliver(p, item)

Work(p) ==
    \E job \in jobs[p] :
        \/ Lookup(p, job) \/ LookupFails(p, job) \/ Commit(p, job) \/ Fail(p, job)
        \/ Recover(p, job) \/ Ack(p, job) \/ Throw(p, job)

Break(p) == Drop(p) \/ Crash(p) \/ \E job \in jobs[p] : LostCommit(p, job)

Expire == \E item \in Items : RetryDue(item)

Next ==
    \/ \E m \in Messages : Arrive(m)
    \/ Expire
    \/ \E p \in Procs : Connect(p) \/ Take(p) \/ Work(p) \/ Break(p)

Spec == Init /\ [][Next]_vars

\* Processes are restarted, the broker delivers, TTLs expire and callbacks do
\* not hang.  Nothing makes a handler succeed.
Fairness ==
    /\ WF_vars(Expire)
    /\ \A p \in Procs : WF_vars(Connect(p)) /\ WF_vars(Take(p)) /\ WF_vars(Work(p))

FairSpec == Spec /\ Fairness

-----------------------------------------------------------------------------
(* Properties *)

\* The types of the variables; in particular no callback retries more often
\* than it may.
TypeOK ==
    /\ arrivals \in [Messages -> Nat]
    /\ ready \in [Items -> Nat]
    /\ waiting \in [Items -> Nat]
    /\ dead \subseteq Messages
    /\ link \in [Procs -> {"up", "down"}]
    /\ epoch \in [Procs -> Nat]
    /\ lastTag \in [Procs -> Nat]
    /\ unacked \in [Procs -> SUBSET (Nat \X Items)]
    /\ \A p \in Procs : \A d \in unacked[p] : d[1] \in 1..lastTag[p]
    /\ jobs \in [Procs -> SUBSET Jobs]
    /\ inbox \subseteq Messages
    /\ effects \in [Messages -> Nat]
    /\ attempts \in [Messages -> Nat]
    /\ misacked \subseteq Messages
    /\ faults \in [FaultKinds -> Nat]

\* Duplicates, concurrent consumers, lost answers, crashes and reconnections
\* notwithstanding, the effects of a message are committed at most once.
ExactlyOnce == \A m \in Messages : effects[m] <= 1

Held(m) ==
    \/ \E i \in Items : i.msg = m /\ ready[i] + waiting[i] > 0
    \/ \E p \in Procs : \E d \in unacked[p] : d[2].msg = m

\* A message that reached the queue is handled, in the error queue, or still
\* with the broker: "Zero message loss even during broker restart" (US-17,
\* docs/01-product-requirements.md:143).
ZeroLoss == \A m \in Messages \ Ignored :
    arrivals[m] > 0 => m \in inbox \cup dead \/ Held(m)

\* What the code guarantees of it: whatever step a process dies at, whichever
\* answers are lost and whenever connections break, a message is lost only if a
\* callback that outlived its channel acknowledged it for another one.
NothingLost == \A m \in Messages \ Ignored :
    arrivals[m] > 0 => m \in inbox \cup dead \cup misacked \/ Held(m)

\* Without faults a message is tried at most (1 + immediate) * (1 + delayed)
\* times for each copy of it, however its deliveries interleave.
AttemptsBounded ==
    (\A kind \in FaultKinds : faults[kind] = 0) =>
        \A m \in Messages :
            attempts[m] <= arrivals[m] * (ImmediateRetries + 1) * (DelayedRetries + 1)

\* The queues drain: in the end no message waits or blocks a prefetch slot,
\* even if its handler always throws.  With NothingLost, every message that has a
\* handler is then handled or in the error queue, or was acknowledged for another.
Drains == <>[](\A m \in Messages : ~Held(m))

\* The mailbox that the consumer, its queues and its inbox table are.
M == INSTANCE Mailbox WITH
        Unwanted <- Ignored,
        published <- {m \in Messages : arrivals[m] > 0},
        queued <- {m \in Messages : Held(m)},
        parked <- dead,
        lost <- misacked

\* No step of the consumer breaks its promise: it lets go of the last copy of a
\* message only when that one is settled, never handles one again, and takes
\* nothing back.
ServesMailbox == M!Spec

=============================================================================
