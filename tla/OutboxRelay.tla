---------------------------- MODULE OutboxRelay ----------------------------
(***************************************************************************)
(* The relays that move the rows of one outbox table to the broker: any     *)
(* number of dispatch-messages processes for the same schema.               *)
(*                                                                         *)
(* dispatchMessages selects a batch FOR UPDATE SKIP LOCKED, opens a channel,*)
(* writes every message to it, marks the rows, closes the channel and       *)
(* commits.  The channel has no publisher confirms: what tells the relay    *)
(* that the broker has a message is that closing the channel succeeded.     *)
(*                                                                         *)
(* The channel is a field of the connection service.  Every round opens a   *)
(* connection and closes only its channel; every connection that breaks     *)
(* sets off a reconnect, which some time later puts a new channel into the  *)
(* field, also under a round that has written to the one before.            *)
(***************************************************************************)
EXTENDS Naturals, FiniteSets

CONSTANTS
    NRows,      \* rows stored in the outbox, in the order 1, 2, ...
    Relays,     \* relay processes of this schema
    Limit,      \* --limit: rows per batch
    Faults,     \* which of FaultKinds may happen
    MaxFaults   \* bound: faults in a behaviour

\* "drop": a connection breaks; "full": the channel's write buffer is full;
\* "dberror": the UPDATE or the COMMIT fails; "crash": the process dies.
FaultKinds == {"drop", "full", "dberror", "crash"}

ASSUME NRowsAssumption == NRows \in Nat
ASSUME RelaysAssumption == IsFiniteSet(Relays)
ASSUME LimitAssumption == Limit \in Nat \ {0}
ASSUME FaultsAssumption == Faults \subseteq FaultKinds
ASSUME MaxFaultsAssumption == MaxFaults \in Nat

VARIABLES
    stored,   \* rows 1..stored are in the table
    done,     \* rows with processed = true
    phase,    \* where each relay is in dispatchMessages
    batch,    \* the rows each relay has selected, and locked until it ends
    link,     \* the state of the channel that the field holds
    channel,  \* which of the relay's channels that is
    spare,    \* has the relay other connections that are open?
    redials,  \* reconnects of the relay whose connect() has not returned
    shaken,   \* relays that have lost a connection since they were started
    pipe,     \* pipe[p][n]: written to channel n of p, not received by the broker
    cut,      \* rows written to a connection that ended before they arrived
    copies,   \* copies[r]: times the broker received row r
    faults    \* faults so far

table == <<stored, done>>
network == <<link, channel, spare, redials, shaken, pipe>>
vars == <<table, phase, batch, network, cut, copies, faults>>

Rows == 1..NRows

\* Channels are numbered where one replaces another that is not drained: the
\* bound is no restriction, since each reconnect has a fault of its own.
Channels == 0..MaxFaults

Phases == {"idle", "selected", "connected", "written", "marked", "closed",
           "aborted", "hung"}

Init ==
    /\ stored = 0
    /\ done = {}
    /\ phase = [p \in Relays |-> "idle"]
    /\ batch = [p \in Relays |-> {}]
    /\ link = [p \in Relays |-> "none"]
    /\ channel = [p \in Relays |-> 0]
    /\ spare = [p \in Relays |-> FALSE]
    /\ redials = [p \in Relays |-> 0]
    /\ shaken = {}
    /\ pipe = [p \in Relays |-> [n \in Channels |-> {}]]
    /\ cut = {}
    /\ copies = [r \in Rows |-> 0]
    /\ faults = 0

Fault(kind) ==
    /\ kind \in Faults
    /\ faults < MaxFaults
    /\ faults' = faults + 1

\* A handler commits an outbox row with its business change.
Store ==
    /\ stored < NRows
    /\ stored' = stored + 1
    /\ UNCHANGED <<done, phase, batch, network, cut, copies, faults>>

Goes(p, to) == phase' = [phase EXCEPT ![p] = to]

\* The transaction ends, or is rolled back: the rows are unlocked.
Unlock(p) == batch' = [batch EXCEPT ![p] = {}]

-----------------------------------------------------------------------------
(* Connections *)

\* The channel of p that the field holds has this on its way.
Unsent(p) == pipe[p][channel[p]]

\* p writes its batch to the channel.
Write(p) == pipe' = [pipe EXCEPT ![p][channel[p]] = @ \cup batch[p]]

\* A connection of p breaks: handleClose clears the timer that an earlier break
\* has set, if that has not fired yet, and sets one.
Redial(p) ==
    /\ \/ redials' = [redials EXCEPT ![p] = @ + 1]
       \/ redials[p] > 0 /\ UNCHANGED redials
    /\ shaken' = shaken \cup {p}

\* connect() clears the timer as well.
Undial(p) ==
    \/ UNCHANGED redials
    \/ redials[p] > 0 /\ redials' = [redials EXCEPT ![p] = @ - 1]

\* A connection with a new channel takes the place of the one of the field, which
\* stays open.  The number stays when nothing is left on the channel.
Replace(p, state) ==
    /\ link' = [link EXCEPT ![p] = state]
    /\ spare' = [spare EXCEPT ![p] = @ \/ link[p] = "open"]
    /\ channel' = [channel EXCEPT ![p] = IF Unsent(p) = {} THEN @ ELSE @ + 1]

\* The connect() of a reconnect returns, whatever the relay is doing; until it
\* does it may fail and try again.  While the relay waits in closeChannel the new
\* channel is forgotten as soon as that returns.
Reconnect(p) ==
    /\ redials[p] > 0
    /\ redials' = [redials EXCEPT ![p] = @ - 1]
    /\ IF link[p] = "closing"
       THEN spare' = [spare EXCEPT ![p] = TRUE] /\ UNCHANGED <<link, channel>>
       ELSE Replace(p, "open")
    /\ UNCHANGED <<table, phase, batch, shaken, pipe, cut, copies, faults>>

\* What the broker has not received on a channel goes with its connection.
Cut(p, n) ==
    /\ cut' = cut \cup pipe[p][n]
    /\ pipe' = [pipe EXCEPT ![p][n] = {}]

\* The connection of the relay's channel breaks.  Nothing answers a close() that
\* is waiting, or rejects it: dispatchMessages hangs, with its transaction.
Drop(p) ==
    /\ Fault("drop")
    /\ link[p] \in {"open", "closing"}
    /\ link' = [link EXCEPT ![p] = "dead"]
    /\ IF link[p] = "closing" THEN Goes(p, "hung") ELSE UNCHANGED phase
    /\ Cut(p, channel[p])
    /\ Redial(p)
    /\ UNCHANGED <<table, batch, channel, spare, copies>>

\* Another one breaks: of an earlier round, or of a channel that was replaced.
\* Whether it was the last of them is not counted.
DropSpare(p) ==
    /\ Fault("drop")
    /\ spare[p]
    /\ \E n \in Channels \ {channel[p]}, left \in BOOLEAN :
          /\ (\E k \in Channels \ {channel[p], n} : pipe[p][k] # {}) => left
          /\ spare' = [spare EXCEPT ![p] = left]
          /\ Cut(p, n)
    /\ Redial(p)
    /\ UNCHANGED <<table, phase, batch, link, channel, copies>>

\* The broker takes one message from a channel.
Receive(p) ==
    /\ \E n \in Channels : \E r \in pipe[p][n] :
          /\ pipe' = [pipe EXCEPT ![p][n] = @ \ {r}]
          /\ copies' = [copies EXCEPT ![r] = @ + 1]
    /\ UNCHANGED <<table, phase, batch, link, channel, spare, redials, shaken, cut, faults>>

-----------------------------------------------------------------------------
(* dispatchMessages *)

\* FOR UPDATE without SKIP LOCKED semantics: rows of other relays are taken too.
MutFree(p) == 1..stored \ done

\* Unprocessed rows that no other relay has locked.
Free(p) == 1..stored \ (done \cup UNION {batch[q] : q \in Relays \ {p}})

\* No ORDER BY: any Limit of the free rows, or all of them.
Select(p) ==
    /\ phase[p] = "idle"
    /\ Free(p) # {}
    /\ \E B \in SUBSET Free(p) :
          /\ IF Cardinality(Free(p)) <= Limit THEN B = Free(p) ELSE Cardinality(B) = Limit
          /\ batch' = [batch EXCEPT ![p] = B]
    /\ Goes(p, "selected")
    /\ UNCHANGED <<table, network, cut, copies, faults>>

\* startPublishing returns.  Until it does the process reconnects, or exits
\* (Crash), or waits for ever (ConnectHangs).
Connect(p) ==
    /\ phase[p] = "selected"
    /\ Goes(p, "connected")
    /\ Replace(p, "open")
    /\ Undial(p)
    /\ UNCHANGED <<table, batch, shaken, pipe, cut, copies, faults>>

\* The connection breaks before the exchange is declared.  publishStarted is
\* still false, so nothing is closed: the transaction rolls back and the next
\* round may start.
ConnectFails(p) ==
    /\ Fault("drop")
    /\ phase[p] = "selected"
    /\ Goes(p, "idle")
    /\ Unlock(p)
    /\ Replace(p, "dead")
    /\ Redial(p)
    /\ UNCHANGED <<table, pipe, cut, copies>>

\* It breaks while the channel is opened, and the timer that would let the
\* caller go on is cleared: module Connection.
ConnectHangs(p) ==
    /\ Fault("drop")
    /\ phase[p] = "selected"
    /\ Goes(p, "hung")
    /\ Redial(p)
    /\ UNCHANGED <<table, batch, link, channel, spare, pipe, cut, copies>>

\* Promise.all over publishSingleMessage: every message is written before any
\* result is looked at.
Publish(p) ==
    /\ phase[p] = "connected"
    /\ link[p] = "open"
    /\ Write(p)
    /\ Goes(p, "written")
    /\ UNCHANGED <<table, batch, link, channel, spare, redials, shaken, cut, copies, faults>>

\* publish() answered false for a message: it was written all the same.
PublishFull(p) ==
    /\ Fault("full")
    /\ phase[p] = "connected"
    /\ link[p] = "open"
    /\ Write(p)
    /\ Goes(p, "aborted")
    /\ Unlock(p)
    /\ UNCHANGED <<table, link, channel, spare, redials, shaken, cut, copies>>

\* The exception leaves dispatchMessages as well.
MutAbort(p) ==
    /\ Goes(p, "thrown")
    /\ Unlock(p)
    /\ UNCHANGED <<table, network, cut, copies>>

\* An exception leaves the transaction, which rolls back.
Abort(p) ==
    /\ Goes(p, "aborted")
    /\ Unlock(p)
    /\ UNCHANGED <<table, network, cut, copies>>

\* Publishing on a channel that is gone throws.
PublishFails(p) ==
    /\ phase[p] = "connected"
    /\ link[p] = "dead"
    /\ Abort(p)
    /\ UNCHANGED faults

Mark(p) ==
    /\ phase[p] = "written"
    /\ Goes(p, "marked")
    /\ UNCHANGED <<table, batch, network, cut, copies, faults>>

\* The database refuses the UPDATE.
UpdateFails(p) ==
    /\ Fault("dberror")
    /\ phase[p] = "written"
    /\ Abort(p)

\* closeChannel asks an open channel to close, at the end of a round and in the
\* finally block of one that failed.
AskClose(p) ==
    /\ phase[p] \in {"marked", "aborted"}
    /\ link[p] = "open"
    /\ link' = [link EXCEPT ![p] = "closing"]
    /\ UNCHANGED <<table, phase, batch, channel, spare, redials, shaken, pipe, cut,
                   copies, faults>>

\* Not waiting for the channel to drain before it counts as closed.
MutCloseChannel(p) ==
    /\ link[p] # "open"
    /\ link' = [link EXCEPT ![p] = "none"]
    /\ spare' = [spare EXCEPT ![p] = @ \/ link[p] = "closing"]
    /\ UNCHANGED <<channel, redials, shaken, pipe>>

\* The channel answers after it has taken everything that was written to it; the
\* error of a dead one is ignored.  The connection stays open.
CloseChannel(p) ==
    /\ link[p] # "open"
    /\ link[p] = "closing" => Unsent(p) = {}
    /\ link' = [link EXCEPT ![p] = "none"]
    /\ spare' = [spare EXCEPT ![p] = @ \/ link[p] = "closing"]
    /\ UNCHANGED <<channel, redials, shaken, pipe>>

\* finishPublishing, still inside the transaction.
Close(p) ==
    /\ phase[p] = "marked"
    /\ CloseChannel(p)
    /\ Goes(p, "closed")
    /\ UNCHANGED <<table, batch, cut, copies, faults>>

Commit(p) ==
    /\ phase[p] = "closed"
    /\ done' = done \cup batch[p]
    /\ Unlock(p)
    /\ Goes(p, "idle")
    /\ UNCHANGED <<stored, network, cut, copies, faults>>

\* The database refuses the COMMIT; publishStarted is false again.
CommitFails(p) ==
    /\ Fault("dberror")
    /\ phase[p] = "closed"
    /\ Goes(p, "idle")
    /\ Unlock(p)
    /\ UNCHANGED <<table, network, cut, copies>>

\* The loop of --continuous ends with the first failed round.
MutCloseAborted(p) ==
    /\ phase[p] = "aborted"
    /\ CloseChannel(p)
    /\ UNCHANGED <<table, phase, batch, cut, copies, faults>>

\* The finally block is through, and the next round may start.
CloseAborted(p) ==
    /\ phase[p] = "aborted"
    /\ CloseChannel(p)
    /\ Goes(p, "idle")
    /\ UNCHANGED <<table, batch, cut, copies, faults>>

\* The process dies and is started again: PostgreSQL rolls its transaction
\* back, its sockets close.
Crash(p) ==
    /\ Fault("crash")
    /\ Goes(p, "idle")
    /\ Unlock(p)
    /\ link' = [link EXCEPT ![p] = "none"]
    /\ channel' = [channel EXCEPT ![p] = 0]
    /\ spare' = [spare EXCEPT ![p] = FALSE]
    /\ redials' = [redials EXCEPT ![p] = 0]
    /\ shaken' = shaken \ {p}
    /\ cut' = cut \cup UNION {pipe[p][n] : n \in Channels}
    /\ pipe' = [pipe EXCEPT ![p] = [n \in Channels |-> {}]]
    /\ UNCHANGED <<table, copies>>

-----------------------------------------------------------------------------

Work(p) ==
    \/ Select(p) \/ Connect(p) \/ Publish(p) \/ PublishFails(p)
    \/ Mark(p) \/ AskClose(p) \/ Close(p) \/ Commit(p) \/ CloseAborted(p)

Break(p) ==
    \/ ConnectFails(p) \/ ConnectHangs(p) \/ PublishFull(p) \/ UpdateFails(p)
    \/ CommitFails(p) \/ Drop(p) \/ DropSpare(p) \/ Crash(p)

Next ==
    \/ Store
    \/ \E p \in Relays : Work(p) \/ Receive(p) \/ Reconnect(p) \/ Break(p)

Spec == Init /\ [][Next]_vars

\* A relay loops (--continuous), and the broker reads what it is sent.  What
\* hangs takes no step.  Faults are bounded, so they stop.
Fairness == \A p \in Relays : WF_vars(Work(p)) /\ WF_vars(Receive(p))

FairSpec == Spec /\ Fairness

-----------------------------------------------------------------------------
(* Properties *)

\* The types of the variables; a relay never ends up outside dispatchMessages'
\* own phases, and never holds a row that does not exist.
TypeOK ==
    /\ stored \in 0..NRows
    /\ done \subseteq 1..stored
    /\ phase \in [Relays -> Phases]
    /\ batch \in [Relays -> SUBSET (1..stored)]
    /\ link \in [Relays -> {"none", "open", "closing", "dead"}]
    /\ channel \in [Relays -> Channels]
    /\ spare \in [Relays -> BOOLEAN]
    /\ redials \in [Relays -> Nat]
    /\ shaken \subseteq Relays
    /\ pipe \in [Relays -> [Channels -> SUBSET (1..stored)]]
    /\ cut \subseteq 1..stored
    /\ copies \in [Rows -> Nat]
    /\ faults \in 0..MaxFaults

\* Relays share the work: a row reaches the broker a second time only because a
\* dispatch that had published it failed, once for each extra copy.
CopiesHaveCause == \A r \in Rows : copies[r] <= 1 + faults

\* The rows on their way, on whatever channel.
Underway == UNION {pipe[p][n] : p \in Relays, n \in Channels}

\* The outbox keeps its promise (dispatchMessages refines AtLeastOnce).  A row
\* counts as processed only after it was written and is not written again.  A
\* relay whose connections have held since it was started commits only rows that
\* the broker has; one that has lost a connection may commit rows that are still
\* on their way, on a channel that a reconnect has taken out of its hands, or that
\* went with a connection.  A failed dispatch or a refused COMMIT loses no row.
Promise == INSTANCE AtLeastOnce
    WITH Senders <- Relays, accepted <- 1..stored, underway <- Underway,
         delivered <- copies, lost <- cut, settled <- done
KeepsPromise == Promise!Spec

\* The rows that are done have reached the broker, every one of them.
NothingLost == \A r \in done : copies[r] > 0

\* Nobody will publish r unless a process is killed: a relay that hangs has it
\* locked, or all of them hang.
Stalled(r) ==
    \/ \E p \in Relays : phase[p] = "hung" /\ r \in batch[p]
    \/ \A p \in Relays : phase[p] = "hung"

\* Every stored row is eventually published and marked, after the faults end,
\* unless a relay hangs over a connection that broke at the wrong moment.
EventuallyPublished ==
    \A r \in Rows :
        r <= stored ~> \/ r \in done /\ (copies[r] > 0 \/ r \in cut)
                       \/ Stalled(r)

=============================================================================
