----------------------------- MODULE Connection -----------------------------
(***************************************************************************)
(* RabbitmqConnectionService of one process: connecting, noticing that a    *)
(* connection broke, and reconnecting from a timer.                        *)
(*                                                                         *)
(* connect() is called by the process (once by a consumer, in every round   *)
(* by a relay) and by the timer.  It overwrites the fields connection and   *)
(* channel without closing what they held.  When it fails it waits for a    *)
(* timer, and with it waits its caller; a timer that is cleared resolves    *)
(* nothing.  Steps between two awaits are one action.                       *)
(*                                                                         *)
(* An application that is closed calls onModuleDestroy (the processes of    *)
(* the deployment are killed instead).                                     *)
(***************************************************************************)
EXTENDS Naturals, Sequences, FiniteSets

CONSTANTS
    MaxTries,   \* maxReconnectTries
    MaxCalls,   \* bound: calls of connect() by the process
    MaxFails,   \* bound: failed attempts to dial
    MaxDrops    \* bound: connections that break

ASSUME MaxTriesAssumption == MaxTries \in Nat
ASSUME BoundsAssumption == MaxCalls \in Nat /\ MaxFails \in Nat /\ MaxDrops \in Nat

VARIABLES
    conn,      \* conn[i]: state of the i-th connection object in use
    field,     \* the connection the field of that name holds: 0 for none or a dead one
    channel,   \* whose channel the field holds: 0 for null or a dead one
    waiting,   \* connections whose connect() the process waits for
    timers,    \* pending timers, oldest first: does the process wait for it?
    armed,     \* the field timeout holds the last of them
    tries,     \* reconnectTries
    user,      \* the process: "idle", "calling" connect() or "connected"
    exited,    \* process.exit(1)
    down,      \* onModuleDestroy: "no", "closing" or "closed"
    quiet,     \* it began when nothing was under way
    calls,     \* calls of connect() by the process
    fails,     \* failed attempts so far
    drops,     \* broken connections so far
    failures   \* of both, since a connection was last complete

shutdown == <<down, quiet>>
vars == <<conn, field, channel, waiting, timers, armed, tries, user, exited,
          shutdown, calls, fails, drops, failures>>

\* One more than can be live if reconnecting never multiplies connections.
Slots == 1..(MaxCalls + 1)

\* A live connection is "dialing" (createConnection), "opening" (createChannel),
\* "open" (with the channel of this connect) or "bare" (its channel was closed).
Live == {i \in Slots : conn[i] # "none"}

Init ==
    /\ conn = [i \in Slots |-> "none"]
    /\ field = 0
    /\ channel = 0
    /\ waiting = {}
    /\ timers = <<>>
    /\ armed = FALSE
    /\ tries = 0
    /\ user = "idle"
    /\ exited = FALSE
    /\ down = "no"
    /\ quiet = FALSE
    /\ calls = 0
    /\ fails = 0
    /\ drops = 0
    /\ failures = 0

-----------------------------------------------------------------------------
(* Timers *)

\* A failed connect() leaves the timers that are pending alone.
MutCleared == timers

\* clearTimeout(this.timeout).
Cleared == IF armed THEN SubSeq(timers, 1, Len(timers) - 1) ELSE timers

\* reconnect() that sets a timer for the first attempt only.
MutReconnect(pending, waits) ==
    /\ timers' = IF tries = 0 THEN Append(pending, waits) ELSE pending
    /\ armed' = (tries = 0)

\* reconnect(): a new timer, not cleared first.
Reconnect(pending, waits) == timers' = Append(pending, waits) /\ armed' = TRUE

\* connect(), up to the await of createConnection.
Dial(waits) ==
    \E i \in Slots \ Live :
        /\ \A j \in Slots \ Live : i <= j
        /\ conn' = [conn EXCEPT ![i] = "dialing"]
        /\ waiting' = IF waits THEN waiting \cup {i} ELSE waiting

-----------------------------------------------------------------------------
(* connect() *)

\* consumeMessage or startPublishing.
Call ==
    /\ user = "idle"
    /\ down = "no"
    /\ calls < MaxCalls
    /\ user' = "calling"
    /\ calls' = calls + 1
    /\ timers' = Cleared
    /\ armed' = FALSE
    /\ Dial(TRUE)
    /\ UNCHANGED <<field, channel, tries, exited, shutdown, fails, drops, failures>>

\* createConnection answers, or the broker is not reachable.
Dialed(i) ==
    /\ conn[i] = "dialing"
    /\ conn' = [conn EXCEPT ![i] = "opening"]
    /\ field' = i
    /\ UNCHANGED <<channel, waiting, timers, armed, tries, user, exited, shutdown,
                   calls, fails, drops, failures>>

DialFails(i) ==
    /\ fails < MaxFails
    /\ conn[i] = "dialing"
    /\ conn' = [conn EXCEPT ![i] = "none"]
    /\ waiting' = waiting \ {i}
    /\ Reconnect(timers, i \in waiting)
    /\ fails' = fails + 1
    /\ failures' = failures + 1
    /\ UNCHANGED <<field, channel, tries, user, exited, shutdown, calls, drops>>

\* createChannel answers: 'connected' is emitted, connect() returns.
Opened(i) ==
    /\ conn[i] = "opening"
    /\ conn' = [conn EXCEPT ![i] = "open"]
    /\ channel' = i
    /\ waiting' = waiting \ {i}
    /\ user' = IF i \in waiting THEN "connected" ELSE user
    /\ tries' = 0
    /\ failures' = 0
    /\ UNCHANGED <<field, timers, armed, exited, shutdown, calls, fails, drops>>

\* isShuttingDown is not asked.
MutIgnored == FALSE

\* handleError and handleClose return at once.
Ignored == down # "no"

\* Connection i is gone: handleError and handleClose clear the timer and set one.
\* If its createChannel was under way that fails next, and sets another.
Lose(i) ==
    LET handled == IF Ignored THEN timers
                   ELSE IF conn[i] = "opening" THEN Append(Cleared, FALSE) ELSE Cleared
    IN  /\ conn' = [conn EXCEPT ![i] = "none"]
        /\ field' = IF field = i THEN 0 ELSE field
        /\ channel' = IF channel = i THEN 0 ELSE channel
        /\ waiting' = waiting \ {i}
        /\ IF Ignored /\ conn[i] # "opening" THEN UNCHANGED <<timers, armed>>
           ELSE Reconnect(handled, i \in waiting)
        /\ UNCHANGED <<tries, user, exited, calls, fails>>

Drop(i) ==
    /\ drops < MaxDrops
    /\ conn[i] \in {"opening", "open", "bare"}
    /\ Lose(i)
    /\ drops' = drops + 1
    /\ failures' = failures + 1
    /\ UNCHANGED shutdown

\* The test of hasExceededMaxReconnects is one too strict.
MutExceeded(n) == n >= MaxTries

\* And one too lax.
MutExceededLate(n) == n > MaxTries + 1

Exceeded(n) == n > MaxTries

\* The oldest timer fires: exit, or connect() again, which clears the timeout.
Fire ==
    /\ timers # <<>>
    /\ tries' = tries + 1
    /\ IF Exceeded(tries + 1)
       THEN /\ exited' = TRUE
            /\ UNCHANGED <<conn, waiting, timers, armed>>
       ELSE /\ timers' = Tail(IF Len(timers) > 1 THEN Cleared ELSE timers)
            /\ armed' = FALSE
            /\ Dial(Head(timers))
            /\ UNCHANGED exited
    /\ UNCHANGED <<field, channel, user, shutdown, calls, fails, drops, failures>>

CloseChannel ==
    /\ conn' = IF channel = 0 THEN conn ELSE [conn EXCEPT ![channel] = "bare"]
    /\ channel' = 0

\* finishPublishing: closes the channel, never the connection.
Finish ==
    /\ user = "connected"
    /\ user' = "idle"
    /\ CloseChannel
    /\ UNCHANGED <<field, waiting, timers, armed, tries, exited, shutdown, calls, fails,
                   drops, failures>>

-----------------------------------------------------------------------------
(* onModuleDestroy *)

\* Up to the await of closeChannel.
Destroy ==
    /\ down = "no"
    /\ down' = "closing"
    /\ quiet' = (/\ calls <= 1
                 /\ Cleared = <<>>
                 /\ \A i \in Live : conn[i] \in {"open", "bare"})
    /\ timers' = Cleared
    /\ armed' = FALSE
    /\ CloseChannel
    /\ UNCHANGED <<field, waiting, tries, user, exited, calls, fails, drops, failures>>

\* The connection of the field is closed, and that is an event too.
CloseConnection ==
    /\ down = "closing"
    /\ down' = "closed"
    /\ IF field = 0
       THEN UNCHANGED <<conn, field, channel, waiting, timers, armed, tries, user, exited,
                        calls, fails>>
       ELSE Lose(field)
    /\ UNCHANGED <<quiet, drops, failures>>

Connect == \E i \in Slots : Dialed(i) \/ DialFails(i) \/ Opened(i)

Next ==
    /\ ~exited
    /\ \/ Call \/ Connect \/ Fire \/ Finish \/ Destroy \/ CloseConnection
       \/ \E i \in Slots : Drop(i)

Spec == Init /\ [][Next]_vars

\* A dialled connection is answered or refused, and timers fire.
Fairness == WF_vars(~exited /\ Connect) /\ WF_vars(~exited /\ Fire)

FairSpec == Spec /\ Fairness

-----------------------------------------------------------------------------
(* Properties *)

\* The types of the variables.  tries never passes the limit by more than the
\* one attempt that ends the process, and the channel field never names a
\* connection that is gone.
TypeOK ==
    /\ conn \in [Slots -> {"none", "dialing", "opening", "open", "bare"}]
    /\ field \in {0} \cup Live
    /\ channel \in {0} \cup Live
    /\ waiting \subseteq Live
    /\ timers \in Seq(BOOLEAN)
    /\ armed \in BOOLEAN
    /\ armed => timers # <<>>
    /\ tries \in 0..(MaxTries + 1)
    /\ user \in {"idle", "calling", "connected"}
    /\ exited \in BOOLEAN
    /\ down \in {"no", "closing", "closed"}
    /\ quiet \in BOOLEAN
    /\ calls \in 0..MaxCalls
    /\ fails \in 0..MaxFails
    /\ drops \in 0..MaxDrops
    /\ failures \in 0..(MaxFails + MaxDrops)

\* However timers and broken connections overlap, reconnecting never multiplies
\* connections: a consumer has one, a relay one per round that it has begun.
NoMoreThanCalls == Cardinality(Live) <= calls

\* A consumer, which has one connection, gives up only after one failure in a
\* row more than maxReconnectTries.  (A relay whose earlier rounds left
\* connections behind may exit sooner: their failures count as well.)
GivesUpLate == exited /\ calls = 1 /\ down = "no" => failures > MaxTries

\* A service that is destroyed while nothing is under way stays without a
\* connection and without a timer, whether its connection is closed by it or
\* breaks first.  (Destroyed during connect() it may connect afterwards.)
StaysDown == quiet /\ down = "closed" => Live = {} /\ timers = <<>>

\* A process that has lost its connection gets another, or exits, or is closed.
Recovers == (calls > 0) ~> (exited \/ down # "no" \/ \E i \in Slots : conn[i] \in {"open", "bare"})

\* "When `--continuous` is passed, the relay loops indefinitely"
\* (docs/rabbitmq-setup.md:938): connect() returns to a process that waits for
\* it, unless the process exits or is closed.
CallsReturn == (user = "calling") ~> (user # "calling" \/ exited \/ down # "no")

=============================================================================
