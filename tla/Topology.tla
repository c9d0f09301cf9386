------------------------------ MODULE Topology ------------------------------
(***************************************************************************)
(* What the consumers and relays declare at the broker, and where messages  *)
(* go through it: one topic exchange per publishing module; per consuming   *)
(* module a primary queue bound to the exchanges of the events it handles,  *)
(* a retry queue whose expired messages return to the primary queue, and an *)
(* error queue.                                                            *)
(*                                                                         *)
(* Names are those of createDynamicRabbitMqConfig.  Of the RABBITMQ_*       *)
(* variables that override them, those that name one module's queues and    *)
(* keys only rename; those that give all modules one exchange or one error  *)
(* key change the routing, and any of them may be set.  Exchanges, queues   *)
(* and persistent messages are durable: they outlive the processes and a    *)
(* broker restart.                                                         *)
(***************************************************************************)
EXTENDS Naturals, FiniteSets, Events

CONSTANTS
    Consumers,   \* modules whose handle-messages process may run
    Published,   \* event types that happen, one message each
    MaxDelayed,  \* RABBITMQ_DELAYED_RETRIES
    MaxCrashes   \* bound: consumer crashes in a behaviour

ASSUME ConsumersAssumption == Consumers \subseteq DOMAIN Handles
ASSUME PublishedAssumption == Published \subseteq EventTypes
ASSUME MaxDelayedAssumption == MaxDelayed \in Nat
ASSUME MaxCrashesAssumption == MaxCrashes \in Nat

VARIABLES
    shared,     \* overrides that are set, which all modules share
    exchanges,  \* declared exchanges
    bindings,   \* bindings of declared queues
    content,    \* content[q]: messages in queue q
    phase,      \* where each consumer is in consumerTopologyConfigurer
    bound,      \* signatures it has bound since it started
    ready,      \* consumers that have been through it at least once
    sent,       \* events published, as their relay believes
    owed,       \* <<c, e>>: e was published when c, which handles it, was ready
    handled,    \* handled[c]: events that c's handler has committed
    crashes     \* crashes so far

topology == <<shared, exchanges, bindings>>
vars == <<topology, content, phase, bound, ready, sent, owed, handled, crashes>>

-----------------------------------------------------------------------------
(* Names *)

\* RABBITMQ_TOPIC_EXCHANGE, RABBITMQ_DIRECT_EXCHANGE and
\* RABBITMQ_ERROR_QUEUE_ROUTING_KEY.
Overrides == {"topic", "direct", "error-key"}

\* primaryQueueExchange: <module>-exchange unless overridden.
Topic(m) == <<"exchange", IF "topic" \in shared THEN "all" ELSE m>>

\* retryQueueExchange and errorQueueExchange: <module>-retry-exchange unless
\* overridden.
Direct(m) == <<"retry-exchange", IF "direct" \in shared THEN "all" ELSE m>>

Primary(m) == <<"queue", m>>
Retry(m) == <<"retry-queue", m>>
Error(m) == <<"error-queue", m>>
QueuesOf(m) == {Primary(m), Retry(m), Error(m)}

\* A routing key by its first word and the rest.  <module>.* is a binding pattern
\* and, literally, the key of what leaves the retry queue.
Wildcard(m) == <<m, "*">>
RetryKey(m) == <<"retry-routing-key", m>>   \* one word: <module>-retry-routing-key
ErrorKey(m) == <<IF "error-key" \in shared THEN "all" ELSE m, "error">>

Owner(e) == CHOOSE m \in DOMAIN Publishes : e \in Publishes[m]

\* The exchange and the routing key registered for an event: <module>-exchange,
\* whatever is overridden, and <module>.<what happened>.
Destination(e) == <<"exchange", Owner(e)>>
EventKey(e) == <<Owner(e), e>>

\* Every signature bound by the wildcard of its module.
MutSignatureKey(e) == Wildcard(Owner(e))

SignatureKey(e) == EventKey(e)

Matches(pattern, key) == pattern \in {key, Wildcard(key[1])}

Binding(exchange, queue, pattern) ==
    [exchange |-> exchange, queue |-> queue, pattern |-> pattern]

Bindings ==
    UNION {{Binding(Topic(c), Primary(c), Wildcard(c)),
            Binding(Direct(c), Retry(c), RetryKey(c)),
            Binding(Direct(c), Error(c), ErrorKey(c))}
              \cup {Binding(Destination(e), Primary(c), SignatureKey(e)) : e \in Handles[c]}
           : c \in Consumers}

\* count and endpoint are the redelivery_count and retry_endpoint headers.
Message(e) == [event |-> e, count |-> 0, endpoint |-> "none"]
Messages == [event : Published, count : 0..MaxDelayed, endpoint : Consumers \cup {"none"}]

-----------------------------------------------------------------------------
(* The broker *)

\* A queue gets one copy however many of its bindings match.
Routed(exchange, key) ==
    {b.queue : b \in {x \in bindings : x.exchange = exchange /\ Matches(x.pattern, key)}}

\* content with m added to the queues that a publish reaches.
With(m, exchange, key) ==
    [q \in DOMAIN content |->
        IF q \in Routed(exchange, key) THEN content[q] \cup {m} ELSE content[q]]

\* content with m moved from queue `from` to the queues that a publish reaches.
Moved(m, from, exchange, key) == [With(m, exchange, key) EXCEPT ![from] = @ \ {m}]

\* The x-dead-letter-routing-key is left out: the message keeps its own.
MutExpiredKey(c) == RetryKey(c)

\* deadLetterRoutingKey of the retry queue.
ExpiredKey(c) == Wildcard(c)

\* Nothing ever leaves a retry queue without a TTL.
MutExpires(c, m) == FALSE

\* Its TTL, or the message's own expiration, has passed.
Expires(c, m) == m \in content[Retry(c)]

Expire(c, m) ==
    /\ Expires(c, m)
    /\ content' = Moved(m, Retry(c), Topic(c), ExpiredKey(c))
    /\ UNCHANGED <<topology, phase, bound, ready, sent, owed, handled, crashes>>

-----------------------------------------------------------------------------
(* A relay publishes *)

Init ==
    /\ shared \in SUBSET Overrides
    /\ exchanges = {}
    /\ bindings = {}
    /\ content = [q \in UNION {QueuesOf(c) : c \in Consumers} |-> {}]
    /\ phase = [c \in Consumers |-> "down"]
    /\ bound = [c \in Consumers |-> {}]
    /\ ready = {}
    /\ sent = {}
    /\ owed = {}
    /\ handled = [c \in Consumers |-> {}]
    /\ crashes = 0

\* publisherTopologyConfigurer declares the relay's own exchange.
DeclareOwn(e) ==
    /\ e \notin sent
    /\ exchanges' = exchanges \cup {Topic(Owner(e))}
    /\ UNCHANGED <<shared, bindings, phase, bound, ready, handled, crashes>>

\* publishSingleMessage.  A message that matches no binding is discarded: it is
\* not published as mandatory.
Publish(e) ==
    /\ DeclareOwn(e)
    /\ Destination(e) \in exchanges'
    /\ content' = With(Message(e), Destination(e), EventKey(e))
    /\ sent' = sent \cup {e}
    /\ owed' = owed \cup {<<c, e>> : c \in {d \in ready : e \in Handles[d]}}

\* No consumer has declared the destination yet, and the relay declares another
\* exchange: the broker closes the channel.  Nothing tells the relay, closeChannel
\* swallows the error: the event is lost and counts as published, unless the
\* round fails for another reason and is repeated.
PublishRefused(e) ==
    /\ DeclareOwn(e)
    /\ Destination(e) \notin exchanges'
    /\ sent' \in {sent, sent \cup {e}}
    /\ UNCHANGED <<content, owed>>

-----------------------------------------------------------------------------
(* A consumer declares its topology, from the start at every connect *)

Declare(c, from, to, names, added) ==
    /\ phase[c] = from
    /\ phase' = [phase EXCEPT ![c] = to]
    /\ exchanges' = exchanges \cup names
    /\ bindings' = bindings \cup added
    /\ UNCHANGED <<shared, content, sent, owed, handled, crashes>>

DeclarePrimary(c) ==
    /\ Declare(c, "down", "signatures", {Direct(c), Topic(c)},
               {Binding(Topic(c), Primary(c), Wildcard(c))})
    /\ bound' = [bound EXCEPT ![c] = {}]
    /\ UNCHANGED ready

\* The signature's exchange is taken from the configuration, not the registry.
MutBindSignature(c, e) ==
    /\ e \in Handles[c] \ bound[c]
    /\ Declare(c, "signatures", "signatures", {Topic(Owner(e))},
               {Binding(Topic(Owner(e)), Primary(c), SignatureKey(e))})
    /\ bound' = [bound EXCEPT ![c] = @ \cup {e}]
    /\ UNCHANGED ready

BindSignature(c, e) ==
    /\ e \in Handles[c] \ bound[c]
    /\ Declare(c, "signatures", "signatures", {Destination(e)},
               {Binding(Destination(e), Primary(c), SignatureKey(e))})
    /\ bound' = [bound EXCEPT ![c] = @ \cup {e}]
    /\ UNCHANGED ready

DeclareRetry(c) ==
    /\ bound[c] = Handles[c]
    /\ Declare(c, "signatures", "error", {}, {Binding(Direct(c), Retry(c), RetryKey(c))})
    /\ UNCHANGED <<bound, ready>>

\* startConsuming comes after the last declaration.
DeclareError(c) ==
    /\ Declare(c, "error", "consuming", {Direct(c)}, {Binding(Direct(c), Error(c), ErrorKey(c))})
    /\ ready' = ready \cup {c}
    /\ UNCHANGED bound

\* Unacknowledged messages return to their queue.
Crash(c) ==
    /\ crashes < MaxCrashes
    /\ phase[c] # "down"
    /\ phase' = [phase EXCEPT ![c] = "down"]
    /\ crashes' = crashes + 1
    /\ UNCHANGED <<topology, content, bound, ready, sent, owed, handled>>

-----------------------------------------------------------------------------
(* A consumer takes a message from its primary queue *)

Takes(c, m) == phase[c] = "consuming" /\ m \in content[Primary(c)]

\* There is a handler, and a retried message was retried by this module.
ForUs(c, m) == m.event \in Handles[c] /\ (m.count > 0 => m.endpoint = c)

Ignore(c, m) ==
    /\ Takes(c, m)
    /\ ~ForUs(c, m)
    /\ content' = [content EXCEPT ![Primary(c)] = @ \ {m}]
    /\ UNCHANGED <<topology, phase, bound, ready, sent, owed, handled, crashes>>

Succeed(c, m) ==
    /\ Takes(c, m)
    /\ ForUs(c, m)
    /\ content' = [content EXCEPT ![Primary(c)] = @ \ {m}]
    /\ handled' = [handled EXCEPT ![c] = @ \cup {m.event}]
    /\ UNCHANGED <<topology, phase, bound, ready, sent, owed, crashes>>

\* One delayed retry too many.
MutRedeliveredTooMuch(m) == m.count > MaxDelayed

RedeliveredTooMuch(m) == m.count >= MaxDelayed

\* All immediate attempts failed: publish to the retry queue, acknowledge (a
\* process that dies in between is InboxConsumer's concern).
FailAndRetry(c, m) ==
    /\ Takes(c, m)
    /\ ForUs(c, m)
    /\ ~RedeliveredTooMuch(m)
    /\ content' =
          [With([m EXCEPT !.count = @ + 1, !.endpoint = c], Direct(c), RetryKey(c))
             EXCEPT ![Primary(c)] = @ \ {m}]
    /\ UNCHANGED <<topology, phase, bound, ready, sent, owed, handled, crashes>>

\* The dead-lettered message is not acknowledged.
MutGivenUp(c, m) == With(m, Direct(c), ErrorKey(c))

GivenUp(c, m) == Moved(m, Primary(c), Direct(c), ErrorKey(c))

FailForGood(c, m) ==
    /\ Takes(c, m)
    /\ ForUs(c, m)
    /\ RedeliveredTooMuch(m)
    /\ content' = GivenUp(c, m)
    /\ UNCHANGED <<topology, phase, bound, ready, sent, owed, handled, crashes>>

-----------------------------------------------------------------------------

SetUp(c) ==
    \/ DeclarePrimary(c) \/ DeclareRetry(c) \/ DeclareError(c)
    \/ \E e \in Handles[c] : BindSignature(c, e)

Handle(c) ==
    \E m \in content[Primary(c)] :
        Ignore(c, m) \/ Succeed(c, m) \/ FailAndRetry(c, m) \/ FailForGood(c, m)

ExpireSome(c) == \E m \in content[Retry(c)] : Expire(c, m)

Next ==
    \/ \E e \in Published : Publish(e) \/ PublishRefused(e)
    \/ \E c \in Consumers : SetUp(c) \/ Handle(c) \/ ExpireSome(c) \/ Crash(c)

Spec == Init /\ [][Next]_vars

\* A consumer process is started (again), and works on what is in its queue;
\* the broker expires messages.
Fairness ==
    \A c \in Consumers : WF_vars(SetUp(c)) /\ WF_vars(Handle(c)) /\ WF_vars(ExpireSome(c))

FairSpec == Spec /\ Fairness

-----------------------------------------------------------------------------
(* Properties *)

\* The types of the variables; no message is retried more than MaxDelayed times.
TypeOK ==
    /\ shared \subseteq Overrides
    /\ exchanges \subseteq {Destination(e) : e \in EventTypes}
                        \cup UNION {{Topic(m), Direct(m)} : m \in DOMAIN Handles}
    /\ bindings \subseteq Bindings
    /\ content \in [UNION {QueuesOf(c) : c \in Consumers} -> SUBSET Messages]
    /\ phase \in [Consumers -> {"down", "signatures", "error", "consuming"}]
    /\ bound \in [Consumers -> SUBSET EventTypes]
    /\ ready \subseteq Consumers
    /\ sent \subseteq Published
    /\ owed \subseteq Consumers \X Published
    /\ handled \in [Consumers -> SUBSET Published]
    /\ crashes \in 0..MaxCrashes

\* What module c has of event e, wherever it is.
Copies(c, e) ==
    UNION {{<<q, m>> : m \in {x \in content[q] : x.event = e}} : q \in QueuesOf(c)}

\* "If the Shipping module's consumer is temporarily offline, the message
\* remains safely in the `shipping-queue`" (docs/08-event-flow-saga-map.md:53):
\* once a consumer has been set up, no event it handles gets lost on the way
\* through bindings, retries and the error queue, whoever is down meanwhile.
OfflineIsSafe ==
    \A c \in Consumers, e \in Published :
        <<c, e>> \in owed => e \in handled[c] \/ Copies(c, e) # {}

\* Unless both the exchange and the key of the error queues are shared, which
\* sends every dead letter to every error queue.
OwnErrorQueues == ~({"direct", "error-key"} \subseteq shared)

\* A module has one copy of an event at a time, although several bindings of
\* its queue match it and retries go through three queues; and none any more
\* once it has handled it.
OneCopy ==
    OwnErrorQueues => \A c \in Consumers, e \in sent :
        Cardinality(Copies(c, e)) <= (IF e \in handled[c] THEN 0 ELSE 1)

\* A retry comes back to the module that failed and to no other, although it
\* comes back through the exchange that the module's own events go through.
RetriesStayHome ==
    OwnErrorQueues => \A c \in Consumers : \A q \in QueuesOf(c) : \A m \in content[q] :
        m.endpoint \in {c, "none"}

\* A relay is refused by the broker, and loses its event unnoticed, at most until
\* one consumer of the event has been set up, whichever exchanges the modules are
\* told to share: consumers declare what the registry names, relays what the
\* configuration names.
RefusedAtFirstOnly ==
    \A c \in ready : \A e \in Handles[c] : Destination(e) \in exchanges

\* A consumer that was set up handles every later event it is interested in, or
\* leaves it in its error queue.
OwedIsServed ==
    \A c \in Consumers, e \in Published :
        <<c, e>> \in owed ~>
            e \in handled[c] \/ \E m \in content[Error(c)] : m.event = e

=============================================================================
