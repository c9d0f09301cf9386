--------------------------- MODULE TopologyProofs ---------------------------
(***************************************************************************)
(* Proofs about Topology, for any consumers, any published events, any      *)
(* number of retries and of crashes, and any setting of the overrides.      *)
(*                                                                         *)
(* Everything rests on where the broker can route what is published         *)
(* (RoutedRetry, RoutedError, RoutedExpired, RoutedEvent): the names keep   *)
(* the modules apart although exchanges may be shared.                      *)
(***************************************************************************)
EXTENDS Topology, FiniteSetTheorems, TLAPS

-----------------------------------------------------------------------------
(* Names *)

\* What is neither a module nor an event.
LEMMA Reserved ==
    /\ "*" \notin DOMAIN Handles
    /\ "*" \notin EventTypes
    /\ "error" \notin EventTypes
    /\ "error" \notin DOMAIN Handles
    /\ "all" \notin DOMAIN Handles
    /\ "retry-routing-key" \notin DOMAIN Handles
    /\ "none" \notin DOMAIN Handles
BY DEF Handles, EventTypes, OrderPublishes, InventoryPublishes, PaymentPublishes, ShippingPublishes

LEMMA HandlesType == \A c \in DOMAIN Handles : Handles[c] \subseteq EventTypes
<1> DEFINE H == {"order", "inventory", "payment", "shipping", "notification"}
<1>1. DOMAIN Handles = H
    BY DEF Handles
<1>2. /\ OrderHandles \subseteq EventTypes /\ InventoryHandles \subseteq EventTypes
      /\ PaymentHandles \subseteq EventTypes /\ ShippingHandles \subseteq EventTypes
      /\ NotificationHandles \subseteq EventTypes
    BY DEF OrderHandles, InventoryHandles, PaymentHandles, ShippingHandles, NotificationHandles,
           EventTypes, OrderPublishes, InventoryPublishes, PaymentPublishes, ShippingPublishes
<1>3. /\ Handles["order"] = OrderHandles /\ Handles["inventory"] = InventoryHandles
      /\ Handles["payment"] = PaymentHandles /\ Handles["shipping"] = ShippingHandles
      /\ Handles["notification"] = NotificationHandles
    BY DEF Handles
<1> QED BY <1>1, <1>2, <1>3

LEMMA OwnerType == \A e \in EventTypes : Owner(e) \in DOMAIN Handles
<1>1. DOMAIN Publishes = DOMAIN Handles
    BY DEF Publishes, Handles
<1>2. \A e \in EventTypes : \E m \in DOMAIN Publishes : e \in Publishes[m]
  <2>1. /\ "order" \in DOMAIN Publishes /\ "inventory" \in DOMAIN Publishes
        /\ "payment" \in DOMAIN Publishes /\ "shipping" \in DOMAIN Publishes
        /\ Publishes["order"] = OrderPublishes /\ Publishes["inventory"] = InventoryPublishes
        /\ Publishes["payment"] = PaymentPublishes /\ Publishes["shipping"] = ShippingPublishes
      BY DEF Publishes
  <2> QED BY <2>1 DEF EventTypes
<1> QED BY <1>1, <1>2 DEF Owner

LEMMA QueueNames ==
    \A c, d : /\ Primary(c) # Retry(d) /\ Primary(c) # Error(d) /\ Retry(c) # Error(d)
              /\ Primary(c) = Primary(d) => c = d
              /\ Retry(c) = Retry(d) => c = d
              /\ Error(c) = Error(d) => c = d
BY DEF Primary, Retry, Error

-----------------------------------------------------------------------------
(* Where the broker can route a message *)

LEMMA BindingsOf ==
    ASSUME NEW b \in Bindings
    PROVE  \E c \in Consumers :
              \/ b = Binding(Topic(c), Primary(c), Wildcard(c))
              \/ b = Binding(Direct(c), Retry(c), RetryKey(c))
              \/ b = Binding(Direct(c), Error(c), ErrorKey(c))
              \/ \E e \in Handles[c] : b = Binding(Destination(e), Primary(c), SignatureKey(e))
BY Zenon DEF Bindings

\* A retry reaches its own retry queue only.
LEMMA RoutedRetry ==
    ASSUME bindings \subseteq Bindings, NEW c \in Consumers
    PROVE  Routed(Direct(c), RetryKey(c)) \subseteq {Retry(c)}
<1> SUFFICES ASSUME NEW b \in bindings, b.exchange = Direct(c), Matches(b.pattern, RetryKey(c))
             PROVE  b.queue = Retry(c)
    BY DEF Routed
<1>1. PICK d \in Consumers :
          \/ b = Binding(Topic(d), Primary(d), Wildcard(d))
          \/ b = Binding(Direct(d), Retry(d), RetryKey(d))
          \/ b = Binding(Direct(d), Error(d), ErrorKey(d))
          \/ \E e \in Handles[d] : b = Binding(Destination(e), Primary(d), SignatureKey(e))
    BY BindingsOf
<1>2. c # "error" /\ c # "*" /\ d # "retry-routing-key" /\ d # "*"
    BY Reserved, ConsumersAssumption
<1>3. b.pattern \in {<<"retry-routing-key", c>>, <<"retry-routing-key", "*">>}
    BY DEF Matches, RetryKey, Wildcard
<1>4. CASE b = Binding(Topic(d), Primary(d), Wildcard(d))
    BY <1>4 DEF Binding, Topic, Direct
<1>5. CASE b = Binding(Direct(d), Retry(d), RetryKey(d))
  <2>1. b.queue = Retry(d) /\ b.pattern = <<"retry-routing-key", d>>
      BY <1>5 DEF Binding, RetryKey
  <2> QED BY <2>1, <1>2, <1>3
<1>6. CASE b = Binding(Direct(d), Error(d), ErrorKey(d))
  <2>1. b.pattern[2] = "error"
      BY <1>6 DEF Binding, ErrorKey
  <2> QED BY <2>1, <1>2, <1>3
<1>7. CASE \E e \in Handles[d] : b = Binding(Destination(e), Primary(d), SignatureKey(e))
    BY <1>7 DEF Binding, Destination, Direct
<1> QED BY <1>1, <1>4, <1>5, <1>6, <1>7

\* A dead letter reaches error queues only, and unless exchange and key are both
\* shared, no other than its own.
LEMMA RoutedError ==
    ASSUME bindings \subseteq Bindings, NEW c \in Consumers,
           NEW q \in Routed(Direct(c), ErrorKey(c))
    PROVE  \E d \in Consumers : q = Error(d) /\ (OwnErrorQueues => d = c)
<1>1. PICK b \in bindings :
          b.queue = q /\ b.exchange = Direct(c) /\ Matches(b.pattern, ErrorKey(c))
    BY DEF Routed
<1>2. PICK d \in Consumers :
          \/ b = Binding(Topic(d), Primary(d), Wildcard(d))
          \/ b = Binding(Direct(d), Retry(d), RetryKey(d))
          \/ b = Binding(Direct(d), Error(d), ErrorKey(d))
          \/ \E e \in Handles[d] : b = Binding(Destination(e), Primary(d), SignatureKey(e))
    BY BindingsOf
<1>3. d # "error" /\ d # "*"
    BY Reserved, ConsumersAssumption
<1>4. b.pattern[2] \in {"error", "*"}
    BY <1>1 DEF Matches, ErrorKey, Wildcard
<1>5. CASE b = Binding(Topic(d), Primary(d), Wildcard(d))
    BY <1>1, <1>5 DEF Binding, Topic, Direct
<1>6. CASE b = Binding(Direct(d), Retry(d), RetryKey(d))
  <2>1. b.pattern[2] = d
      BY <1>6 DEF Binding, RetryKey
  <2> QED BY <2>1, <1>3, <1>4
<1>7. CASE b = Binding(Direct(d), Error(d), ErrorKey(d))
  <2>1. b.queue = Error(d) /\ b.exchange = Direct(d) /\ b.pattern = ErrorKey(d)
      BY <1>7 DEF Binding
  <2>2. CASE "direct" \notin shared
    <3>1. d = c
        BY <1>1, <2>1, <2>2 DEF Direct
    <3> QED BY <1>1, <2>1, <3>1
  <2>3. CASE "error-key" \notin shared
    <3>1. b.pattern[1] = d /\ b.pattern[1] = c
        BY <1>1, <2>1, <2>3 DEF ErrorKey, Matches, Wildcard
    <3>2. d = c
        BY <3>1
    <3> QED BY <1>1, <2>1, <3>2
  <2> QED BY <1>1, <2>1, <2>2, <2>3 DEF OwnErrorQueues
<1>8. CASE \E e \in Handles[d] : b = Binding(Destination(e), Primary(d), SignatureKey(e))
    BY <1>1, <1>8 DEF Binding, Destination, Direct
<1> QED BY <1>2, <1>5, <1>6, <1>7, <1>8

\* A message leaving a retry queue reaches the primary queue of the same module
\* only, although the key is that of its own events and the exchange theirs.
LEMMA RoutedExpired ==
    ASSUME bindings \subseteq Bindings, NEW c \in Consumers
    PROVE  Routed(Topic(c), ExpiredKey(c)) \subseteq {Primary(c)}
<1> SUFFICES ASSUME NEW b \in bindings, b.exchange = Topic(c), Matches(b.pattern, ExpiredKey(c))
             PROVE  b.queue = Primary(c)
    BY DEF Routed
<1>1. PICK d \in Consumers :
          \/ b = Binding(Topic(d), Primary(d), Wildcard(d))
          \/ b = Binding(Direct(d), Retry(d), RetryKey(d))
          \/ b = Binding(Direct(d), Error(d), ErrorKey(d))
          \/ \E e \in Handles[d] : b = Binding(Destination(e), Primary(d), SignatureKey(e))
    BY BindingsOf
<1>2. b.pattern = <<c, "*">>
    BY DEF Matches, ExpiredKey, Wildcard
<1>3. CASE b = Binding(Topic(d), Primary(d), Wildcard(d))
  <2>1. b.queue = Primary(d) /\ b.pattern = <<d, "*">>
      BY <1>3 DEF Binding, Wildcard
  <2> QED BY <2>1, <1>2
<1>4. CASE b = Binding(Direct(d), Retry(d), RetryKey(d)) \/ b = Binding(Direct(d), Error(d), ErrorKey(d))
    BY <1>4 DEF Binding, Topic, Direct
<1>5. ASSUME NEW e \in Handles[d], b = Binding(Destination(e), Primary(d), SignatureKey(e))
      PROVE  FALSE
  <2>1. e \in EventTypes
      BY HandlesType, ConsumersAssumption
  <2>2. b.pattern[2] = e
      BY <1>5 DEF Binding, SignatureKey, EventKey
  <2> QED BY <2>1, <2>2, <1>2, Reserved
<1> QED BY <1>1, <1>3, <1>4, <1>5

\* A published event reaches primary queues only.
LEMMA RoutedEvent ==
    ASSUME bindings \subseteq Bindings, NEW e
    PROVE  Routed(Destination(e), EventKey(e)) \subseteq {Primary(c) : c \in Consumers}
<1> SUFFICES ASSUME NEW b \in bindings, b.exchange = Destination(e)
             PROVE  \E d \in Consumers : b.queue = Primary(d)
    BY DEF Routed
<1>1. PICK d \in Consumers :
          \/ b = Binding(Topic(d), Primary(d), Wildcard(d))
          \/ b = Binding(Direct(d), Retry(d), RetryKey(d))
          \/ b = Binding(Direct(d), Error(d), ErrorKey(d))
          \/ \E x \in Handles[d] : b = Binding(Destination(x), Primary(d), SignatureKey(x))
    BY BindingsOf
<1>2. CASE b = Binding(Direct(d), Retry(d), RetryKey(d)) \/ b = Binding(Direct(d), Error(d), ErrorKey(d))
    BY <1>2 DEF Binding, Destination, Direct
<1>3. CASE b = Binding(Topic(d), Primary(d), Wildcard(d))
           \/ \E x \in Handles[d] : b = Binding(Destination(x), Primary(d), SignatureKey(x))
    BY <1>3 DEF Binding
<1> QED BY <1>1, <1>2, <1>3

-----------------------------------------------------------------------------
(* What a step does to the queues *)

Queues == UNION {QueuesOf(c) : c \in Consumers}

\* The step takes m out of queue `from` and puts n into the queues `to`.
Relocated(from, to, m, n) ==
    content' = [q \in DOMAIN content |->
                   IF q = from THEN content[q] \ {m}
                   ELSE IF q \in to THEN content[q] \cup {n} ELSE content[q]]

LEMMA MovedRelocates ==
    ASSUME NEW m, NEW from, NEW exchange, NEW key, from \in DOMAIN content,
           content' = Moved(m, from, exchange, key)
    PROVE  Relocated(from, Routed(exchange, key), m, m)
BY DEF Moved, With, Relocated

LEMMA ExpireRelocates ==
    ASSUME TypeOK, NEW c \in Consumers, NEW m, Expire(c, m)
    PROVE  /\ Relocated(Retry(c), Routed(Topic(c), ExpiredKey(c)), m, m)
           /\ Routed(Topic(c), ExpiredKey(c)) \subseteq {Primary(c)}
           /\ m \in content[Retry(c)]
<1>1. Retry(c) \in DOMAIN content
    BY DEF TypeOK, QueuesOf
<1> QED BY <1>1, MovedRelocates, RoutedExpired DEF TypeOK, Expire, Expires

\* A callback that is done with m either drops it or passes it on.
LEMMA DropRelocates ==
    ASSUME TypeOK, NEW c \in Consumers, NEW m, Ignore(c, m) \/ Succeed(c, m)
    PROVE  Relocated(Primary(c), {}, m, m)
<1>1. Primary(c) \in DOMAIN content
    BY DEF TypeOK, QueuesOf
<1>2. content' = [content EXCEPT ![Primary(c)] = @ \ {m}]
    BY DEF Ignore, Succeed
<1>3. content \in [Queues -> SUBSET Messages]
    BY DEF TypeOK, Queues
<1> QED BY <1>1, <1>2, <1>3 DEF Relocated

Retried(c, m) == [m EXCEPT !.count = @ + 1, !.endpoint = c]

LEMMA RetryRelocates ==
    ASSUME TypeOK, NEW c \in Consumers, NEW m, FailAndRetry(c, m)
    PROVE  /\ Relocated(Primary(c), Routed(Direct(c), RetryKey(c)), m, Retried(c, m))
           /\ Routed(Direct(c), RetryKey(c)) \subseteq {Retry(c)}
<1>1. Primary(c) \in DOMAIN content
    BY DEF TypeOK, QueuesOf
<1>2. Routed(Direct(c), RetryKey(c)) \subseteq {Retry(c)}
    BY RoutedRetry DEF TypeOK
<1>3. Primary(c) \notin Routed(Direct(c), RetryKey(c))
    BY <1>2, QueueNames
<1>4. content' = [With(Retried(c, m), Direct(c), RetryKey(c)) EXCEPT ![Primary(c)] = @ \ {m}]
    BY DEF FailAndRetry, Retried
<1> QED BY <1>1, <1>2, <1>3, <1>4 DEF With, Relocated

LEMMA GiveUpRelocates ==
    ASSUME TypeOK, NEW c \in Consumers, NEW m, FailForGood(c, m)
    PROVE  Relocated(Primary(c), Routed(Direct(c), ErrorKey(c)), m, m)
<1>1. Primary(c) \in DOMAIN content
    BY DEF TypeOK, QueuesOf
<1> QED BY <1>1, MovedRelocates DEF FailForGood, GivenUp

\* What a message becomes by a retry.
LEMMA RetriedType ==
    ASSUME NEW c \in Consumers, NEW m \in Messages, ~RedeliveredTooMuch(m)
    PROVE  /\ Retried(c, m) \in Messages
           /\ Retried(c, m).event = m.event
           /\ Retried(c, m).count > 0
           /\ Retried(c, m).endpoint = c
<1> DEFINE counted == [m EXCEPT !.count = @ + 1]
<1>1. counted \in Messages
  <2>1. m.count \in 0..MaxDelayed /\ m.count + 1 \in 0..MaxDelayed
      BY MaxDelayedAssumption DEF Messages, RedeliveredTooMuch
  <2> QED BY <2>1 DEF Messages
<1>2. [counted EXCEPT !.endpoint = c] \in Messages
  <2> HIDE DEF counted
  <2> QED BY <1>1 DEF Messages
<1>3. Retried(c, m) = [counted EXCEPT !.endpoint = c]
    BY DEF Retried, Messages
<1>4. Retried(c, m).event = m.event /\ Retried(c, m).endpoint = c
    BY DEF Retried, Messages
<1>5. Retried(c, m).count = m.count + 1 /\ m.count \in Nat
    BY MaxDelayedAssumption DEF Retried, Messages
<1> QED BY <1>2, <1>3, <1>4, <1>5

-----------------------------------------------------------------------------
(* The types *)

LEMMA RelocateType ==
    ASSUME TypeOK, NEW from, NEW to, NEW m, NEW n \in Messages, Relocated(from, to, m, n)
    PROVE  content' \in [Queues -> SUBSET Messages]
<1>1. content \in [Queues -> SUBSET Messages]
    BY DEF TypeOK, Queues
<1> QED BY <1>1 DEF Relocated

LEMMA TypeInit == Init => TypeOK
<1> SUFFICES ASSUME Init PROVE TypeOK
    OBVIOUS
<1>1. content \in [Queues -> SUBSET Messages]
    BY DEF Init, Queues
<1>2. crashes \in 0..MaxCrashes
    BY MaxCrashesAssumption DEF Init
<1> QED BY <1>1, <1>2 DEF Init, TypeOK, Queues

LEMMA TypeRelay == TypeOK /\ (\E e \in Published : Publish(e) \/ PublishRefused(e)) => TypeOK'
<1> SUFFICES ASSUME TypeOK, NEW e \in Published, Publish(e) \/ PublishRefused(e) PROVE TypeOK'
    OBVIOUS
<1>1. Owner(e) \in DOMAIN Handles
    BY OwnerType, PublishedAssumption
<1>2. DeclareOwn(e)
    BY DEF Publish, PublishRefused
<1>3. exchanges' \subseteq {Destination(x) : x \in EventTypes}
                           \cup UNION {{Topic(m), Direct(m)} : m \in DOMAIN Handles}
    BY <1>1, <1>2 DEF TypeOK, DeclareOwn
<1>4. content' \in [Queues -> SUBSET Messages]
  <2>1. Message(e) \in Messages
      BY MaxDelayedAssumption DEF Message, Messages
  <2>2. content \in [Queues -> SUBSET Messages]
      BY DEF TypeOK, Queues
  <2> QED BY <2>1, <2>2 DEF Publish, PublishRefused, With
<1>5. sent' \subseteq Published /\ owed' \subseteq Consumers \X Published
    BY DEF TypeOK, Publish, PublishRefused
<1>6. /\ shared' \subseteq Overrides
      /\ UNCHANGED <<bindings, phase, bound, ready, handled, crashes, shared>>
    BY <1>2 DEF DeclareOwn, TypeOK
<1> QED BY <1>3, <1>4, <1>5, <1>6 DEF TypeOK, Queues, Topic, Direct, Bindings, Binding, ErrorKey

\* The names do not change: the overrides are read once.
LEMMA SameNames ==
    ASSUME UNCHANGED shared
    PROVE  /\ Bindings' = Bindings
           /\ OwnErrorQueues' = OwnErrorQueues
           /\ \A m : Topic(m)' = Topic(m) /\ Direct(m)' = Direct(m) /\ ErrorKey(m)' = ErrorKey(m)
BY DEF Bindings, Topic, Direct, ErrorKey, OwnErrorQueues

LEMMA TypeSetUp == ASSUME TypeOK, NEW c \in Consumers, SetUp(c) PROVE TypeOK'
<1>1. c \in DOMAIN Handles /\ Handles[c] \subseteq EventTypes
    BY ConsumersAssumption, HandlesType
<1>2. /\ UNCHANGED <<shared, content, sent, owed, handled, crashes>>
      /\ \E to \in {"signatures", "error", "consuming"} : phase' = [phase EXCEPT ![c] = to]
    BY DEF SetUp, DeclarePrimary, BindSignature, DeclareRetry, DeclareError, Declare
<1> DEFINE names == {Destination(e) : e \in EventTypes}
                        \cup UNION {{Topic(m), Direct(m)} : m \in DOMAIN Handles}
<1>3. exchanges' \subseteq names /\ bindings' \subseteq Bindings
  <2>1. CASE DeclarePrimary(c)
    <3>1. Binding(Topic(c), Primary(c), Wildcard(c)) \in Bindings
        BY DEF Bindings
    <3> QED BY <2>1, <3>1, <1>1 DEF DeclarePrimary, Declare, TypeOK
  <2>2. ASSUME NEW e \in Handles[c], BindSignature(c, e)
        PROVE  exchanges' \subseteq names /\ bindings' \subseteq Bindings
    <3>1. Binding(Destination(e), Primary(c), SignatureKey(e)) \in Bindings
        BY DEF Bindings
    <3>2. Destination(e) \in names
        BY <1>1
    <3> QED BY <2>2, <3>1, <3>2 DEF BindSignature, Declare, TypeOK
  <2>3. CASE DeclareRetry(c)
    <3>1. Binding(Direct(c), Retry(c), RetryKey(c)) \in Bindings
        BY DEF Bindings
    <3> QED BY <2>3, <3>1 DEF DeclareRetry, Declare, TypeOK
  <2>4. CASE DeclareError(c)
    <3>1. Binding(Direct(c), Error(c), ErrorKey(c)) \in Bindings
        BY DEF Bindings
    <3> QED BY <2>4, <3>1, <1>1 DEF DeclareError, Declare, TypeOK
  <2> QED BY <2>1, <2>2, <2>3, <2>4 DEF SetUp
<1>4. bound' \in [Consumers -> SUBSET EventTypes] /\ ready' \subseteq Consumers
  <2>1. bound \in [Consumers -> SUBSET EventTypes] /\ ready \subseteq Consumers
      BY DEF TypeOK
  <2>2. CASE DeclarePrimary(c)
      BY <2>1, <2>2 DEF DeclarePrimary
  <2>3. ASSUME NEW e \in Handles[c], BindSignature(c, e)
        PROVE  bound' \in [Consumers -> SUBSET EventTypes] /\ ready' \subseteq Consumers
      BY <1>1, <2>1, <2>3 DEF BindSignature
  <2>4. CASE DeclareRetry(c)
      BY <2>1, <2>4 DEF DeclareRetry
  <2>5. CASE DeclareError(c)
      BY <2>1, <2>5 DEF DeclareError
  <2> QED BY <2>2, <2>3, <2>4, <2>5 DEF SetUp
<1>5. phase' \in [Consumers -> {"down", "signatures", "error", "consuming"}]
    BY <1>2 DEF TypeOK
<1>6. names' = names
    BY <1>2, SameNames DEF Destination
<1> QED BY <1>2, <1>3, <1>4, <1>5, <1>6, SameNames DEF TypeOK

LEMMA TypeHandle ==
    ASSUME TypeOK, NEW c \in Consumers, Handle(c) \/ ExpireSome(c) \/ Crash(c)
    PROVE  TypeOK'
<1>1. UNCHANGED <<topology, bound, ready, sent, owed>>
    BY DEF Handle, Ignore, Succeed, FailAndRetry, FailForGood, ExpireSome, Expire, Crash
<1>2. content' \in [Queues -> SUBSET Messages]
  <2>1. content \in [Queues -> SUBSET Messages] /\ {Primary(c), Retry(c)} \subseteq Queues
      BY DEF TypeOK, Queues, QueuesOf
  <2>2. ASSUME NEW m \in content[Primary(c)], Ignore(c, m) \/ Succeed(c, m)
        PROVE  content' \in [Queues -> SUBSET Messages]
      BY <2>1, <2>2, DropRelocates, RelocateType
  <2>3. ASSUME NEW m \in content[Primary(c)], FailAndRetry(c, m)
        PROVE  content' \in [Queues -> SUBSET Messages]
      BY <2>1, <2>3, RetryRelocates, RetriedType, RelocateType DEF FailAndRetry
  <2>4. ASSUME NEW m \in content[Primary(c)], FailForGood(c, m)
        PROVE  content' \in [Queues -> SUBSET Messages]
      BY <2>1, <2>4, GiveUpRelocates, RelocateType
  <2>5. ASSUME NEW m \in content[Retry(c)], Expire(c, m)
        PROVE  content' \in [Queues -> SUBSET Messages]
      BY <2>1, <2>5, ExpireRelocates, RelocateType
  <2>6. CASE Crash(c)
      BY <2>1, <2>6 DEF Crash
  <2> QED BY <2>2, <2>3, <2>4, <2>5, <2>6 DEF Handle, ExpireSome
<1>3. handled' \in [Consumers -> SUBSET Published]
  <2>1. ASSUME NEW m \in content[Primary(c)] PROVE m.event \in Published
    <3>1. m \in Messages
        BY DEF TypeOK, QueuesOf
    <3> QED BY <3>1 DEF Messages
  <2>2. handled \in [Consumers -> SUBSET Published]
      BY DEF TypeOK
  <2>3. ASSUME NEW m \in content[Primary(c)], Succeed(c, m)
        PROVE  handled' \in [Consumers -> SUBSET Published]
      BY <2>1, <2>2, <2>3 DEF Succeed
  <2>4. \/ UNCHANGED handled
        \/ \E m \in content[Primary(c)] : Succeed(c, m)
      BY DEF Handle, Ignore, FailAndRetry, FailForGood, ExpireSome, Expire, Crash
  <2> QED BY <2>2, <2>3, <2>4
<1>4. phase' \in [Consumers -> {"down", "signatures", "error", "consuming"}] /\ crashes' \in 0..MaxCrashes
  <2>1. CASE Crash(c)
      BY <2>1, MaxCrashesAssumption DEF Crash, TypeOK
  <2>2. UNCHANGED <<phase, crashes>> \/ Crash(c)
      BY DEF Handle, Ignore, Succeed, FailAndRetry, FailForGood, ExpireSome, Expire
  <2> QED BY <2>1, <2>2 DEF TypeOK
<1> QED BY <1>1, <1>2, <1>3, <1>4, SameNames DEF TypeOK, Queues, topology

LEMMA TypeStep == TypeOK /\ [Next]_vars => TypeOK'
<1>1. TypeOK /\ UNCHANGED vars => TypeOK'
    BY SameNames DEF TypeOK, vars, topology
<1> QED BY <1>1, TypeRelay, TypeSetUp, TypeHandle DEF Next

\* No queue gets what it should not hold, whatever the modules share; no message
\* is retried more than MaxDelayed times.
THEOREM TypeCorrect == Spec => []TypeOK
BY TypeInit, TypeStep, PTL DEF Spec

-----------------------------------------------------------------------------
(* Retries stay with the module that failed *)

\* m has been retried by c, or not at all.
AtHome(c, m) == IF m.count = 0 THEN m.endpoint = "none" ELSE m.endpoint = c

\* The primary and the retry queue hold nothing of other modules' retries.
Home ==
    \A c \in Consumers : \A q \in {Primary(c), Retry(c)} : \A m \in content[q] : AtHome(c, m)

\* The error queue neither, unless the dead letters of all modules mix.
HomeErrors ==
    OwnErrorQueues => \A c \in Consumers : \A m \in content[Error(c)] : AtHome(c, m)

LEMMA HomeInit == Init => Home /\ HomeErrors
BY DEF Init, Home, HomeErrors, QueuesOf

\* It is enough that what is put into a queue is at home there.
LEMMA HomeRelocate ==
    ASSUME TypeOK, Home, HomeErrors, UNCHANGED shared,
           NEW from, NEW to, NEW m, NEW n, Relocated(from, to, m, n),
           \A c \in Consumers : Primary(c) \in to \/ Retry(c) \in to => AtHome(c, n),
           OwnErrorQueues => \A c \in Consumers : Error(c) \in to => AtHome(c, n)
    PROVE  Home' /\ HomeErrors'
<1>1. \A c \in Consumers : QueuesOf(c) \subseteq DOMAIN content
    BY DEF TypeOK
<1>2. \A q \in DOMAIN content : \A x \in content'[q] : x \in content[q] \/ (q \in to /\ x = n)
    BY DEF Relocated
<1>3. ASSUME NEW c \in Consumers, NEW q \in {Primary(c), Retry(c)}, NEW x \in content'[q]
      PROVE  AtHome(c, x)
  <2>1. q \in DOMAIN content
      BY <1>1 DEF QueuesOf
  <2>2. x \in content[q] \/ (q \in to /\ x = n)
      BY <1>2, <2>1
  <2> QED BY <2>2 DEF Home
<1>4. ASSUME OwnErrorQueues, NEW c \in Consumers, NEW x \in content'[Error(c)]
      PROVE  AtHome(c, x)
  <2>1. Error(c) \in DOMAIN content
      BY <1>1 DEF QueuesOf
  <2>2. x \in content[Error(c)] \/ (Error(c) \in to /\ x = n)
      BY <1>2, <2>1
  <2> QED BY <1>4, <2>2 DEF HomeErrors
<1>5. Home'
    BY <1>3 DEF Home, AtHome, Primary, Retry
<1>6. HomeErrors'
    BY <1>4, SameNames DEF HomeErrors, AtHome, Error
<1> QED BY <1>5, <1>6

LEMMA HomeStep == TypeOK /\ Home /\ HomeErrors /\ [Next]_vars => Home' /\ HomeErrors'
<1> SUFFICES ASSUME TypeOK, Home, HomeErrors, [Next]_vars PROVE Home' /\ HomeErrors'
    OBVIOUS
<1>1. ASSUME UNCHANGED <<shared, content>> PROVE Home' /\ HomeErrors'
    BY <1>1, SameNames DEF Home, HomeErrors, AtHome, Primary, Retry, Error
<1>2. CASE UNCHANGED vars
    BY <1>1, <1>2 DEF vars, topology
<1>3. ASSUME NEW e \in Published, Publish(e) PROVE Home' /\ HomeErrors'
  <2>1. \A q \in DOMAIN content : \A m \in content'[q] :
            m \in content[q] \/ (m = Message(e) /\ \E c \in Consumers : q = Primary(c))
      BY <1>3, RoutedEvent DEF Publish, With, TypeOK
  <2>2. \A c \in Consumers : QueuesOf(c) \subseteq DOMAIN content
      BY DEF TypeOK
  <2>3. \A c : AtHome(c, Message(e))
      BY DEF AtHome, Message
  <2>4. Home'
      BY <2>1, <2>2, <2>3 DEF Home, QueuesOf, AtHome, Primary, Retry
  <2>5. HomeErrors'
    <3>1. UNCHANGED shared
        BY <1>3 DEF Publish, DeclareOwn
    <3> QED BY <2>1, <2>2, <2>3, <3>1, SameNames, QueueNames DEF HomeErrors, QueuesOf, AtHome, Error
  <2> QED BY <2>4, <2>5
<1>4. ASSUME NEW e \in Published, PublishRefused(e) PROVE Home' /\ HomeErrors'
    BY <1>1, <1>4 DEF PublishRefused, DeclareOwn
<1>5. ASSUME NEW c \in Consumers, SetUp(c) \/ Crash(c) PROVE Home' /\ HomeErrors'
    BY <1>1, <1>5
    DEF SetUp, DeclarePrimary, BindSignature, DeclareRetry, DeclareError, Declare, Crash, topology
<1>6. ASSUME NEW c \in Consumers, Handle(c) PROVE Home' /\ HomeErrors'
  <2>1. PICK m \in content[Primary(c)] :
            Ignore(c, m) \/ Succeed(c, m) \/ FailAndRetry(c, m) \/ FailForGood(c, m)
      BY <1>6 DEF Handle
  <2>2. UNCHANGED shared
      BY <2>1 DEF Ignore, Succeed, FailAndRetry, FailForGood, topology
  <2>3. AtHome(c, m) /\ m \in Messages
      BY DEF Home, TypeOK, QueuesOf
  <2>4. CASE Ignore(c, m) \/ Succeed(c, m)
      BY <2>2, <2>4, DropRelocates, HomeRelocate
  <2>5. CASE FailAndRetry(c, m)
    <3>1. AtHome(c, Retried(c, m))
        BY <2>3, <2>5, RetriedType DEF FailAndRetry, AtHome
    <3> QED BY <2>2, <2>5, <3>1, RetryRelocates, HomeRelocate, QueueNames
  <2>6. CASE FailForGood(c, m)
    <3> DEFINE to == Routed(Direct(c), ErrorKey(c))
    <3>1. \A q \in to : \E d \in Consumers : q = Error(d) /\ (OwnErrorQueues => d = c)
        BY RoutedError DEF TypeOK
    <3>2. Relocated(Primary(c), to, m, m)
        BY <2>6, GiveUpRelocates
    <3> HIDE DEF to
    <3> QED BY <2>2, <2>3, <3>1, <3>2, HomeRelocate, QueueNames
  <2> QED BY <2>1, <2>4, <2>5, <2>6
<1>7. ASSUME NEW c \in Consumers, ExpireSome(c) PROVE Home' /\ HomeErrors'
  <2>1. PICK m \in content[Retry(c)] : Expire(c, m)
      BY <1>7 DEF ExpireSome
  <2>2. UNCHANGED shared
      BY <2>1 DEF Expire, topology
  <2>3. AtHome(c, m)
      BY DEF Home
  <2> QED BY <2>1, <2>2, <2>3, ExpireRelocates, HomeRelocate, QueueNames
<1> QED BY <1>2, <1>3, <1>4, <1>5, <1>6, <1>7 DEF Next

\* A retry comes back to the module that failed and to no other, whatever its
\* queue is bound to.
THEOREM RetriesReturn == Spec => []RetriesStayHome
<1>1. Spec => [](Home /\ HomeErrors)
    BY HomeInit, HomeStep, TypeCorrect, PTL DEF Spec
<1>2. Home /\ HomeErrors => RetriesStayHome
    BY DEF Home, HomeErrors, RetriesStayHome, QueuesOf, AtHome
<1> QED BY <1>1, <1>2, PTL

-----------------------------------------------------------------------------
(* What a consumer has declared *)

PrimaryBinding(c) == Binding(Topic(c), Primary(c), Wildcard(c))
RetryBinding(c) == Binding(Direct(c), Retry(c), RetryKey(c))
ErrorBinding(c) == Binding(Direct(c), Error(c), ErrorKey(c))
SignatureBinding(c, e) == Binding(Destination(e), Primary(c), SignatureKey(e))

\* The signatures that c has bound, its primary queue once it is past that, and
\* its retry queue once it is past all signatures.
DeclaredBy(c) ==
    /\ \A e \in bound[c] :
          e \in Handles[c] /\ Destination(e) \in exchanges /\ SignatureBinding(c, e) \in bindings
    /\ phase[c] # "down" => PrimaryBinding(c) \in bindings
    /\ phase[c] \in {"error", "consuming"} =>
          bound[c] = Handles[c] /\ RetryBinding(c) \in bindings

\* The whole topology of c.
CompleteFor(c) ==
    /\ \A e \in Handles[c] :
          Destination(e) \in exchanges /\ SignatureBinding(c, e) \in bindings
    /\ {PrimaryBinding(c), RetryBinding(c), ErrorBinding(c)} \subseteq bindings

\* A crash leaves what was declared at the broker.
Declared ==
    /\ \A c \in Consumers : DeclaredBy(c)
    /\ \A c \in ready : CompleteFor(c)

LEMMA DeclaredInit == Init => Declared
BY DEF Init, Declared, DeclaredBy

\* Nothing is ever undeclared.
LEMMA DeclaredGrows ==
    ASSUME UNCHANGED shared, exchanges \subseteq exchanges', bindings \subseteq bindings'
    PROVE  /\ \A c : CompleteFor(c) => CompleteFor(c)'
           /\ \A c : DeclaredBy(c) /\ phase'[c] \in {phase[c], "down"} /\ bound'[c] = bound[c]
                        => DeclaredBy(c)'
<1>1. \A c : /\ PrimaryBinding(c)' = PrimaryBinding(c) /\ RetryBinding(c)' = RetryBinding(c)
             /\ ErrorBinding(c)' = ErrorBinding(c)
             /\ \A e : SignatureBinding(c, e)' = SignatureBinding(c, e)
    BY SameNames DEF PrimaryBinding, RetryBinding, ErrorBinding, SignatureBinding, Binding, Primary,
        Retry, Error, Wildcard, RetryKey
<1>2. \A e : Destination(e)' = Destination(e)
    BY DEF Destination
<1>3. ASSUME NEW c, CompleteFor(c) PROVE CompleteFor(c)'
    BY <1>1, <1>2, <1>3 DEF CompleteFor
<1>4. ASSUME NEW c, DeclaredBy(c), phase'[c] \in {phase[c], "down"}, bound'[c] = bound[c]
      PROVE  DeclaredBy(c)'
    BY <1>1, <1>2, <1>4 DEF DeclaredBy
<1> QED BY <1>3, <1>4

LEMMA DeclaredSetUp == ASSUME TypeOK, Declared, NEW c \in Consumers, SetUp(c) PROVE Declared'
<1>1. UNCHANGED shared /\ exchanges \subseteq exchanges' /\ bindings \subseteq bindings'
    BY DEF SetUp, DeclarePrimary, BindSignature, DeclareRetry, DeclareError, Declare
<1>2. /\ PrimaryBinding(c)' = PrimaryBinding(c) /\ RetryBinding(c)' = RetryBinding(c)
      /\ ErrorBinding(c)' = ErrorBinding(c)
      /\ \A e : SignatureBinding(c, e)' = SignatureBinding(c, e) /\ Destination(e)' = Destination(e)
    BY <1>1, SameNames DEF PrimaryBinding, RetryBinding, ErrorBinding, SignatureBinding, Binding,
        Primary, Retry, Error, Wildcard, RetryKey, Destination
<1>3. ASSUME NEW d \in Consumers, d # c PROVE DeclaredBy(d)'
  <2>1. phase'[d] = phase[d] /\ bound'[d] = bound[d]
      BY <1>3 DEF SetUp, DeclarePrimary, BindSignature, DeclareRetry, DeclareError, Declare, TypeOK
  <2> QED BY <1>1, <2>1, DeclaredGrows DEF Declared
<1>4. DeclaredBy(c)' /\ (c \in ready' \ ready => CompleteFor(c)') /\ ready' \subseteq ready \cup {c}
  <2>1. DeclaredBy(c) /\ c \in DOMAIN phase /\ c \in DOMAIN bound
      BY DEF Declared, TypeOK
  <2>2. CASE DeclarePrimary(c)
    <3>1. /\ phase'[c] = "signatures" /\ bound'[c] = {} /\ ready' = ready
          /\ PrimaryBinding(c) \in bindings'
        BY <2>1, <2>2 DEF DeclarePrimary, Declare, PrimaryBinding
    <3> QED BY <1>2, <3>1 DEF DeclaredBy
  <2>3. ASSUME NEW e \in Handles[c], BindSignature(c, e)
        PROVE  DeclaredBy(c)' /\ ready' = ready
    <3>1. /\ phase'[c] = "signatures" /\ bound'[c] = bound[c] \cup {e} /\ ready' = ready
          /\ phase[c] = "signatures"
          /\ SignatureBinding(c, e) \in bindings' /\ Destination(e) \in exchanges'
        BY <2>1, <2>3 DEF BindSignature, Declare, SignatureBinding
    <3> QED BY <1>1, <1>2, <2>1, <3>1 DEF DeclaredBy
  <2>4. CASE DeclareRetry(c)
    <3>1. /\ phase[c] = "signatures" /\ phase'[c] = "error" /\ bound' = bound /\ ready' = ready
          /\ bound[c] = Handles[c] /\ RetryBinding(c) \in bindings'
        BY <2>1, <2>4 DEF DeclareRetry, Declare, RetryBinding
    <3> QED BY <1>1, <1>2, <2>1, <3>1 DEF DeclaredBy
  <2>5. CASE DeclareError(c)
    <3>1. /\ phase[c] = "error" /\ phase'[c] = "consuming" /\ bound' = bound
          /\ ready' = ready \cup {c} /\ ErrorBinding(c) \in bindings'
        BY <2>1, <2>5 DEF DeclareError, Declare, ErrorBinding
    <3>2. DeclaredBy(c)'
        BY <1>1, <1>2, <2>1, <3>1 DEF DeclaredBy
    <3>3. CompleteFor(c)'
        BY <1>2, <3>1, <3>2 DEF DeclaredBy, CompleteFor
    <3> QED BY <3>1, <3>2, <3>3
  <2> QED BY <2>2, <2>3, <2>4, <2>5 DEF SetUp
<1>5. \A d \in ready : CompleteFor(d)'
    BY <1>1, DeclaredGrows DEF Declared
<1> QED BY <1>3, <1>4, <1>5 DEF Declared

LEMMA DeclaredStep == TypeOK /\ Declared /\ [Next]_vars => Declared'
<1> SUFFICES ASSUME TypeOK, Declared, [Next]_vars PROVE Declared'
    OBVIOUS
<1>1. ASSUME UNCHANGED <<shared, bound, ready>>,
             exchanges \subseteq exchanges', bindings \subseteq bindings',
             \A c \in Consumers : phase'[c] \in {phase[c], "down"}
      PROVE  Declared'
    BY <1>1, DeclaredGrows DEF Declared
<1>2. CASE UNCHANGED vars
    BY <1>1, <1>2 DEF vars, topology
<1>3. ASSUME NEW e \in Published, Publish(e) \/ PublishRefused(e) PROVE Declared'
    BY <1>1, <1>3 DEF Publish, PublishRefused, DeclareOwn
<1>4. ASSUME NEW c \in Consumers, SetUp(c) PROVE Declared'
    BY <1>4, DeclaredSetUp
<1>5. ASSUME NEW c \in Consumers, Handle(c) \/ ExpireSome(c) PROVE Declared'
    BY <1>1, <1>5
    DEF Handle, Ignore, Succeed, FailAndRetry, FailForGood, ExpireSome, Expire, topology
<1>6. ASSUME NEW c \in Consumers, Crash(c) PROVE Declared'
    BY <1>1, <1>6 DEF Crash, topology, TypeOK
<1> QED BY <1>2, <1>3, <1>4, <1>5, <1>6 DEF Next

LEMMA DeclaredAlways == Spec => []Declared
BY DeclaredInit, DeclaredStep, TypeCorrect, PTL DEF Spec

\* Once a consumer of an event has been set up, no relay of the event is refused:
\* the exchange in the registry exists, whichever exchanges are shared.
THEOREM RefusalsEnd == Spec => []RefusedAtFirstOnly
<1>1. Declared => RefusedAtFirstOnly
    BY DEF Declared, CompleteFor, RefusedAtFirstOnly
<1> QED BY <1>1, DeclaredAlways, PTL

-----------------------------------------------------------------------------
(* Nothing owed to a consumer is lost *)

\* c has a copy of e, in whichever of its queues.
Holds(c, e) == \E q \in QueuesOf(c) : \E m \in content[q] : m.event = e

OwedIsHeld ==
    \A c \in Consumers, e \in Published :
        <<c, e>> \in owed => c \in ready /\ e \in Handles[c] /\ (e \in handled[c] \/ Holds(c, e))

LEMMA HeldIsCopied == \A c, e : Holds(c, e) => Copies(c, e) # {}
<1> SUFFICES ASSUME NEW c, NEW e, NEW q \in QueuesOf(c), \E m \in content[q] : m.event = e
             PROVE  Copies(c, e) # {}
    BY DEF Holds
<1>1. PICK m \in content[q] : m.event = e
    OBVIOUS
<1>2. <<q, m>> \in {<<q, x>> : x \in {y \in content[q] : y.event = e}}
    BY <1>1
<1>3. <<q, m>> \in Copies(c, e)
    BY <1>2, Zenon DEF Copies
<1> QED BY <1>3

\* A binding that matches gets the message.
LEMMA RoutedBinding ==
    ASSUME NEW exchange, NEW queue, NEW pattern, NEW key,
           Binding(exchange, queue, pattern) \in bindings, Matches(pattern, key)
    PROVE  queue \in Routed(exchange, key)
BY DEF Routed, Binding

\* Other modules' copies and other events' copies stay, and so does m if a queue
\* of the same module gets what it became.
LEMMA HoldsRelocate ==
    ASSUME TypeOK, NEW c \in Consumers, NEW from \in QueuesOf(c), NEW to, NEW m, NEW n,
           Relocated(from, to, m, n),
           NEW d \in Consumers, NEW e, Holds(d, e),
           \/ d # c
           \/ e # m.event
           \/ n.event = m.event /\ \E q \in to : q \in QueuesOf(c) /\ q # from
    PROVE  Holds(d, e)'
<1>1. \A x \in Consumers : QueuesOf(x) \subseteq DOMAIN content
    BY DEF TypeOK
<1>2. QueuesOf(d)' = QueuesOf(d)
    BY DEF QueuesOf, Primary, Retry, Error
<1> PICK q \in QueuesOf(d) : \E x \in content[q] : x.event = e
    BY DEF Holds
<1>3. PICK x \in content[q] : x.event = e
    OBVIOUS
<1>4. CASE q # from \/ x # m
  <2>1. x \in content'[q]
      BY <1>1, <1>4 DEF Relocated
  <2> QED BY <1>2, <1>3, <2>1 DEF Holds
<1>5. CASE q = from /\ x = m
  <2>1. d = c
      BY <1>5 DEF QueuesOf, Primary, Retry, Error
  <2>2. PICK r \in to : r \in QueuesOf(c) /\ r # from /\ n.event = e
      BY <1>3, <1>5, <2>1
  <2>3. n \in content'[r]
      BY <1>1, <2>2 DEF Relocated
  <2> QED BY <1>2, <2>1, <2>2, <2>3 DEF Holds
<1> QED BY <1>4, <1>5

LEMMA OwedInit == Init => OwedIsHeld
BY DEF Init, OwedIsHeld

LEMMA OwedPublish ==
    ASSUME TypeOK, Declared, OwedIsHeld, NEW e \in Published, Publish(e)
    PROVE  OwedIsHeld'
<1>1. UNCHANGED <<ready, handled, bindings>>
    BY DEF Publish, DeclareOwn
<1>2. \A c \in Consumers : QueuesOf(c) \subseteq DOMAIN content /\ QueuesOf(c)' = QueuesOf(c)
    BY DEF TypeOK, QueuesOf, Primary, Retry, Error
<1>3. \A q \in DOMAIN content : content[q] \subseteq content'[q]
    BY DEF Publish, With
<1>4. \A c \in Consumers : \A x : Holds(c, x) => Holds(c, x)'
    BY <1>2, <1>3 DEF Holds
<1>5. ASSUME NEW c \in Consumers, c \in ready, e \in Handles[c] PROVE Holds(c, e)'
  <2>1. Primary(c) \in Routed(Destination(e), EventKey(e))
    <3>1. Binding(Destination(e), Primary(c), SignatureKey(e)) \in bindings
        BY <1>5 DEF Declared, CompleteFor, SignatureBinding
    <3>2. Matches(SignatureKey(e), EventKey(e))
        BY DEF Matches, SignatureKey
    <3> QED BY <3>1, <3>2, RoutedBinding
  <2>2. Message(e) \in content'[Primary(c)] /\ Message(e).event = e
      BY <1>2, <2>1 DEF Publish, With, Message, QueuesOf
  <2>3. Primary(c) \in QueuesOf(c)'
      BY <1>2 DEF QueuesOf
  <2> QED BY <2>2, <2>3 DEF Holds
<1>6. \A c, x : <<c, x>> \in owed' => <<c, x>> \in owed \/ (x = e /\ c \in ready /\ e \in Handles[c])
    BY DEF Publish
<1> QED BY <1>1, <1>4, <1>5, <1>6 DEF OwedIsHeld

LEMMA OwedHandle ==
    ASSUME TypeOK, Home, Declared, OwedIsHeld, NEW c \in Consumers, Handle(c) \/ ExpireSome(c)
    PROVE  OwedIsHeld'
<1>1. UNCHANGED <<ready, owed>> /\ Primary(c) \in QueuesOf(c) /\ Retry(c) \in QueuesOf(c)
    BY DEF Handle, Ignore, Succeed, FailAndRetry, FailForGood, ExpireSome, Expire, QueuesOf
<1> SUFFICES ASSUME NEW d \in Consumers, NEW e \in Published, <<d, e>> \in owed
             PROVE  e \in handled'[d] \/ Holds(d, e)'
    BY <1>1 DEF OwedIsHeld
<1>2. d \in ready /\ e \in Handles[d] /\ (e \in handled[d] \/ Holds(d, e))
    BY DEF OwedIsHeld
<1>3. CASE e \in handled[d]
  <2>1. handled[d] \subseteq handled'[d]
      BY DEF Handle, Ignore, Succeed, FailAndRetry, FailForGood, ExpireSome, Expire, TypeOK
  <2> QED BY <1>3, <2>1
<1>4. ASSUME Holds(d, e), NEW m \in content[Primary(c)], Ignore(c, m) PROVE Holds(d, e)'
  <2>1. d # c \/ e # m.event
    <3>1. m.count \in Nat /\ (m.count > 0 => m.endpoint = c)
        BY MaxDelayedAssumption DEF Home, AtHome, TypeOK, QueuesOf, Messages
    <3> QED BY <1>2, <1>4, <3>1 DEF Ignore, ForUs
  <2> QED BY <1>1, <1>4, <2>1, DropRelocates, HoldsRelocate
<1>5. ASSUME Holds(d, e), NEW m \in content[Primary(c)], Succeed(c, m)
      PROVE  e \in handled'[d] \/ Holds(d, e)'
  <2>1. CASE d = c /\ e = m.event
      BY <1>5, <2>1 DEF Succeed, TypeOK
  <2>2. CASE d # c \/ e # m.event
      BY <1>1, <1>5, <2>2, DropRelocates, HoldsRelocate
  <2> QED BY <2>1, <2>2
\* What moves within c's queues can only be lost if the binding is missing, and
\* c's bindings are complete if anything is owed to it.
<1>6. ASSUME Holds(d, e), NEW m \in content[Primary(c)], FailAndRetry(c, m) PROVE Holds(d, e)'
  <2>1. ~RedeliveredTooMuch(m) /\ m \in Messages
      BY <1>6 DEF FailAndRetry, TypeOK, QueuesOf
  <2>2. d = c => Retry(c) \in Routed(Direct(c), RetryKey(c))
    <3>1. Matches(RetryKey(c), RetryKey(c))
        BY DEF Matches
    <3> QED BY <1>2, <3>1, RoutedBinding DEF Declared, CompleteFor, RetryBinding
  <2>3. Retry(c) \in QueuesOf(c) /\ Retry(c) # Primary(c)
      BY QueueNames DEF QueuesOf
  <2> DEFINE to == Routed(Direct(c), RetryKey(c))
  <2>4. Relocated(Primary(c), to, m, Retried(c, m)) /\ Retried(c, m).event = m.event
      BY <1>6, <2>1, RetryRelocates, RetriedType
  <2>5. d # c \/ \E q \in to : q \in QueuesOf(c) /\ q # Primary(c)
      BY <2>2, <2>3
  <2> HIDE DEF to
  <2> QED BY <1>1, <1>6, <2>4, <2>5, HoldsRelocate
<1>7. ASSUME Holds(d, e), NEW m \in content[Primary(c)], FailForGood(c, m) PROVE Holds(d, e)'
  <2> DEFINE to == Routed(Direct(c), ErrorKey(c))
  <2>1. d = c => Error(c) \in to
    <3>1. Matches(ErrorKey(c), ErrorKey(c))
        BY DEF Matches
    <3> QED BY <1>2, <3>1, RoutedBinding DEF Declared, CompleteFor, ErrorBinding
  <2>2. Error(c) \in QueuesOf(c) /\ Error(c) # Primary(c)
      BY QueueNames DEF QueuesOf
  <2>3. Relocated(Primary(c), to, m, m)
      BY <1>7, GiveUpRelocates
  <2>4. d # c \/ \E q \in to : q \in QueuesOf(c) /\ q # Primary(c)
      BY <2>1, <2>2
  <2> HIDE DEF to
  <2> QED BY <1>1, <1>7, <2>3, <2>4, HoldsRelocate
<1>8. ASSUME Holds(d, e), NEW m \in content[Retry(c)], Expire(c, m) PROVE Holds(d, e)'
  <2> DEFINE to == Routed(Topic(c), ExpiredKey(c))
  <2>1. d = c => Primary(c) \in to
    <3>1. Matches(Wildcard(c), ExpiredKey(c))
        BY DEF Matches, ExpiredKey
    <3> QED BY <1>2, <3>1, RoutedBinding DEF Declared, CompleteFor, PrimaryBinding
  <2>2. Primary(c) # Retry(c)
      BY QueueNames
  <2>3. Relocated(Retry(c), to, m, m)
      BY <1>8, ExpireRelocates
  <2>4. d # c \/ \E q \in to : q \in QueuesOf(c) /\ q # Retry(c)
      BY <1>1, <2>1, <2>2
  <2> HIDE DEF to
  <2> QED BY <1>1, <1>8, <2>3, <2>4, HoldsRelocate
<1> QED BY <1>2, <1>3, <1>4, <1>5, <1>6, <1>7, <1>8 DEF Handle, ExpireSome

LEMMA OwedStep == TypeOK /\ Home /\ Declared /\ OwedIsHeld /\ [Next]_vars => OwedIsHeld'
<1> SUFFICES ASSUME TypeOK, Home, Declared, OwedIsHeld, [Next]_vars PROVE OwedIsHeld'
    OBVIOUS
<1>1. ASSUME UNCHANGED <<content, owed, handled>>, ready \subseteq ready' PROVE OwedIsHeld'
  <2>1. \A c, e : Holds(c, e)' = Holds(c, e)
      BY <1>1 DEF Holds, QueuesOf, Primary, Retry, Error
  <2> QED BY <1>1, <2>1 DEF OwedIsHeld
<1>2. CASE UNCHANGED vars
    BY <1>1, <1>2 DEF vars
<1>3. ASSUME NEW e \in Published, Publish(e) PROVE OwedIsHeld'
    BY <1>3, OwedPublish
<1>4. ASSUME NEW e \in Published, PublishRefused(e) PROVE OwedIsHeld'
    BY <1>1, <1>4 DEF PublishRefused, DeclareOwn
<1>5. ASSUME NEW c \in Consumers, SetUp(c) \/ Crash(c) PROVE OwedIsHeld'
    BY <1>1, <1>5 DEF SetUp, DeclarePrimary, BindSignature, DeclareRetry, DeclareError, Declare, Crash
<1>6. ASSUME NEW c \in Consumers, Handle(c) \/ ExpireSome(c) PROVE OwedIsHeld'
    BY <1>6, OwedHandle
<1> QED BY <1>2, <1>3, <1>4, <1>5, <1>6 DEF Next

\* Once a consumer has been set up, an event that it handles stays in one of its
\* queues until it has handled it, whoever is down and whatever fails meanwhile,
\* for every setting of the overrides.
THEOREM NothingOwedIsLost == Spec => []OfflineIsSafe
<1>1. Spec => [](Home /\ HomeErrors)
    BY HomeInit, HomeStep, TypeCorrect, PTL DEF Spec
<1>2. Spec => []OwedIsHeld
    BY <1>1, OwedInit, OwedStep, TypeCorrect, DeclaredAlways, PTL DEF Spec
<1>3. OwedIsHeld => OfflineIsSafe
    BY HeldIsCopied DEF OwedIsHeld, OfflineIsSafe
<1> QED BY <1>2, <1>3, PTL

-----------------------------------------------------------------------------
(* One copy at a time *)

\* Of an event c has one message in one queue at most: none before the event is
\* published, none after c has handled it.
SingleFor(c) ==
    /\ \A q, r \in QueuesOf(c) : \A m \in content[q], n \in content[r] :
          m.event = n.event => q = r /\ m = n
    /\ \A q \in QueuesOf(c) : \A m \in content[q] : m.event \in sent \ handled[c]
    /\ handled[c] \subseteq sent

Single == OwnErrorQueues => \A c \in Consumers : SingleFor(c)

LEMMA SingleInit == Init => Single
BY DEF Init, Single, SingleFor, QueuesOf

LEMMA SameQueues == \A c : QueuesOf(c)' = QueuesOf(c)
BY DEF QueuesOf, Primary, Retry, Error

\* Moving a message within one module's queues, or out of them.
LEMMA SingleRelocate ==
    ASSUME TypeOK, NEW c \in Consumers, \A d \in Consumers : SingleFor(d),
           NEW from \in QueuesOf(c), NEW t \in QueuesOf(c), NEW to, to \subseteq {t},
           NEW m \in content[from], NEW n, n.event = m.event,
           Relocated(from, to, m, n), UNCHANGED sent,
           \/ UNCHANGED handled
           \/ to = {} /\ handled' = [handled EXCEPT ![c] = @ \cup {m.event}]
    PROVE  \A d \in Consumers : SingleFor(d)'
<1>1. \A d \in Consumers : QueuesOf(d) \subseteq DOMAIN content
    BY DEF TypeOK
<1>2. ASSUME NEW d \in Consumers, d # c PROVE SingleFor(d)'
  <2>1. \A q \in QueuesOf(d) : q # from /\ q # t
      BY <1>2 DEF QueuesOf, Primary, Retry, Error
  <2>2. \A q \in QueuesOf(d) : content'[q] = content[q]
      BY <1>1, <2>1 DEF Relocated
  <2>3. handled'[d] = handled[d]
      BY <1>2 DEF TypeOK
  <2>4. SingleFor(d)
      OBVIOUS
  <2> QED BY <2>2, <2>3, <2>4, SameQueues DEF SingleFor
<1>3. SingleFor(c)'
  <2>1. \A q \in QueuesOf(c) : \A x \in content'[q] :
            \/ x \in content[q] /\ ~(q = from /\ x = m)
            \/ q = t /\ x = n /\ q \in to
      BY <1>1 DEF Relocated
  <2>2. \A q \in QueuesOf(c) : \A x \in content[q] : ~(q = from /\ x = m) => x.event # m.event
      BY DEF SingleFor
  <2>3. \A q, r \in QueuesOf(c) : \A x \in content'[q], y \in content'[r] :
            x.event = y.event => q = r /\ x = y
    <3> SUFFICES ASSUME NEW q \in QueuesOf(c), NEW r \in QueuesOf(c), NEW x \in content'[q],
                        NEW y \in content'[r], x.event = y.event
                 PROVE  q = r /\ x = y
        OBVIOUS
    <3>1. CASE x \in content[q] /\ y \in content[r]
        BY <3>1 DEF SingleFor
    <3>2. CASE x \notin content[q] \/ y \notin content[r]
        BY <2>1, <2>2, <3>2
    <3> QED BY <3>1, <3>2
  <2>4. \A q \in QueuesOf(c) : \A x \in content'[q] : x.event \in sent \ handled'[c]
    <3> SUFFICES ASSUME NEW q \in QueuesOf(c), NEW x \in content'[q]
                 PROVE  x.event \in sent \ handled'[c]
        OBVIOUS
    <3>1. m.event \in sent \ handled[c]
        BY DEF SingleFor
    <3>2. CASE UNCHANGED handled
        BY <2>1, <3>1, <3>2 DEF SingleFor
    <3>3. CASE to = {} /\ handled' = [handled EXCEPT ![c] = @ \cup {m.event}]
      <4>1. x \in content[q] /\ x.event # m.event
          BY <2>1, <2>2, <3>3
      <4>2. handled'[c] = handled[c] \cup {m.event}
          BY <3>3 DEF TypeOK
      <4> QED BY <4>1, <4>2 DEF SingleFor
    <3> QED BY <3>2, <3>3
  <2>5. handled'[c] \subseteq sent
    <3>1. m.event \in sent /\ handled[c] \subseteq sent
        BY DEF SingleFor
    <3> QED BY <3>1 DEF TypeOK
  <2> QED BY <2>3, <2>4, <2>5, SameQueues DEF SingleFor
<1> QED BY <1>2, <1>3

LEMMA SinglePublish ==
    ASSUME TypeOK, NEW e \in Published, Publish(e), NEW c \in Consumers, SingleFor(c)
    PROVE  SingleFor(c)'
<1>1. QueuesOf(c) \subseteq DOMAIN content
    BY DEF TypeOK
<1>2. \A q \in QueuesOf(c) : \A x \in content'[q] :
          x \in content[q] \/ (q = Primary(c) /\ x = Message(e))
    BY <1>1, RoutedEvent DEF TypeOK, Publish, With, QueuesOf, Primary, Retry, Error
<1>3. e \notin sent /\ Message(e).event = e /\ sent' = sent \cup {e} /\ handled' = handled
    BY DEF Publish, DeclareOwn, Message
<1>4. \A q \in QueuesOf(c) : \A x \in content[q] : x.event # e
    BY <1>3 DEF SingleFor
<1>5. \A q, r \in QueuesOf(c) : \A x \in content'[q], y \in content'[r] :
          x.event = y.event => q = r /\ x = y
  <2> SUFFICES ASSUME NEW q \in QueuesOf(c), NEW r \in QueuesOf(c), NEW x \in content'[q],
                      NEW y \in content'[r], x.event = y.event
               PROVE  q = r /\ x = y
      OBVIOUS
  <2>1. CASE x \in content[q] /\ y \in content[r]
      BY <2>1 DEF SingleFor
  <2>2. CASE x \notin content[q] \/ y \notin content[r]
      BY <1>2, <1>3, <1>4, <2>2
  <2> QED BY <2>1, <2>2
<1>6. \A q \in QueuesOf(c) : \A x \in content'[q] : x.event \in sent' \ handled'[c]
    BY <1>2, <1>3 DEF SingleFor
<1>7. handled'[c] \subseteq sent'
    BY <1>3 DEF SingleFor
<1> QED BY <1>5, <1>6, <1>7, SameQueues DEF SingleFor

LEMMA SingleHandle ==
    ASSUME TypeOK, OwnErrorQueues, \A d \in Consumers : SingleFor(d),
           NEW c \in Consumers, Handle(c) \/ ExpireSome(c)
    PROVE  \A d \in Consumers : SingleFor(d)'
<1>1. Primary(c) \in QueuesOf(c) /\ Retry(c) \in QueuesOf(c) /\ Error(c) \in QueuesOf(c)
    BY DEF QueuesOf
<1>2. UNCHANGED sent
    BY DEF Handle, Ignore, Succeed, FailAndRetry, FailForGood, ExpireSome, Expire
<1>3. ASSUME NEW m \in content[Primary(c)], Ignore(c, m) PROVE \A d \in Consumers : SingleFor(d)'
  <2>1. UNCHANGED handled
      BY <1>3 DEF Ignore
  <2>2. Relocated(Primary(c), {}, m, m)
      BY <1>3, DropRelocates
  <2> QED BY <1>1, <1>2, <2>1, <2>2, SingleRelocate
<1>4. ASSUME NEW m \in content[Primary(c)], Succeed(c, m) PROVE \A d \in Consumers : SingleFor(d)'
  <2>1. handled' = [handled EXCEPT ![c] = @ \cup {m.event}]
      BY <1>4 DEF Succeed
  <2>2. Relocated(Primary(c), {}, m, m)
      BY <1>4, DropRelocates
  <2> QED BY <1>1, <1>2, <2>1, <2>2, SingleRelocate
<1>5. ASSUME NEW m \in content[Primary(c)], FailAndRetry(c, m)
      PROVE  \A d \in Consumers : SingleFor(d)'
  <2>1. m \in Messages /\ ~RedeliveredTooMuch(m) /\ UNCHANGED handled
      BY <1>1, <1>5 DEF FailAndRetry, TypeOK
  <2> DEFINE to == Routed(Direct(c), RetryKey(c))
             n == Retried(c, m)
  <2>2. to \subseteq {Retry(c)} /\ Relocated(Primary(c), to, m, n) /\ n.event = m.event
      BY <1>5, <2>1, RetryRelocates, RetriedType
  <2> HIDE DEF to, n
  <2> QED BY <1>1, <1>2, <2>1, <2>2, SingleRelocate
<1>6. ASSUME NEW m \in content[Primary(c)], FailForGood(c, m)
      PROVE  \A d \in Consumers : SingleFor(d)'
  <2>1. UNCHANGED handled
      BY <1>6 DEF FailForGood
  <2> DEFINE to == Routed(Direct(c), ErrorKey(c))
  <2>2. to \subseteq {Error(c)} /\ Relocated(Primary(c), to, m, m)
      BY <1>6, GiveUpRelocates, RoutedError DEF TypeOK
  <2> HIDE DEF to
  <2> QED BY <1>1, <1>2, <2>1, <2>2, SingleRelocate
<1>7. ASSUME NEW m \in content[Retry(c)], Expire(c, m) PROVE \A d \in Consumers : SingleFor(d)'
  <2>1. UNCHANGED handled
      BY <1>7 DEF Expire
  <2> DEFINE to == Routed(Topic(c), ExpiredKey(c))
  <2>2. to \subseteq {Primary(c)} /\ Relocated(Retry(c), to, m, m)
      BY <1>7, ExpireRelocates
  <2> HIDE DEF to
  <2> QED BY <1>1, <1>2, <2>1, <2>2, SingleRelocate
<1> QED BY <1>3, <1>4, <1>5, <1>6, <1>7 DEF Handle, ExpireSome

LEMMA SingleStep == TypeOK /\ Single /\ [Next]_vars => Single'
<1>1. [Next]_vars => UNCHANGED shared
    BY DEF Next, vars, topology, Publish, PublishRefused, DeclareOwn, SetUp, DeclarePrimary,
        BindSignature, DeclareRetry, DeclareError, Declare, Handle, Ignore, Succeed, FailAndRetry,
        FailForGood, ExpireSome, Expire, Crash
<1> SUFFICES ASSUME TypeOK, OwnErrorQueues, \A c \in Consumers : SingleFor(c), [Next]_vars
             PROVE  \A c \in Consumers : SingleFor(c)'
    BY <1>1, SameNames DEF Single
<1>2. ASSUME UNCHANGED <<content, handled>>, sent \subseteq sent'
      PROVE  \A c \in Consumers : SingleFor(c)'
  <2>1. ASSUME NEW c \in Consumers PROVE SingleFor(c)'
    <3>1. \A q \in QueuesOf(c) : \A m \in content[q] : m.event \in sent' \ handled[c]
        BY <1>2 DEF SingleFor
    <3> QED BY <1>2, <3>1, SameQueues DEF SingleFor
  <2> QED BY <2>1
<1>3. CASE UNCHANGED vars
    BY <1>2, <1>3 DEF vars
<1>4. ASSUME NEW e \in Published, Publish(e) PROVE \A c \in Consumers : SingleFor(c)'
    BY <1>4, SinglePublish
<1>5. ASSUME NEW e \in Published, PublishRefused(e) PROVE \A c \in Consumers : SingleFor(c)'
    BY <1>2, <1>5 DEF PublishRefused, DeclareOwn
<1>6. ASSUME NEW c \in Consumers, SetUp(c) \/ Crash(c) PROVE \A d \in Consumers : SingleFor(d)'
    BY <1>2, <1>6 DEF SetUp, DeclarePrimary, BindSignature, DeclareRetry, DeclareError, Declare, Crash
<1>7. ASSUME NEW c \in Consumers, Handle(c) \/ ExpireSome(c)
      PROVE  \A d \in Consumers : SingleFor(d)'
    BY <1>7, SingleHandle
<1> QED BY <1>3, <1>4, <1>5, <1>6, <1>7 DEF Next

LEMMA SingleCounts ==
    ASSUME Single, OwnErrorQueues, NEW c \in Consumers, NEW e
    PROVE  Cardinality(Copies(c, e)) <= IF e \in handled[c] THEN 0 ELSE 1
<1>1. \A p \in Copies(c, e) :
          \E q \in QueuesOf(c) : \E m \in content[q] : p = <<q, m>> /\ m.event = e
  <2> SUFFICES ASSUME NEW p \in Copies(c, e)
               PROVE  \E q \in QueuesOf(c) : \E m \in content[q] : p = <<q, m>> /\ m.event = e
      OBVIOUS
  <2>1. PICK q \in QueuesOf(c) : p \in {<<q, m>> : m \in {x \in content[q] : x.event = e}}
      BY Zenon DEF Copies
  <2> QED BY <2>1
<1>2. SingleFor(c)
    BY DEF Single
<1>3. CASE Copies(c, e) = {}
    BY <1>3, FS_EmptySet
<1>4. ASSUME NEW p \in Copies(c, e) PROVE e \notin handled[c] /\ Copies(c, e) = {p}
  <2>1. e \notin handled[c]
      BY <1>1, <1>2 DEF SingleFor
  <2>2. \A p2 \in Copies(c, e) : p2 = p
      BY <1>1, <1>2 DEF SingleFor
  <2> QED BY <2>1, <2>2
<1>5. \A p : Cardinality({p}) = 1
    BY FS_Singleton
<1> QED BY <1>3, <1>4, <1>5

\* Although several bindings of a module's queue match an event and retries go
\* through three queues, the module has one copy of it at most, and none once it
\* has handled it.
THEOREM CopiesAreSingle == Spec => []OneCopy
<1>1. Spec => []Single
    BY SingleInit, SingleStep, TypeCorrect, PTL DEF Spec
<1>2. Single => OneCopy
    BY SingleCounts DEF OneCopy
<1> QED BY <1>1, <1>2, PTL

=============================================================================
