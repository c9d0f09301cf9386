-------------------------- MODULE ConnectionProofs --------------------------
(***************************************************************************)
(* Theorems about the connection service for every number of attempts,      *)
(* calls, failures and broken connections.                                 *)
(*                                                                         *)
(* The properties that a run checks count what there is now.  What keeps     *)
(* them is what can still come: every pending timer will dial when it fires, *)
(* but for one, the newest, which the next connect() clears.               *)
(***************************************************************************)
EXTENDS Connection, FiniteSetTheorems, SequenceTheorems, TLAPS

\* How many connections the pending timers can still dial: connect() clears the
\* timer of the field timeout, unless that is the one that fires.
Pending == IF armed /\ Len(timers) > 1 THEN Len(timers) - 1 ELSE Len(timers)

\* The two fields name connections of the states in which they are set.
FieldsHold ==
    /\ field # 0 => conn[field] \notin {"none", "dialing"}
    /\ channel # 0 => conn[channel] = "open"

\* What the bounds of tries and failures rest on.
Counted ==
    /\ ~exited => tries <= MaxTries
    /\ failures <= fails + drops

Typed == TypeOK /\ FieldsHold /\ Counted

\* Connections that are and connections that timers may still dial.
Budget == Cardinality(Live) + Pending <= calls

\* With one connection every attempt, made or pending, is paid by a failure.
Paid == calls <= 1 /\ down = "no" /\ ~exited => tries + Pending <= failures

\* With one connection the field names it, from createConnection on.
FieldNames == calls <= 1 => \A i \in Live : conn[i] # "dialing" => field = i

\* What onModuleDestroy found under way: nothing, and nothing begins after it.
Settled ==
    quiet => /\ down # "no"
             /\ calls <= 1
             /\ timers = <<>>
             /\ \A i \in Live : conn[i] \in {"open", "bare"}
             /\ down = "closed" => Live = {}

-----------------------------------------------------------------------------
(* Timers *)

LEMMA FrontFact ==
    ASSUME NEW S, NEW s \in Seq(S), s # <<>>
    PROVE  SubSeq(s, 1, Len(s) - 1) \in Seq(S) /\ Len(SubSeq(s, 1, Len(s) - 1)) = Len(s) - 1
<1>1. Len(s) \in Nat /\ Len(s) > 0
    OBVIOUS
<1> DEFINE n == Len(s) - 1
<1>2. n \in Nat /\ n \in Int /\ 1 \in Int
    BY <1>1
<1>3. \A i \in 1..n : s[i] \in S
    BY <1>1
<1> HIDE DEF n
<1>4. SubSeq(s, 1, n) \in Seq(S) /\ Len(SubSeq(s, 1, n)) = (IF 1 <= n THEN n - 1 + 1 ELSE 0)
    BY <1>2, <1>3, SubSeqProperties
<1>5. (IF 1 <= n THEN n - 1 + 1 ELSE 0) = n
    BY <1>2
<1> QED BY <1>4, <1>5 DEF n

LEMMA ClearedFact ==
    ASSUME TypeOK
    PROVE  /\ Cleared \in Seq(BOOLEAN)
           /\ Len(Cleared) \in Nat
           /\ armed => Len(Cleared) = Len(timers) - 1
           /\ ~armed => Cleared = timers
<1>1. timers \in Seq(BOOLEAN) /\ Len(timers) \in Nat /\ (armed => timers # <<>>)
    BY DEF TypeOK
<1>2. CASE armed
  <2>1. Cleared \in Seq(BOOLEAN) /\ Len(Cleared) = Len(timers) - 1
      BY <1>1, <1>2, FrontFact DEF Cleared
  <2> QED BY <1>2, <2>1
<1> QED BY <1>1, <1>2 DEF Cleared

LEMMA ReconnectFact ==
    ASSUME NEW s \in Seq(BOOLEAN), NEW w \in BOOLEAN, Reconnect(s, w)
    PROVE  /\ timers' \in Seq(BOOLEAN)
           /\ timers' # <<>>
           /\ Len(timers') = Len(s) + 1
           /\ armed'
BY AppendProperties DEF Reconnect

LEMMA TailFact ==
    ASSUME NEW s \in Seq(BOOLEAN), s # <<>>
    PROVE  Tail(s) \in Seq(BOOLEAN) /\ Len(Tail(s)) = Len(s) - 1 /\ Head(s) \in BOOLEAN
BY HeadTailProperties

LEMMA PendingUnarmed == ASSUME ~armed' PROVE Pending' = Len(timers')
BY DEF Pending

LEMMA PendingArmed ==
    ASSUME armed'
    PROVE  Pending' = IF Len(timers') > 1 THEN Len(timers') - 1 ELSE Len(timers')
BY DEF Pending

LEMMA NoTimers == ASSUME TypeOK PROVE timers = <<>> <=> Len(timers) = 0
BY DEF TypeOK

\* clearTimeout never adds to what can still be dialled.
LEMMA ClearedPending ==
    ASSUME TypeOK, timers' = Cleared, armed' = FALSE
    PROVE  Pending' \in Nat /\ Pending' <= Pending
BY ClearedFact, PendingUnarmed DEF Pending, TypeOK

\* The timer that fires is spent; clearing the newest takes another one, which
\* Pending did not count.
LEMMA FiredPending ==
    ASSUME TypeOK, timers # <<>>, armed' = FALSE,
           timers' = Tail(IF Len(timers) > 1 THEN Cleared ELSE timers)
    PROVE  timers' \in Seq(BOOLEAN) /\ Pending' \in Nat /\ Pending' = Pending - 1
<1> DEFINE s == IF Len(timers) > 1 THEN Cleared ELSE timers
<1>1. timers \in Seq(BOOLEAN) /\ Len(timers) \in Nat /\ Len(timers) > 0
    BY NoTimers DEF TypeOK
<1>2. s \in Seq(BOOLEAN) /\ Len(s) \in Nat /\ Len(s) > 0
    BY <1>1, ClearedFact
<1>3. Len(s) = IF armed /\ Len(timers) > 1 THEN Len(timers) - 1 ELSE Len(timers)
    BY <1>1, ClearedFact DEF Cleared
<1> HIDE DEF s
<1>4. Tail(s) \in Seq(BOOLEAN) /\ Len(Tail(s)) = Len(s) - 1
    BY <1>2, TailFact
<1>5. timers' = Tail(s)
    BY DEF s
<1>6. Pending' = Len(timers')
    BY PendingUnarmed
<1>7. timers' \in Seq(BOOLEAN) /\ Len(timers') = Len(s) - 1
    BY <1>4, <1>5
<1>8. Len(s) = Pending
    BY <1>1, <1>3 DEF Pending
<1> QED BY <1>2, <1>6, <1>7, <1>8

\* A failure adds at most one timer that will be fired.
LEMMA FailedPending ==
    ASSUME TypeOK, NEW w \in BOOLEAN,
           Reconnect(timers, w) \/ Reconnect(Cleared, w) \/ Reconnect(Append(Cleared, FALSE), w)
    PROVE  /\ timers' \in Seq(BOOLEAN) /\ timers' # <<>> /\ armed'
           /\ Pending' \in Nat /\ Pending' <= Pending + 1
<1>1. timers \in Seq(BOOLEAN) /\ Len(timers) \in Nat /\ (armed => Len(timers) > 0)
    BY DEF TypeOK
<1>2. CASE Reconnect(timers, w)
    BY <1>1, <1>2, ReconnectFact, PendingArmed DEF Pending
<1>3. CASE Reconnect(Cleared, w)
    BY <1>1, <1>3, ReconnectFact, ClearedFact, PendingArmed DEF Pending
<1>4. CASE Reconnect(Append(Cleared, FALSE), w)
  <2>1. Append(Cleared, FALSE) \in Seq(BOOLEAN)
        /\ Len(Append(Cleared, FALSE)) = Len(Cleared) + 1
      BY ClearedFact, AppendProperties
  <2>2. /\ timers' \in Seq(BOOLEAN) /\ timers' # <<>> /\ armed'
        /\ Len(timers') = Len(Append(Cleared, FALSE)) + 1
      BY <1>4, <2>1, ReconnectFact
  <2>3. /\ armed => Len(timers') = Len(timers) + 1
        /\ ~armed => Len(timers') = Len(timers) + 2
      BY <1>1, <2>1, <2>2, ClearedFact
  <2>4. Pending' = Len(timers') - 1
      BY <1>1, <2>2, <2>3, PendingArmed
  <2> QED BY <1>1, <2>2, <2>3, <2>4 DEF Pending
<1> QED BY <1>2, <1>3, <1>4

-----------------------------------------------------------------------------
(* Connections *)

LEMMA LiveFinite == IsFiniteSet(Live) /\ Cardinality(Live) \in Nat
<1>1. IsFiniteSet(Slots)
    BY BoundsAssumption, FS_Interval DEF Slots
<1>2. IsFiniteSet(Live)
    BY <1>1, FS_Subset DEF Live
<1> QED BY <1>2, FS_CardinalityType

LEMMA DialFact ==
    ASSUME TypeOK, NEW w \in BOOLEAN, Dial(w)
    PROVE  \E i \in Slots :
              /\ i \notin Live
              /\ Live' = Live \cup {i}
              /\ conn' = [conn EXCEPT ![i] = "dialing"]
              /\ waiting' \subseteq Live'
              /\ Cardinality(Live') = Cardinality(Live) + 1
<1>1. PICK i \in Slots \ Live :
          /\ conn' = [conn EXCEPT ![i] = "dialing"]
          /\ waiting' = IF w THEN waiting \cup {i} ELSE waiting
    BY DEF Dial
<1>2. Live' = Live \cup {i}
    BY <1>1 DEF Live, TypeOK
<1>3. Cardinality(Live \cup {i}) = Cardinality(Live) + 1
    BY <1>1, LiveFinite, FS_AddElement
<1> QED BY <1>1, <1>2, <1>3 DEF TypeOK

LEMMA GoneFact ==
    ASSUME TypeOK, NEW i \in Live, conn' = [conn EXCEPT ![i] = "none"]
    PROVE  Live' = Live \ {i} /\ Cardinality(Live') = Cardinality(Live) - 1
<1>1. Live' = Live \ {i}
    BY DEF Live, TypeOK
<1> QED BY <1>1, LiveFinite, FS_RemoveElement

LEMMA MovedFact ==
    ASSUME TypeOK, NEW i \in Live, NEW s \in {"opening", "open", "bare"},
           conn' = [conn EXCEPT ![i] = s]
    PROVE  Live' = Live
BY DEF Live, TypeOK

\* closeChannel takes the channel from a connection and leaves it live.
LEMMA CloseChannelFact ==
    ASSUME TypeOK, FieldsHold, CloseChannel
    PROVE  /\ conn' \in [Slots -> {"none", "dialing", "opening", "open", "bare"}]
           /\ Live' = Live
           /\ channel' = 0
           /\ \A i \in Slots : conn'[i] # conn[i] => conn[i] = "open" /\ conn'[i] = "bare"
BY DEF TypeOK, FieldsHold, CloseChannel, Live

LEMMA LoseFact ==
    ASSUME Typed, NEW i \in Live, Lose(i)
    PROVE  /\ conn' = [conn EXCEPT ![i] = "none"]
           /\ Live' = Live \ {i} /\ Cardinality(Live') = Cardinality(Live) - 1
           /\ timers' \in Seq(BOOLEAN) /\ armed' \in BOOLEAN /\ (armed' => timers' # <<>>)
           /\ Pending' \in Nat /\ Pending' <= Pending + 1
           /\ Ignored /\ conn[i] # "opening" => timers' = timers
           /\ FieldsHold' /\ field' \in {0} \cup Live' /\ channel' \in {0} \cup Live'
           /\ field' # field => field = i
           /\ waiting' = waiting \ {i}
<1> USE DEF Typed
<1>1. conn' = [conn EXCEPT ![i] = "none"] /\ waiting' = waiting \ {i}
      /\ field' = (IF field = i THEN 0 ELSE field) /\ channel' = IF channel = i THEN 0 ELSE channel
    BY DEF Lose
<1>2. Live' = Live \ {i} /\ Cardinality(Live') = Cardinality(Live) - 1
    BY <1>1, GoneFact
<1>3. FieldsHold' /\ field' \in {0} \cup Live' /\ channel' \in {0} \cup Live'
    BY <1>1, <1>2 DEF TypeOK, FieldsHold
<1>4. CASE Ignored /\ conn[i] # "opening"
  <2>1. timers' = timers /\ armed' = armed
      BY <1>4 DEF Lose
  <2> QED BY <1>1, <1>2, <1>3, <2>1 DEF TypeOK, Pending
<1>5. CASE ~(Ignored /\ conn[i] # "opening")
  <2>1. \/ Reconnect(timers, i \in waiting) \/ Reconnect(Cleared, i \in waiting)
        \/ Reconnect(Append(Cleared, FALSE), i \in waiting)
      BY <1>5 DEF Lose
  <2>2. (i \in waiting) \in BOOLEAN
      OBVIOUS
  <2>3. /\ timers' \in Seq(BOOLEAN) /\ timers' # <<>> /\ armed'
        /\ Pending' \in Nat /\ Pending' <= Pending + 1
      BY <2>1, <2>2, FailedPending
  <2>4. armed' = TRUE
      BY <2>1 DEF Reconnect
  <2> QED BY <1>1, <1>2, <1>3, <1>5, <2>3, <2>4
<1> QED BY <1>4, <1>5

-----------------------------------------------------------------------------
(* Type correctness *)

LEMMA TypedInit == Init => Typed
<1> SUFFICES ASSUME Init PROVE Typed
    OBVIOUS
<1>1. Live = {}
    BY DEF Init, Live
<1>2. FieldsHold /\ Counted
    BY MaxTriesAssumption DEF Init, FieldsHold, Counted
<1>3. timers \in Seq(BOOLEAN)
    BY DEF Init
<1>4. armed \in BOOLEAN /\ ~armed /\ quiet \in BOOLEAN /\ exited \in BOOLEAN
    BY DEF Init
<1> QED BY <1>1, <1>2, <1>3, <1>4, MaxTriesAssumption, BoundsAssumption DEF Init, Typed, TypeOK

LEMMA TypedConnect ==
    ASSUME Typed, ~exited, NEW i \in Slots, Dialed(i) \/ DialFails(i) \/ Opened(i)
    PROVE  Typed'
<1> USE DEF Typed, shutdown
<1>1. i \in Live /\ i # 0
    BY DEF Dialed, DialFails, Opened, Live, Slots
<1>2. CASE Dialed(i)
  <2>1. Live' = Live
      BY <1>1, <1>2, MovedFact DEF Dialed
  <2>2. FieldsHold'
      BY <1>2 DEF Dialed, TypeOK, FieldsHold
  <2> QED BY <1>1, <1>2, <2>1, <2>2 DEF Dialed, TypeOK, Counted
<1>3. CASE DialFails(i)
  <2>1. Live' = Live \ {i}
      BY <1>1, <1>3, GoneFact DEF DialFails
  <2>2. field # i /\ channel # i
      BY <1>1, <1>3 DEF DialFails, FieldsHold
  <2>3. FieldsHold'
      BY <1>3, <2>2 DEF DialFails, TypeOK, FieldsHold
  <2>4. timers' \in Seq(BOOLEAN) /\ timers' # <<>> /\ armed' \in BOOLEAN
    <3>1. (i \in waiting) \in BOOLEAN
        OBVIOUS
    <3> QED BY <1>3, <3>1, FailedPending DEF DialFails, Reconnect
  <2>5. Counted' /\ fails' \in 0..MaxFails /\ failures' \in 0..(MaxFails + MaxDrops)
      BY <1>3, BoundsAssumption DEF DialFails, TypeOK, Counted
  <2> QED BY <1>1, <1>3, <2>1, <2>2, <2>3, <2>4, <2>5 DEF DialFails, TypeOK
<1>4. CASE Opened(i)
  <2>1. Live' = Live
      BY <1>1, <1>4, MovedFact DEF Opened
  <2>2. FieldsHold'
      BY <1>4 DEF Opened, TypeOK, FieldsHold
  <2>3. Counted'
      BY <1>4, MaxTriesAssumption DEF Opened, TypeOK, Counted
  <2> QED
      BY <1>1, <1>4, <2>1, <2>2, <2>3, MaxTriesAssumption, BoundsAssumption DEF Opened, TypeOK
<1> QED BY <1>2, <1>3, <1>4

\* A new connection takes a slot that neither field names.
LEMMA TypedDial ==
    ASSUME Typed, NEW w \in BOOLEAN, Dial(w), UNCHANGED <<field, channel>>
    PROVE  /\ conn' \in [Slots -> {"none", "dialing", "opening", "open", "bare"}]
           /\ waiting' \subseteq Live'
           /\ field' \in {0} \cup Live' /\ channel' \in {0} \cup Live'
           /\ FieldsHold'
<1> USE DEF Typed
<1>1. PICK i \in Slots :
          /\ i \notin Live
          /\ Live' = Live \cup {i}
          /\ conn' = [conn EXCEPT ![i] = "dialing"]
          /\ waiting' \subseteq Live'
    BY DialFact
<1>2. FieldsHold'
    BY <1>1 DEF TypeOK, FieldsHold, Live
<1> QED BY <1>1, <1>2 DEF TypeOK

LEMMA TypedCall == ASSUME Typed, ~exited, Call PROVE Typed'
<1>1. Dial(TRUE) /\ UNCHANGED <<field, channel>>
    BY DEF Call
<1>2. timers' \in Seq(BOOLEAN) /\ armed' = FALSE
    BY ClearedFact DEF Call, Typed
<1>3. calls' \in 0..MaxCalls
    BY BoundsAssumption DEF Call, Typed, TypeOK
<1>4. Counted'
    BY DEF Call, Typed, Counted
<1> QED BY <1>1, <1>2, <1>3, <1>4, TypedDial DEF Call, Typed, TypeOK, shutdown

LEMMA TypedFire == ASSUME Typed, ~exited, Fire PROVE Typed'
<1>1. tries \in Nat /\ tries <= MaxTries
    BY DEF Typed, TypeOK, Counted
<1>2. CASE Exceeded(tries + 1)
  <2>1. Live' = Live
      BY <1>2 DEF Fire, Live
  <2>2. FieldsHold' /\ Counted' /\ tries' \in 0..(MaxTries + 1)
      BY <1>1, <1>2, MaxTriesAssumption DEF Fire, Typed, FieldsHold, Counted, shutdown
  <2> QED BY <1>2, <2>1, <2>2 DEF Fire, Typed, TypeOK, shutdown
<1>3. CASE ~Exceeded(tries + 1)
  <2>1. Dial(Head(timers)) /\ Head(timers) \in BOOLEAN /\ UNCHANGED <<field, channel>>
      BY <1>3, TailFact DEF Fire, Typed, TypeOK
  <2>2. timers' \in Seq(BOOLEAN) /\ armed' = FALSE
      BY <1>3, FiredPending DEF Fire, Typed
  <2>3. Counted' /\ tries' \in 0..(MaxTries + 1)
      BY <1>1, <1>3, MaxTriesAssumption DEF Fire, Exceeded, Typed, Counted
  <2> QED BY <1>3, <2>1, <2>2, <2>3, TypedDial DEF Fire, Typed, TypeOK, shutdown
<1> QED BY <1>2, <1>3

LEMMA TypedLose ==
    ASSUME Typed, ~exited, NEW i \in Slots, Drop(i) \/ (CloseConnection /\ field # 0 /\ i = field)
    PROVE  Typed'
<1>1. Lose(i) /\ i \in Live
    BY DEF Drop, CloseConnection, Live, Typed, TypeOK
<1>2. CASE Drop(i)
  <2>1. drops' \in 0..MaxDrops /\ failures' \in 0..(MaxFails + MaxDrops) /\ Counted'
      BY <1>1, <1>2, BoundsAssumption DEF Drop, Lose, Typed, TypeOK, Counted
  <2> QED BY <1>1, <1>2, <2>1, LoseFact DEF Drop, Lose, Typed, TypeOK, shutdown
<1>3. CASE CloseConnection /\ field # 0 /\ i = field
  <2>1. Counted'
      BY <1>1, <1>3 DEF CloseConnection, Lose, Typed, Counted
  <2> QED BY <1>1, <1>3, <2>1, LoseFact DEF CloseConnection, Lose, Typed, TypeOK
<1> QED BY <1>2, <1>3

LEMMA TypedClose ==
    ASSUME Typed, ~exited, Finish \/ Destroy \/ (CloseConnection /\ field = 0)
    PROVE  Typed'
<1> USE DEF Typed, shutdown
<1>1. ASSUME Finish \/ Destroy
      PROVE  /\ conn' \in [Slots -> {"none", "dialing", "opening", "open", "bare"}]
             /\ Live' = Live /\ field' = field /\ channel' = 0 /\ FieldsHold' /\ Counted'
  <2>1. CloseChannel /\ field' = field /\ UNCHANGED <<exited, tries, failures, fails, drops>>
      BY <1>1 DEF Finish, Destroy
  <2>2. Counted'
      BY <2>1 DEF Counted
  <2>3. field # 0 => field \in Slots /\ conn'[field] \notin {"none", "dialing"}
      BY <2>1, CloseChannelFact DEF FieldsHold, TypeOK, Live
  <2>4. FieldsHold'
      BY <2>1, <2>3, CloseChannelFact DEF FieldsHold
  <2> QED BY <2>1, <2>2, <2>4, CloseChannelFact
<1>2. CASE Finish
    BY <1>1, <1>2 DEF Finish, TypeOK
<1>3. CASE Destroy
  <2>1. quiet' \in BOOLEAN
      BY <1>3 DEF Destroy
  <2> QED BY <1>1, <1>3, <2>1, ClearedFact DEF Destroy, TypeOK
<1>4. CASE CloseConnection /\ field = 0
    BY <1>4 DEF CloseConnection, TypeOK, FieldsHold, Counted, Live
<1> QED BY <1>2, <1>3, <1>4

LEMMA TypedSame == ASSUME Typed, UNCHANGED vars PROVE Typed'
BY DEF vars, shutdown, Typed, TypeOK, FieldsHold, Counted, Live

LEMMA TypedStep == ASSUME Typed, [Next]_vars PROVE Typed'
<1>1. CASE Connect /\ ~exited
    BY <1>1, TypedConnect DEF Connect
<1>2. CASE CloseConnection /\ ~exited
  <2>1. field = 0 \/ field \in Slots
      BY DEF Typed, TypeOK, Live
  <2> QED BY <1>2, <2>1, TypedLose, TypedClose
<1>3. ASSUME ~exited, NEW i \in Slots, Drop(i) PROVE Typed'
    BY <1>3, TypedLose
<1> QED BY <1>1, <1>2, <1>3, TypedSame, TypedCall, TypedFire, TypedClose DEF Next

\* The variables keep their types, tries does not pass maxReconnectTries by more
\* than the attempt that exits, and connection and channel never name an object
\* that is gone: connect() and the handlers keep these fields up to date.
THEOREM TypeCorrect == Spec => []TypeOK
<1>1. Init => Typed
    BY TypedInit
<1>2. Typed /\ [Next]_vars => Typed'
    BY TypedStep
<1>3. Typed => TypeOK
    BY DEF Typed
<1> QED BY <1>1, <1>2, <1>3, PTL DEF Spec

-----------------------------------------------------------------------------
(* Connections and calls *)

\* What each action does to the number of connections and of those to come.
LEMMA BudgetStep == ASSUME Typed, Budget, [Next]_vars PROVE Budget'
<1>1. Cardinality(Live) \in Nat /\ Pending \in Nat /\ calls \in Nat /\ TypeOK
    BY LiveFinite DEF Typed, TypeOK, Pending
<1>2. CASE Call
  <2>1. Cardinality(Live') = Cardinality(Live) + 1
      BY <1>1, <1>2, DialFact DEF Call
  <2>2. Pending' \in Nat /\ Pending' <= Pending
      BY <1>1, <1>2, ClearedPending DEF Call
  <2> QED BY <1>1, <1>2, <2>1, <2>2 DEF Call, Budget
<1>3. ASSUME NEW i \in Slots, Dialed(i) \/ Opened(i) PROVE Budget'
  <2>1. Live' = Live
      BY <1>1, <1>3, MovedFact DEF Dialed, Opened, Live
  <2> QED BY <1>3, <2>1 DEF Dialed, Opened, Budget, Pending
<1>4. ASSUME NEW i \in Slots, DialFails(i) PROVE Budget'
  <2>1. Cardinality(Live') = Cardinality(Live) - 1
      BY <1>1, <1>4, GoneFact DEF DialFails, Live
  <2>2. Pending' \in Nat /\ Pending' <= Pending + 1
    <3>1. (i \in waiting) \in BOOLEAN
        OBVIOUS
    <3> QED BY <1>1, <1>4, <3>1, FailedPending DEF DialFails
  <2> QED BY <1>1, <1>4, <2>1, <2>2 DEF DialFails, Budget
<1>5. ASSUME NEW i \in Live, Lose(i) PROVE Budget'
  <2>1. Cardinality(Live') = Cardinality(Live) - 1
      BY <1>5, LoseFact
  <2>2. Pending' \in Nat /\ Pending' <= Pending + 1
      BY <1>5, LoseFact
  <2> QED BY <1>1, <1>5, <2>1, <2>2 DEF Lose, Budget
<1>6. CASE Fire /\ Exceeded(tries + 1)
    BY <1>6 DEF Fire, Budget, Pending, Live
<1>7. CASE Fire /\ ~Exceeded(tries + 1)
  <2>1. Cardinality(Live') = Cardinality(Live) + 1
    <3>1. Head(timers) \in BOOLEAN
        BY <1>1, <1>7, TailFact DEF Fire, TypeOK
    <3> QED BY <1>1, <1>7, <3>1, DialFact DEF Fire
  <2>2. Pending' \in Nat /\ Pending' = Pending - 1
      BY <1>1, <1>7, FiredPending DEF Fire
  <2> QED BY <1>1, <1>7, <2>1, <2>2 DEF Fire, Budget
<1>8. CASE Finish \/ Destroy
  <2>1. Live' = Live
      BY <1>1, <1>8, CloseChannelFact DEF Finish, Destroy, Typed
  <2>2. Pending' \in Nat /\ Pending' <= Pending
    <3>1. CASE Finish
        BY <1>1, <3>1 DEF Finish, Pending
    <3>2. CASE Destroy
        BY <1>1, <3>2, ClearedPending DEF Destroy
    <3> QED BY <1>8, <3>1, <3>2
  <2>3. calls' = calls
      BY <1>8 DEF Finish, Destroy
  <2> QED BY <1>1, <2>1, <2>2, <2>3, LiveFinite DEF Budget
<1>9. CASE CloseConnection
  <2>1. CASE field = 0
      BY <1>9, <2>1 DEF CloseConnection, Budget, Pending, Live
  <2>2. CASE field # 0
      BY <1>1, <1>5, <1>9, <2>2 DEF CloseConnection, TypeOK
  <2> QED BY <2>1, <2>2
<1>10. ASSUME NEW i \in Slots, Drop(i) PROVE Budget'
    BY <1>5, <1>10 DEF Drop, Live
<1>11. CASE UNCHANGED vars
    BY <1>11 DEF vars, Budget, Pending, Live
<1> QED BY <1>2, <1>3, <1>4, <1>6, <1>7, <1>8, <1>9, <1>10, <1>11 DEF Next, Connect

LEMMA BudgetInit == Init => Budget
<1> SUFFICES ASSUME Init PROVE Budget
    OBVIOUS
<1>1. Live = {} /\ Len(timers) = 0
    BY DEF Init, Live
<1> QED BY <1>1, FS_EmptySet DEF Init, Budget, Pending

LEMMA Invariance == Spec => [](Typed /\ Budget)
<1>1. Init => Typed /\ Budget
    BY TypedInit, BudgetInit
<1>2. (Typed /\ Budget) /\ [Next]_vars => (Typed /\ Budget)'
    BY TypedStep, BudgetStep
<1> QED BY <1>1, <1>2, PTL DEF Spec

\* However timers, failures and broken connections overlap, the service never
\* has more connections than connect() was called by its process: a timer that
\* dials stands for a connection that is gone.
THEOREM ReconnectingNeverMultiplies == Spec => []NoMoreThanCalls
<1>1. Typed /\ Budget => NoMoreThanCalls
  <2>1. Typed => Pending \in Nat /\ calls \in Nat
      BY DEF Typed, TypeOK, Pending
  <2> QED BY <2>1, LiveFinite DEF Budget, NoMoreThanCalls
<1> QED BY <1>1, Invariance, PTL

-----------------------------------------------------------------------------
(* A process with one connection *)

LEMMA OneUnderWay ==
    ASSUME Typed, Budget, calls <= 1, NEW i \in Live
    PROVE  Live = {i} /\ timers = <<>> /\ Pending = 0
<1>1. Cardinality(Live) \in Nat /\ Cardinality(Live \ {i}) = Cardinality(Live) - 1
    BY LiveFinite, FS_RemoveElement
<1>2. IsFiniteSet(Live \ {i}) /\ Cardinality(Live \ {i}) \in Nat
    BY LiveFinite, FS_Subset, FS_CardinalityType
<1>3. Pending \in Nat /\ (Pending = 0 => timers = <<>>)
  <2>1. TypeOK /\ Len(timers) \in Nat
      BY DEF Typed, TypeOK
  <2>2. CASE armed /\ Len(timers) > 1
    <3>1. Pending = Len(timers) - 1
        BY <2>2 DEF Pending
    <3>2. Pending \in Nat /\ Pending # 0
        BY <2>1, <2>2, <3>1
    <3> QED BY <3>2
  <2>3. CASE ~(armed /\ Len(timers) > 1)
    <3>1. Pending = Len(timers)
        BY <2>3 DEF Pending
    <3> QED BY <2>1, <3>1, NoTimers
  <2> QED BY <2>2, <2>3
<1>4. Cardinality(Live \ {i}) = 0 /\ Pending = 0
    BY <1>1, <1>2, <1>3 DEF Budget, Typed, TypeOK
<1>5. Live \ {i} = {}
    BY <1>2, <1>4, FS_EmptySet
<1> QED BY <1>3, <1>4, <1>5

LEMMA NoneUnderWay ==
    ASSUME Typed, Budget, calls = 0 \/ (calls <= 1 /\ timers # <<>>)
    PROVE  Live = {}
<1> SUFFICES ASSUME NEW i \in Live PROVE FALSE
    OBVIOUS
<1>1. calls <= 1
    BY DEF Typed, TypeOK
<1>2. timers = <<>>
    BY <1>1, OneUnderWay
<1>3. Cardinality(Live) = 0
    BY <1>2, LiveFinite DEF Budget, Pending, Typed, TypeOK
<1> QED BY <1>3, LiveFinite, FS_EmptySet

LEMMA SumLess ==
    ASSUME NEW a \in Nat, NEW b \in Nat, NEW c \in Nat, NEW d \in Nat, b <= d, a + d <= c
    PROVE  a + b <= c
OBVIOUS

\* One more failure for one more attempt.
LEMMA PaidStep == ASSUME Typed, Budget, Paid, [Next]_vars PROVE Paid'
<1> SUFFICES ASSUME calls' <= 1, down' = "no", ~exited' PROVE tries' + Pending' <= failures'
    BY DEF Paid
<1>1. tries \in Nat /\ Pending \in Nat /\ failures \in Nat /\ calls \in Nat /\ TypeOK
    BY DEF Typed, TypeOK, Pending
<1>2. CASE UNCHANGED vars
  <2>1. Pending' = Pending
      BY <1>2 DEF vars, Pending
  <2> QED BY <1>2, <2>1 DEF vars, shutdown, Paid
<1> SUFFICES ASSUME Next PROVE tries' + Pending' <= failures'
    BY <1>2
<1>3. ~exited
    BY DEF Next
<1>4. CASE Call
  <2>1. tries + Pending <= failures
      BY <1>1, <1>3, <1>4 DEF Call, Paid
  <2>2. Pending' \in Nat /\ Pending' <= Pending
      BY <1>1, <1>4, ClearedPending DEF Call
  <2>3. tries' = tries /\ failures' = failures
      BY <1>4 DEF Call
  <2> QED BY <1>1, <2>1, <2>2, <2>3, SumLess
<1>5. ASSUME NEW i \in Slots, Dialed(i) PROVE tries' + Pending' <= failures'
    BY <1>3, <1>5 DEF Dialed, Paid, Pending, shutdown
<1>6. ASSUME NEW i \in Slots, Opened(i) PROVE tries' + Pending' <= failures'
  <2>1. Pending = 0
      BY <1>6, OneUnderWay DEF Opened, Live
  <2>2. Pending' = Pending
      BY <1>6 DEF Opened, Pending
  <2> QED BY <1>6, <2>1, <2>2 DEF Opened
<1>7. ASSUME NEW i \in Live, calls <= 1, down = "no", tries' = tries, failures' = failures + 1,
             Pending' \in Nat, Pending' <= Pending + 1
      PROVE  tries' + Pending' <= failures'
  <2>1. Pending = 0 /\ tries + Pending <= failures
      BY <1>3, <1>7, OneUnderWay DEF Paid
  <2>2. Pending' \in Nat /\ Pending' <= 1
      BY <1>7, <2>1
  <2>3. tries' \in Nat /\ failures' \in Nat /\ tries' + 1 <= failures'
      BY <1>1, <1>7, <2>1
  <2> QED BY <2>2, <2>3, SumLess
<1>8. ASSUME NEW i \in Slots, DialFails(i) PROVE tries' + Pending' <= failures'
  <2>1. Pending' \in Nat /\ Pending' <= Pending + 1
    <3>1. (i \in waiting) \in BOOLEAN
        OBVIOUS
    <3> QED BY <1>1, <1>8, <3>1, FailedPending DEF DialFails
  <2>2. i \in Live /\ calls <= 1 /\ down = "no" /\ tries' = tries /\ failures' = failures + 1
      BY <1>8 DEF DialFails, Live, shutdown
  <2> QED BY <1>7, <2>1, <2>2
<1>9. ASSUME NEW i \in Slots, Drop(i) PROVE tries' + Pending' <= failures'
  <2>1. i \in Live /\ Lose(i)
      BY <1>9 DEF Drop, Live
  <2>2. Pending' \in Nat /\ Pending' <= Pending + 1
      BY <2>1, LoseFact
  <2>3. calls <= 1 /\ down = "no" /\ tries' = tries /\ failures' = failures + 1
      BY <1>9 DEF Drop, Lose, shutdown
  <2> QED BY <1>7, <2>1, <2>2, <2>3
<1>10. CASE Fire
  <2>1. ~Exceeded(tries + 1)
      BY <1>10 DEF Fire
  <2>2. tries + Pending <= failures
      BY <1>3, <1>10 DEF Fire, Paid, shutdown
  <2>3. Pending' \in Nat /\ Pending' = Pending - 1
      BY <1>1, <1>10, <2>1, FiredPending DEF Fire
  <2>4. tries' = tries + 1 /\ failures' = failures
      BY <1>10 DEF Fire
  <2> QED BY <1>1, <2>2, <2>3, <2>4
<1>11. CASE Finish
    BY <1>3, <1>11 DEF Finish, Paid, Pending, shutdown
<1>12. ~Destroy /\ ~CloseConnection
    BY DEF Destroy, CloseConnection
<1> QED BY <1>4, <1>5, <1>6, <1>8, <1>9, <1>10, <1>11, <1>12 DEF Next, Connect

LEMMA GivesUpStep ==
    ASSUME Typed, Paid, GivesUpLate, [Next]_vars PROVE GivesUpLate'
<1> SUFFICES ASSUME exited', calls' = 1, down' = "no" PROVE failures' > MaxTries
    BY DEF GivesUpLate
<1>1. CASE UNCHANGED vars
    BY <1>1 DEF vars, shutdown, GivesUpLate
<1>2. CASE Fire /\ ~exited
  <2>1. tries + 1 > MaxTries /\ failures' = failures
      BY <1>2 DEF Fire, Exceeded
  <2>2. Pending \in Nat /\ Pending > 0
      BY <1>2, NoTimers DEF Fire, Pending, Typed, TypeOK
  <2>3. tries + Pending <= failures
      BY <1>2 DEF Fire, Paid, shutdown
  <2>4. tries \in Nat /\ failures \in Nat
      BY DEF Typed, TypeOK
  <2> QED BY <2>1, <2>2, <2>3, <2>4, MaxTriesAssumption
<1>3. ASSUME Next PROVE Fire /\ ~exited
    BY <1>3 DEF Next, Call, Connect, Dialed, DialFails, Opened, Finish, Destroy,
                CloseConnection, Drop, Lose
<1> QED BY <1>1, <1>2, <1>3

\* A consumer exits only after more failures in a row than maxReconnectTries: an
\* attempt, made or pending, has its own failure since the last connection.
THEOREM ExitsForFailures == Spec => []GivesUpLate
<1> DEFINE IInv == Typed /\ Budget /\ Paid /\ GivesUpLate
<1>1. Init => IInv
  <2> SUFFICES ASSUME Init PROVE Paid /\ GivesUpLate
      BY TypedInit, BudgetInit
  <2>1. Len(timers) = 0 /\ ~armed
      BY DEF Init
  <2> QED BY <2>1 DEF Init, Paid, Pending, GivesUpLate
<1>2. IInv /\ [Next]_vars => IInv'
    BY TypedStep, BudgetStep, PaidStep, GivesUpStep
<1> QED BY <1>1, <1>2, PTL DEF Spec

-----------------------------------------------------------------------------
(* A process that is closed *)

LEMMA FieldNamesStep == ASSUME Typed, Budget, FieldNames, [Next]_vars PROVE FieldNames'
<1> SUFFICES ASSUME calls' <= 1, NEW i \in Live', conn'[i] # "dialing" PROVE field' = i
    BY DEF FieldNames
<1> USE DEF Typed
<1>1. calls \in Nat /\ i \in Slots
    BY DEF TypeOK, Live
<1>2. ASSUME Live = {}, NEW w \in BOOLEAN, Dial(w) PROVE FALSE
  <2>1. PICK j \in Slots : conn' = [conn EXCEPT ![j] = "dialing"] /\ Live' = Live \cup {j}
      BY <1>2, DialFact
  <2> QED BY <1>2, <2>1 DEF TypeOK
<1>3. CASE Call
  <2>1. Live = {} /\ Dial(TRUE)
    <3>1. calls' = calls + 1 /\ Dial(TRUE)
        BY <1>3 DEF Call
    <3>2. calls = 0
        BY <1>1, <3>1
    <3> QED BY <3>1, <3>2, NoneUnderWay
  <2> QED BY <1>2, <2>1
<1>4. ASSUME NEW j \in Slots, Dialed(j) \/ DialFails(j) \/ Opened(j) PROVE field' = i
  <2>1. j \in Live /\ calls <= 1
      BY <1>4 DEF Dialed, DialFails, Opened, Live
  <2>2. Live = {j}
      BY <2>1, OneUnderWay
  <2>3. i = j /\ (Dialed(j) \/ Opened(j))
      BY <1>4, <2>1, <2>2, GoneFact, MovedFact DEF Dialed, DialFails, Opened
  <2> QED BY <1>4, <2>1, <2>3 DEF Dialed, Opened, FieldNames
<1>5. ASSUME NEW j \in Live, Lose(j) PROVE FALSE
  <2>1. Live' = Live \ {j} /\ calls <= 1
      BY <1>5, LoseFact DEF Lose
  <2> QED BY <2>1, OneUnderWay
<1>6. CASE Fire
  <2>1. CASE Exceeded(tries + 1)
      BY <1>6, <2>1 DEF Fire, FieldNames, Live
  <2>2. CASE ~Exceeded(tries + 1)
    <3>1. Dial(Head(timers)) /\ Head(timers) \in BOOLEAN
        BY <1>6, <2>2, TailFact DEF Fire, TypeOK
    <3>2. Live = {}
        BY <1>6, NoneUnderWay DEF Fire
    <3> QED BY <1>2, <3>1, <3>2
  <2> QED BY <2>1, <2>2
<1>7. CASE Finish \/ Destroy
  <2>1. Live' = Live /\ field' = field /\ (conn'[i] # conn[i] => conn[i] = "open")
      BY <1>1, <1>7, CloseChannelFact DEF Finish, Destroy
  <2> QED BY <1>7, <2>1 DEF Finish, Destroy, FieldNames
<1>8. CASE CloseConnection
    BY <1>5, <1>8 DEF CloseConnection, FieldNames, TypeOK, Live
<1>9. ASSUME NEW j \in Slots, Drop(j) PROVE FALSE
    BY <1>5, <1>9 DEF Drop, Live
<1>10. CASE UNCHANGED vars
    BY <1>10 DEF vars, FieldNames, Live
<1> QED BY <1>3, <1>4, <1>6, <1>7, <1>8, <1>9, <1>10 DEF Next, Connect

\* Neither a call nor a timer nor an answer can come after a quiet beginning.
LEMMA SettledStep ==
    ASSUME Typed, Budget, FieldNames, Settled, [Next]_vars PROVE Settled'
<1> USE DEF Typed
<1> SUFFICES ASSUME quiet'
             PROVE  /\ down' # "no" /\ calls' <= 1 /\ timers' = <<>>
                    /\ \A i \in Live' : conn'[i] \in {"open", "bare"}
                    /\ down' = "closed" => Live' = {}
    BY DEF Settled
<1>1. CASE Destroy
  <2>1. Live' = Live /\ \A i \in Live : conn'[i] = conn[i] \/ conn'[i] = "bare"
      BY <1>1, CloseChannelFact DEF Destroy, Live
  <2>2. calls <= 1 /\ Cleared = <<>> /\ \A i \in Live : conn[i] \in {"open", "bare"}
      BY <1>1 DEF Destroy
  <2> QED BY <1>1, <2>1, <2>2 DEF Destroy
<1>2. CASE ~Destroy /\ [Next]_vars
  <2>1. quiet
      BY <1>2 DEF Next, Call, Connect, Dialed, DialFails, Opened, Fire, Finish, Drop, Lose,
                  CloseConnection, shutdown, vars
  <2>2. /\ down # "no" /\ calls <= 1 /\ timers = <<>>
        /\ \A i \in Live : conn[i] \in {"open", "bare"}
        /\ down = "closed" => Live = {}
      BY <2>1 DEF Settled
  <2>3. ~Call /\ ~Fire /\ ~Connect
      BY <2>2 DEF Call, Fire, Connect, Dialed, DialFails, Opened, Live
  <2>4. ASSUME NEW i \in Live, Lose(i)
        PROVE  /\ timers' = <<>> /\ Live' = {} /\ calls' <= 1
    <3>1. Ignored /\ conn[i] # "opening"
        BY <2>2 DEF Ignored
    <3>2. timers' = timers /\ Live' = Live \ {i}
        BY <2>4, <3>1, LoseFact
    <3>3. Live = {i}
        BY <2>2, OneUnderWay
    <3> QED BY <2>2, <2>4, <3>2, <3>3 DEF Lose
  <2>5. ASSUME NEW i \in Slots, Drop(i) PROVE timers' = <<>> /\ Live' = {} /\ calls' <= 1
      BY <2>4, <2>5 DEF Drop, Live
  <2>6. CASE \E i \in Slots : Drop(i)
      BY <2>2, <2>5, <2>6 DEF Drop, shutdown
  <2>7. CASE CloseConnection
    <3>1. CASE field = 0
      <4>1. Live = {}
          BY <2>2, <3>1 DEF FieldNames, Live, Slots
      <4> QED BY <2>2, <2>7, <3>1, <4>1 DEF CloseConnection, Live
    <3>2. CASE field # 0
        BY <2>2, <2>4, <2>7, <3>2 DEF CloseConnection, TypeOK
    <3> QED BY <3>1, <3>2
  <2>8. CASE Finish
    <3>1. Live' = Live /\ \A i \in Live : conn'[i] = conn[i] \/ conn'[i] = "bare"
        BY <2>8, CloseChannelFact DEF Finish, Live
    <3> QED BY <2>2, <2>8, <3>1 DEF Finish, shutdown
  <2>9. CASE UNCHANGED vars
      BY <2>2, <2>9 DEF vars, shutdown, Live
  <2> QED BY <1>2, <2>3, <2>6, <2>7, <2>8, <2>9 DEF Next
<1> QED BY <1>1, <1>2

\* A service whose onModuleDestroy found nothing under way has, once it is done,
\* neither a connection nor a timer and never gets one: handleError and
\* handleClose return at once, and the field names the connection to close.
THEOREM DestroyedStaysDown == Spec => []StaysDown
<1> DEFINE IInv == Typed /\ Budget /\ FieldNames /\ Settled
<1>1. Init => IInv
  <2> SUFFICES ASSUME Init PROVE FieldNames /\ Settled
      BY TypedInit, BudgetInit
  <2>1. Live = {} /\ ~quiet
      BY DEF Init, Live
  <2> QED BY <2>1 DEF FieldNames, Settled
<1>2. IInv /\ [Next]_vars => IInv'
    BY TypedStep, BudgetStep, FieldNamesStep, SettledStep
<1>3. IInv => StaysDown
    BY DEF Settled, StaysDown
<1> QED BY <1>1, <1>2, <1>3, PTL DEF Spec

=============================================================================
