------------------------- MODULE OutboxRelayProofs -------------------------
(***************************************************************************)
(* Proofs about OutboxRelay for any number of rows, relays and faults.      *)
(*                                                                         *)
(* Two arguments.  Copies: every copy of a row that is on its way or has    *)
(* arrived is accounted for by a fault, but for the copies of the last      *)
(* publication, which holds whatever fails (Shared).  Losses: a row that    *)
(* was written is on one of the relay's channels, or with the broker, or    *)
(* went with a connection (Somewhere); and on the channel of the field, or  *)
(* with the broker, while the relay's connections hold (Kept).              *)
(***************************************************************************)
EXTENDS OutboxRelay, FiniteSetTheorems, TLAPS

USE NRowsAssumption, MaxFaultsAssumption DEF Rows, Channels, Phases

-----------------------------------------------------------------------------
(* Types *)

\* Each reconnect has had a break of its own, so the channels do not run out of
\* numbers.
Numbered == \A p \in Relays : channel[p] + redials[p] <= faults

Typed == TypeOK /\ Numbered

LEMMA TypedInit == Init => Typed
BY DEF Init, Typed, TypeOK, Numbered

LEMMA FaultTyped ==
    ASSUME TypeOK, NEW kind, Fault(kind)
    PROVE  faults' = faults + 1 /\ faults' \in 0..MaxFaults /\ faults \in 0..MaxFaults
BY DEF TypeOK, Fault

\* What becomes of the channels when one takes the place of another.
LEMMA ReplaceTyped ==
    ASSUME Typed, NEW p \in Relays, NEW state \in {"open", "dead"}, Replace(p, state),
           Unsent(p) = {} \/ redials[p] > 0
    PROVE  /\ link' \in [Relays -> {"none", "open", "closing", "dead"}]
           /\ spare' \in [Relays -> BOOLEAN]
           /\ channel' \in [Relays -> Channels]
           /\ \A q \in Relays : q # p => channel'[q] = channel[q]
           /\ channel'[p] = IF Unsent(p) = {} THEN channel[p] ELSE channel[p] + 1
<1>1. /\ channel \in [Relays -> 0..MaxFaults]
      /\ redials \in [Relays -> Nat]
      /\ faults \in 0..MaxFaults
      /\ channel[p] + redials[p] <= faults
    BY DEF Typed, TypeOK, Numbered
<1>2. Unsent(p) # {} => channel[p] + 1 \in 0..MaxFaults
    BY <1>1
<1>3. channel' = [channel EXCEPT ![p] = IF Unsent(p) = {} THEN channel[p] ELSE channel[p] + 1]
    BY DEF Replace
<1>4. /\ channel' \in [Relays -> Channels]
      /\ \A q \in Relays : q # p => channel'[q] = channel[q]
      /\ channel'[p] = IF Unsent(p) = {} THEN channel[p] ELSE channel[p] + 1
    BY <1>1, <1>2, <1>3
<1>5. /\ link' \in [Relays -> {"none", "open", "closing", "dead"}]
      /\ spare' \in [Relays -> BOOLEAN]
    BY DEF Typed, TypeOK, Replace
<1> QED BY <1>4, <1>5

\* A reconnect more, or as many as before, of one relay.
LEMMA RedialTyped ==
    ASSUME TypeOK, NEW p \in Relays, Redial(p)
    PROVE  /\ redials' \in [Relays -> Nat]
           /\ shaken' = shaken \cup {p} /\ shaken' \subseteq Relays
           /\ \A q \in Relays : q # p => redials'[q] = redials[q]
           /\ redials'[p] <= redials[p] + 1
BY DEF TypeOK, Redial

LEMMA UndialTyped ==
    ASSUME TypeOK, NEW p \in Relays, Undial(p)
    PROVE  /\ redials' \in [Relays -> Nat]
           /\ \A q \in Relays : q # p => redials'[q] = redials[q]
           /\ redials'[p] <= redials[p]
BY DEF TypeOK, Undial

LEMMA StillNumbered ==
    ASSUME Typed, NEW p \in Relays, faults' \in Nat, faults' >= faults,
           channel' \in [Relays -> Channels], redials' \in [Relays -> Nat],
           \A q \in Relays : q # p => channel'[q] = channel[q] /\ redials'[q] = redials[q],
           channel'[p] + redials'[p] <= channel[p] + redials[p] + (faults' - faults)
    PROVE  Numbered'
<1>1. /\ channel \in [Relays -> 0..MaxFaults] /\ redials \in [Relays -> Nat]
      /\ faults \in Nat
    BY DEF Typed, TypeOK
<1>2. \A q \in Relays : channel[q] + redials[q] <= faults
    BY DEF Typed, Numbered
<1>3. ASSUME NEW q \in Relays PROVE channel'[q] + redials'[q] <= faults'
    <2>1. CASE q = p
        BY <1>1, <1>2, <2>1
    <2>2. CASE q # p
        BY <1>1, <1>2, <2>2
    <2> QED BY <2>1, <2>2
<1> QED BY <1>3 DEF Numbered

\* A connection breaks, and the channels keep their numbers.
LEMMA BreakTyped ==
    ASSUME Typed, NEW p \in Relays, Redial(p), Fault("drop"),
           channel' \in [Relays -> Channels], \A q \in Relays : channel'[q] = channel[q]
    PROVE  /\ redials' \in [Relays -> Nat] /\ shaken' \subseteq Relays
           /\ faults' \in 0..MaxFaults /\ Numbered'
<1>t. TypeOK
    BY DEF Typed
<1>1. /\ channel \in [Relays -> Channels] /\ redials \in [Relays -> Nat]
      /\ faults \in Nat
    BY DEF Typed, TypeOK
<1>2. /\ redials' \in [Relays -> Nat] /\ redials'[p] <= redials[p] + 1
      /\ shaken' \subseteq Relays
      /\ \A q \in Relays : q # p => redials'[q] = redials[q]
    BY <1>t, RedialTyped
<1>3. faults' = faults + 1 /\ faults' \in 0..MaxFaults
    BY <1>t, FaultTyped
<1>4. channel'[p] + redials'[p] <= channel[p] + redials[p] + (faults' - faults)
    BY <1>1, <1>2, <1>3
<1>5. faults' \in Nat /\ faults' >= faults
    BY <1>1, <1>3
<1>6. Numbered'
    BY <1>2, <1>4, <1>5, StillNumbered
<1> QED BY <1>2, <1>3, <1>6

LEMMA WriteTyped ==
    ASSUME TypeOK, NEW p \in Relays, Write(p)
    PROVE  /\ pipe' \in [Relays -> [Channels -> SUBSET (1..stored)]]
           /\ \A q \in Relays, n \in Channels :
                 pipe'[q][n] = IF q = p /\ n = channel[p] THEN pipe[q][n] \cup batch[p]
                               ELSE pipe[q][n]
BY DEF TypeOK, Write

LEMMA CutTyped ==
    ASSUME TypeOK, NEW p \in Relays, NEW n \in Channels, Cut(p, n)
    PROVE  /\ pipe' \in [Relays -> [Channels -> SUBSET (1..stored)]]
           /\ \A q \in Relays, k \in Channels :
                 pipe'[q][k] = IF q = p /\ k = n THEN {} ELSE pipe[q][k]
           /\ cut' = cut \cup pipe[p][n]
           /\ cut' \subseteq 1..stored
BY DEF TypeOK, Cut

LEMMA ReceiveTyped ==
    ASSUME TypeOK, NEW p \in Relays, Receive(p)
    PROVE  \E n \in Channels : \E r \in pipe[p][n] :
              /\ r \in Rows
              /\ pipe' \in [Relays -> [Channels -> SUBSET (1..stored)]]
              /\ \A q \in Relays, k \in Channels :
                    pipe'[q][k] = IF q = p /\ k = n THEN pipe[q][k] \ {r} ELSE pipe[q][k]
              /\ copies' \in [Rows -> Nat]
              /\ \A s \in Rows : copies'[s] = IF s = r THEN copies[s] + 1 ELSE copies[s]
<1>1. PICK n \in Channels : \E r \in pipe[p][n] :
          /\ pipe' = [pipe EXCEPT ![p][n] = @ \ {r}]
          /\ copies' = [copies EXCEPT ![r] = @ + 1]
    BY DEF Receive
<1>2. PICK r \in pipe[p][n] :
          /\ pipe' = [pipe EXCEPT ![p][n] = @ \ {r}]
          /\ copies' = [copies EXCEPT ![r] = @ + 1]
    BY <1>1
<1>3. r \in Rows
    BY DEF TypeOK
<1>4. /\ pipe' \in [Relays -> [Channels -> SUBSET (1..stored)]]
      /\ \A q \in Relays, k \in Channels :
            pipe'[q][k] = IF q = p /\ k = n THEN pipe[q][k] \ {r} ELSE pipe[q][k]
    BY <1>2 DEF TypeOK
<1>5. /\ copies' \in [Rows -> Nat]
      /\ \A s \in Rows : copies'[s] = IF s = r THEN copies[s] + 1 ELSE copies[s]
    BY <1>2, <1>3 DEF TypeOK
<1> QED BY <1>3, <1>4, <1>5

-----------------------------------------------------------------------------
(* Who holds which rows *)

\* Nothing is on its way on the field's channel but between writing and closing,
\* and a channel with a higher number has not been used.
Tidy(p) ==
    /\ phase[p] \in {"idle", "selected", "connected", "closed"} => Unsent(p) = {}
    /\ link[p] \in {"none", "dead"} => Unsent(p) = {}
    /\ link[p] = "closing" => phase[p] \in {"marked", "aborted"}
    /\ \A n \in Channels : n > channel[p] => pipe[p][n] = {}
    /\ phase[p] \in {"idle", "aborted"} => batch[p] = {}

\* A row is selected by at most one relay, and not after it is done (SKIP LOCKED).
Apart ==
    \A p \in Relays :
        /\ batch[p] \cap done = {}
        /\ \A q \in Relays : p # q => batch[p] \cap batch[q] = {}

Exclusive == Apart /\ \A p \in Relays : Tidy(p)

LEMMA ExclusiveInit == Init => Exclusive
BY DEF Init, Exclusive, Apart, Tidy, Unsent

\* The types are preserved.
LEMMA TypedStep == Typed /\ Exclusive /\ [Next]_vars => Typed'
<1> SUFFICES ASSUME Typed, Exclusive, [Next]_vars PROVE TypeOK' /\ Numbered'
    BY DEF Typed
<1> DEFINE Goal == TypeOK' /\ Numbered'
<1>t. TypeOK /\ Numbered
    BY DEF Typed
<1>n. /\ channel \in [Relays -> Channels] /\ redials \in [Relays -> Nat]
      /\ faults \in Nat
    BY <1>t DEF TypeOK
<1>1. CASE Store
    BY <1>1, <1>t DEF Store, network, TypeOK, Numbered
<1>2. ASSUME NEW p \in Relays, Select(p) PROVE Goal
    <2>1. PICK B \in SUBSET Free(p) : batch' = [batch EXCEPT ![p] = B]
        BY <1>2 DEF Select
    <2>2. B \in SUBSET (1..stored)
        BY <2>1 DEF Free
    <2> QED BY <1>2, <1>t, <2>1, <2>2 DEF Select, Goes, table, network, TypeOK, Numbered
<1>3. ASSUME NEW p \in Relays, Connect(p) PROVE Goal
    <2>1. Unsent(p) = {}
        BY <1>3 DEF Connect, Exclusive, Tidy
    <2>2. Replace(p, "open") /\ Undial(p)
        BY <1>3 DEF Connect
    <2>3. /\ link' \in [Relays -> {"none", "open", "closing", "dead"}]
          /\ spare' \in [Relays -> BOOLEAN] /\ channel' \in [Relays -> Channels]
          /\ \A q \in Relays : q # p => channel'[q] = channel[q]
          /\ channel'[p] = channel[p]
        BY <2>1, <2>2, ReplaceTyped
    <2>4. /\ redials' \in [Relays -> Nat] /\ redials'[p] <= redials[p]
          /\ \A q \in Relays : q # p => redials'[q] = redials[q]
        BY <1>t, <2>2, UndialTyped
    <2>5. faults' = faults
        BY <1>3 DEF Connect
    <2>6. channel'[p] + redials'[p] <= channel[p] + redials[p] + (faults' - faults)
        BY <1>n, <2>3, <2>4, <2>5
    <2>7. Numbered'
        BY <1>n, <2>3, <2>4, <2>5, <2>6, StillNumbered
    <2> QED BY <1>3, <1>t, <2>3, <2>4, <2>7 DEF Connect, Goes, table, TypeOK
<1>4. ASSUME NEW p \in Relays, ConnectFails(p) PROVE Goal
    <2>1. Unsent(p) = {} /\ Fault("drop")
        BY <1>4 DEF ConnectFails, Exclusive, Tidy
    <2>2. Replace(p, "dead") /\ Redial(p)
        BY <1>4 DEF ConnectFails
    <2>3. /\ link' \in [Relays -> {"none", "open", "closing", "dead"}]
          /\ spare' \in [Relays -> BOOLEAN] /\ channel' \in [Relays -> Channels]
          /\ \A q \in Relays : q # p => channel'[q] = channel[q]
          /\ channel'[p] = channel[p]
        BY <2>1, <2>2, ReplaceTyped
    <2>4. \A q \in Relays : channel'[q] = channel[q]
        BY <2>3
    <2>5. /\ redials' \in [Relays -> Nat] /\ shaken' \subseteq Relays
          /\ faults' \in 0..MaxFaults /\ Numbered'
        BY <2>1, <2>2, <2>3, <2>4, BreakTyped
    <2> QED BY <1>4, <1>t, <2>3, <2>5 DEF ConnectFails, Goes, Unlock, table, TypeOK
<1>5. ASSUME NEW p \in Relays, ConnectHangs(p) PROVE Goal
    <2>1. Redial(p) /\ Fault("drop")
        BY <1>5 DEF ConnectHangs
    <2>2. channel' = channel
        BY <1>5 DEF ConnectHangs
    <2>3. /\ redials' \in [Relays -> Nat] /\ shaken' \subseteq Relays
          /\ faults' \in 0..MaxFaults /\ Numbered'
        BY <1>n, <2>1, <2>2, BreakTyped
    <2> QED BY <1>5, <1>t, <2>3 DEF ConnectHangs, Goes, table, TypeOK
<1>6. ASSUME NEW p \in Relays, Publish(p) PROVE Goal
    BY <1>6, <1>t, WriteTyped DEF Publish, Goes, table, TypeOK, Numbered
<1>7. ASSUME NEW p \in Relays, PublishFull(p) PROVE Goal
    <2>1. Fault("full") /\ Write(p)
        BY <1>7 DEF PublishFull
    <2>2. Numbered'
        BY <1>7, <1>t, <2>1, FaultTyped DEF PublishFull, Numbered, TypeOK
    <2>3. faults' \in 0..MaxFaults /\ pipe' \in [Relays -> [Channels -> SUBSET (1..stored)]]
        BY <1>t, <2>1, FaultTyped, WriteTyped
    <2> QED BY <1>7, <1>t, <2>2, <2>3 DEF PublishFull, Goes, Unlock, table, TypeOK
<1>8. ASSUME NEW p \in Relays, PublishFails(p) \/ Mark(p) \/ Commit(p) PROVE Goal
    BY <1>8, <1>t DEF PublishFails, Mark, Commit, Abort, Goes, Unlock, table, network,
                      TypeOK, Numbered
<1>9. ASSUME NEW p \in Relays, UpdateFails(p) \/ CommitFails(p) PROVE Goal
    <2>1. Fault("dberror")
        BY <1>9 DEF UpdateFails, CommitFails
    <2>2. faults' = faults + 1 /\ faults' \in 0..MaxFaults
        BY <1>t, <2>1, FaultTyped
    <2>3. UNCHANGED <<stored, done, network, cut, copies>>
        BY <1>9 DEF UpdateFails, CommitFails, Abort, table
    <2>4. phase' \in [Relays -> Phases] /\ batch' \in [Relays -> SUBSET (1..stored)]
        BY <1>9, <1>t DEF UpdateFails, CommitFails, Abort, Goes, Unlock, TypeOK
    <2>5. Numbered'
        BY <1>t, <2>2, <2>3 DEF network, Numbered, TypeOK
    <2> QED BY <1>t, <2>2, <2>3, <2>4, <2>5 DEF network, TypeOK
<1>10. ASSUME NEW p \in Relays, AskClose(p) \/ Close(p) \/ CloseAborted(p) PROVE Goal
    BY <1>10, <1>t DEF AskClose, Close, CloseAborted, CloseChannel, Goes, table, TypeOK, Numbered
<1>11. ASSUME NEW p \in Relays, Receive(p) PROVE Goal
    BY <1>11, <1>t, ReceiveTyped DEF Receive, table, TypeOK, Numbered
<1>12. ASSUME NEW p \in Relays, Reconnect(p) PROVE Goal
    <2>1. redials[p] > 0 /\ redials' = [redials EXCEPT ![p] = @ - 1]
        BY <1>12 DEF Reconnect
    <2>2. redials' \in [Relays -> Nat]
        BY <1>t, <2>1 DEF TypeOK
    <2>3. CASE link[p] = "closing"
        <3>1. channel' = channel /\ faults' = faults /\ spare' = [spare EXCEPT ![p] = TRUE]
            BY <1>12, <2>3 DEF Reconnect
        <3>2. Numbered'
            BY <1>n, <1>t, <2>1, <2>2, <3>1 DEF Numbered
        <3> QED BY <1>12, <1>t, <2>2, <2>3, <3>1, <3>2 DEF Reconnect, table, TypeOK
    <2>4. CASE link[p] # "closing"
        <3>1. Replace(p, "open")
            BY <1>12, <2>4 DEF Reconnect
        <3>2. Numbered' /\ link' \in [Relays -> {"none", "open", "closing", "dead"}]
              /\ spare' \in [Relays -> BOOLEAN] /\ channel' \in [Relays -> Channels]
            BY <1>12, <1>t, <2>1, <3>1, ReplaceTyped DEF Reconnect, Numbered, TypeOK
        <3> QED BY <1>12, <1>t, <2>2, <3>2 DEF Reconnect, table, TypeOK
    <2> QED BY <2>3, <2>4
<1>13. ASSUME NEW p \in Relays, Drop(p) PROVE Goal
    <2>1. Fault("drop") /\ Redial(p) /\ Cut(p, channel[p]) /\ channel[p] \in Channels
        BY <1>13, <1>t DEF Drop, TypeOK
    <2>2. channel' = channel
        BY <1>13 DEF Drop
    <2>3. phase' \in [Relays -> Phases]
        BY <1>13, <1>t DEF Drop, Goes, TypeOK
    <2>4. link' \in [Relays -> {"none", "open", "closing", "dead"}]
        BY <1>13, <1>t DEF Drop, TypeOK
    <2>5. /\ redials' \in [Relays -> Nat] /\ shaken' \subseteq Relays
          /\ faults' \in 0..MaxFaults /\ Numbered'
        BY <1>n, <2>1, <2>2, BreakTyped
    <2>6. /\ pipe' \in [Relays -> [Channels -> SUBSET (1..stored)]]
          /\ cut' \subseteq 1..stored
        BY <1>t, <2>1, CutTyped
    <2> QED BY <1>13, <1>t, <2>3, <2>4, <2>5, <2>6 DEF Drop, table, TypeOK
<1>14. ASSUME NEW p \in Relays, DropSpare(p) PROVE Goal
    <2>1. PICK n \in Channels \ {channel[p]}, left \in BOOLEAN :
             spare' = [spare EXCEPT ![p] = left] /\ Cut(p, n)
        BY <1>14 DEF DropSpare
    <2>2. Fault("drop") /\ Redial(p)
        BY <1>14 DEF DropSpare
    <2>3. channel' = channel
        BY <1>14 DEF DropSpare
    <2>4. spare' \in [Relays -> BOOLEAN]
        BY <1>t, <2>1 DEF TypeOK
    <2>5. /\ redials' \in [Relays -> Nat] /\ shaken' \subseteq Relays
          /\ faults' \in 0..MaxFaults /\ Numbered'
        BY <1>n, <2>2, <2>3, BreakTyped
    <2>6. /\ pipe' \in [Relays -> [Channels -> SUBSET (1..stored)]]
          /\ cut' \subseteq 1..stored
        BY <1>t, <2>1, CutTyped
    <2> QED BY <1>14, <1>t, <2>3, <2>4, <2>5, <2>6 DEF DropSpare, table, TypeOK
<1>15. ASSUME NEW p \in Relays, Crash(p) PROVE Goal
    <2>1. Fault("crash") /\ 0 \in Channels
        BY <1>15 DEF Crash
    <2>2. channel' = [channel EXCEPT ![p] = 0] /\ redials' = [redials EXCEPT ![p] = 0]
        BY <1>15 DEF Crash
    <2>3. Numbered'
        BY <1>t, <2>1, <2>2, FaultTyped DEF Numbered, TypeOK
    <2>4. cut' \subseteq 1..stored
        <3>1. /\ cut' = cut \cup UNION {pipe[p][n] : n \in Channels}
              /\ cut \subseteq 1..stored
              /\ \A n \in Channels : pipe[p][n] \subseteq 1..stored
            BY <1>15, <1>t DEF Crash, TypeOK
        <3> QED BY <3>1, Zenon
    <2>5. pipe' \in [Relays -> [Channels -> SUBSET (1..stored)]]
        BY <1>15, <1>t DEF Crash, TypeOK
    <2>6. faults' \in 0..MaxFaults
        BY <1>t, <2>1, FaultTyped
    <2> QED BY <1>15, <1>t, <2>1, <2>3, <2>4, <2>5, <2>6
            DEF Crash, Goes, Unlock, table, TypeOK
<1>16. CASE UNCHANGED vars
    BY <1>16, <1>t DEF vars, table, network, TypeOK, Numbered
<1> QED BY <1>1, <1>2, <1>3, <1>4, <1>5, <1>6, <1>7, <1>8, <1>9, <1>10, <1>11, <1>12,
           <1>13, <1>14, <1>15, <1>16
        DEF Next, Work, Break

\* A step of one relay.
Moves(p) == Work(p) \/ Receive(p) \/ Reconnect(p) \/ Break(p)

\* It leaves everything of the others alone.
Untouched(q) ==
    /\ phase'[q] = phase[q]
    /\ batch'[q] = batch[q]
    /\ link'[q] = link[q]
    /\ channel'[q] = channel[q]
    /\ redials'[q] = redials[q]
    /\ pipe'[q] = pipe[q]
    /\ q \in shaken' <=> q \in shaken

LEMMA OthersUntouched ==
    ASSUME TypeOK, NEW p \in Relays, Moves(p), NEW q \in Relays, q # p
    PROVE  Untouched(q)
<1> USE DEF TypeOK, Untouched
<1>1. CASE Select(p)
    BY <1>1 DEF Select, Goes, network
<1>2. CASE Connect(p)
    BY <1>2 DEF Connect, Goes, Replace, Undial
<1>3. CASE ConnectFails(p)
    BY <1>3 DEF ConnectFails, Goes, Unlock, Replace, Redial
<1>4. CASE ConnectHangs(p)
    BY <1>4 DEF ConnectHangs, Goes, Redial
<1>5. CASE Publish(p)
    BY <1>5 DEF Publish, Goes, Write
<1>6. CASE PublishFull(p)
    BY <1>6 DEF PublishFull, Goes, Unlock, Write
<1>7. CASE PublishFails(p) \/ UpdateFails(p)
    BY <1>7 DEF PublishFails, UpdateFails, Abort, Goes, Unlock, network
<1>8. CASE Mark(p) \/ Commit(p) \/ CommitFails(p)
    BY <1>8 DEF Mark, Commit, CommitFails, Goes, Unlock, network
<1>9. CASE AskClose(p) \/ Close(p) \/ CloseAborted(p)
    BY <1>9 DEF AskClose, Close, CloseAborted, CloseChannel, Goes
<1>10. CASE Receive(p)
    BY <1>10 DEF Receive
<1>11. CASE Reconnect(p)
    BY <1>11 DEF Reconnect, Replace
<1>12. CASE Drop(p)
    BY <1>12 DEF Drop, Goes, Cut, Redial
<1>13. CASE DropSpare(p)
    BY <1>13 DEF DropSpare, Cut, Redial
<1>14. CASE Crash(p)
    BY <1>14 DEF Crash, Goes, Unlock
<1> QED BY <1>1, <1>2, <1>3, <1>4, <1>5, <1>6, <1>7, <1>8, <1>9, <1>10, <1>11, <1>12,
           <1>13, <1>14 DEF Moves, Work, Break

LEMMA ApartStep ==
    ASSUME TypeOK, Apart, NEW p \in Relays, Moves(p)
    PROVE  Apart'
<1> USE DEF TypeOK, Apart
<1>1. CASE Select(p)
    <2>1. PICK B \in SUBSET Free(p) : batch' = [batch EXCEPT ![p] = B]
        BY <1>1 DEF Select
    <2>2. B \cap done = {} /\ \A q \in Relays : q # p => B \cap batch[q] = {}
        BY <2>1 DEF Free
    <2> QED BY <1>1, <2>1, <2>2 DEF Select, table
<1>2. CASE Commit(p)
    BY <1>2 DEF Commit, Unlock
<1>3. ASSUME done' = done, \A q \in Relays : batch'[q] \subseteq batch[q] PROVE Apart'
    BY <1>3
<1>4. CASE ConnectFails(p) \/ PublishFull(p) \/ CommitFails(p) \/ Crash(p)
    BY <1>3, <1>4 DEF ConnectFails, PublishFull, CommitFails, Crash, Unlock, table
<1>5. CASE PublishFails(p) \/ UpdateFails(p)
    BY <1>3, <1>5 DEF PublishFails, UpdateFails, Abort, Unlock, table
<1>6. CASE Connect(p) \/ Publish(p) \/ Mark(p) \/ AskClose(p) \/ Close(p) \/ CloseAborted(p)
    BY <1>3, <1>6 DEF Connect, Publish, Mark, AskClose, Close, CloseAborted, table
<1>7. CASE Receive(p) \/ Reconnect(p) \/ ConnectHangs(p) \/ Drop(p) \/ DropSpare(p)
    BY <1>3, <1>7 DEF Receive, Reconnect, ConnectHangs, Drop, DropSpare, table
<1> QED BY <1>1, <1>2, <1>4, <1>5, <1>6, <1>7 DEF Moves, Work, Break

\* A channel that is replaced: the new one has nothing on it.
LEMMA ReplaceEmpties ==
    ASSUME Typed, NEW p \in Relays, Tidy(p), NEW state \in {"open", "dead"},
           Replace(p, state), Unsent(p) = {} \/ redials[p] > 0
    PROVE  /\ pipe[p][channel'[p]] = {}
           /\ \A n \in Channels : n > channel'[p] => pipe[p][n] = {}
           /\ link'[p] = state
<1>1. channel' \in [Relays -> Channels]
      /\ channel'[p] = IF Unsent(p) = {} THEN channel[p] ELSE channel[p] + 1
    BY ReplaceTyped
<1>2. channel[p] \in Nat /\ channel'[p] \in Channels /\ link'[p] = state
    BY <1>1 DEF Typed, TypeOK, Replace
<1>3. \A n \in Channels : n > channel[p] => pipe[p][n] = {}
    BY DEF Tidy
<1>4. CASE Unsent(p) = {}
    BY <1>1, <1>2, <1>3, <1>4 DEF Unsent
<1>5. CASE Unsent(p) # {}
    BY <1>1, <1>2, <1>3, <1>5
<1> QED BY <1>2, <1>4, <1>5

LEMMA TidyStep ==
    ASSUME Typed, NEW p \in Relays, Moves(p), Tidy(p)
    PROVE  Tidy(p)'
<1>t. TypeOK
    BY DEF Typed
<1> USE DEF Tidy, Unsent
<1>1. CASE Select(p)
    BY <1>1, <1>t DEF Select, Goes, network, TypeOK
<1>2. CASE Connect(p)
    <2>1. Unsent(p) = {} /\ Replace(p, "open")
        BY <1>2 DEF Connect
    <2>2. pipe[p][channel'[p]] = {} /\ link'[p] = "open"
          /\ \A n \in Channels : n > channel'[p] => pipe[p][n] = {}
        BY <2>1, ReplaceEmpties
    <2> QED BY <1>2, <1>t, <2>2 DEF Connect, Goes, TypeOK
<1>3. CASE ConnectFails(p)
    <2>1. Unsent(p) = {} /\ Replace(p, "dead")
        BY <1>3 DEF ConnectFails
    <2>2. pipe[p][channel'[p]] = {} /\ link'[p] = "dead"
          /\ \A n \in Channels : n > channel'[p] => pipe[p][n] = {}
        BY <2>1, ReplaceEmpties
    <2> QED BY <1>3, <1>t, <2>2 DEF ConnectFails, Goes, Unlock, TypeOK
<1>4. CASE ConnectHangs(p)
    BY <1>4, <1>t DEF ConnectHangs, Goes, TypeOK
<1>5. CASE Publish(p)
    <2>1. \A n \in Channels : pipe'[p][n] = IF n = channel[p] THEN pipe[p][n] \cup batch[p]
                                            ELSE pipe[p][n]
        BY <1>5, <1>t, WriteTyped DEF Publish
    <2>2. /\ channel'[p] = channel[p] /\ channel[p] \in Nat
          /\ phase'[p] = "written" /\ link'[p] = "open"
        BY <1>5, <1>t DEF Publish, Goes, TypeOK
    <2>3. \A n \in Channels : n > channel'[p] => pipe'[p][n] = {}
        BY <2>1, <2>2
    <2> QED BY <2>2, <2>3
<1>6. CASE PublishFull(p)
    <2>1. \A n \in Channels : pipe'[p][n] = IF n = channel[p] THEN pipe[p][n] \cup batch[p]
                                            ELSE pipe[p][n]
        BY <1>6, <1>t, WriteTyped DEF PublishFull
    <2>2. /\ channel'[p] = channel[p] /\ channel[p] \in Nat
          /\ phase'[p] = "aborted" /\ link'[p] = "open" /\ batch'[p] = {}
        BY <1>6, <1>t DEF PublishFull, Goes, Unlock, TypeOK
    <2>3. \A n \in Channels : n > channel'[p] => pipe'[p][n] = {}
        BY <2>1, <2>2
    <2> QED BY <2>2, <2>3
<1>7. CASE PublishFails(p) \/ UpdateFails(p)
    BY <1>7, <1>t DEF PublishFails, UpdateFails, Abort, Goes, Unlock, network, TypeOK
<1>8. CASE Mark(p) \/ Commit(p) \/ CommitFails(p)
    BY <1>8, <1>t DEF Mark, Commit, CommitFails, Goes, Unlock, network, TypeOK
<1>9. CASE AskClose(p)
    BY <1>9, <1>t DEF AskClose, TypeOK
<1>10. CASE Close(p) \/ CloseAborted(p)
    BY <1>10, <1>t DEF Close, CloseAborted, CloseChannel, Goes, TypeOK
<1>11. CASE Receive(p)
    <2>1. \A n \in Channels : pipe'[p][n] \subseteq pipe[p][n]
        BY <1>11, <1>t, ReceiveTyped
    <2> QED BY <1>11, <1>t, <2>1 DEF Receive, TypeOK
<1>12. CASE Reconnect(p)
    <2>1. CASE link[p] = "closing"
        BY <1>12, <1>t, <2>1 DEF Reconnect, TypeOK
    <2>2. CASE link[p] # "closing"
        <3>1. redials[p] > 0 /\ Replace(p, "open")
            BY <1>12, <2>2 DEF Reconnect
        <3>2. pipe[p][channel'[p]] = {} /\ link'[p] = "open"
              /\ \A n \in Channels : n > channel'[p] => pipe[p][n] = {}
            BY <3>1, ReplaceEmpties
        <3> QED BY <1>12, <1>t, <3>2 DEF Reconnect, TypeOK
    <2> QED BY <2>1, <2>2
<1>13. CASE Drop(p)
    <2>1. \A n \in Channels : pipe'[p][n] = IF n = channel[p] THEN {} ELSE pipe[p][n]
        BY <1>13, <1>t, CutTyped DEF Drop, TypeOK
    <2>2. pipe'[p][channel'[p]] = {} /\ link'[p] = "dead"
          /\ \A n \in Channels : n > channel'[p] => pipe'[p][n] = {}
        BY <1>13, <1>t, <2>1 DEF Drop, TypeOK
    <2>3. batch' = batch /\ (phase'[p] = phase[p] \/ phase'[p] = "hung")
        BY <1>13, <1>t DEF Drop, Goes, TypeOK
    <2> QED BY <2>2, <2>3
<1>14. CASE DropSpare(p)
    <2>1. \A n \in Channels : pipe'[p][n] \subseteq pipe[p][n]
        BY <1>14, <1>t, CutTyped DEF DropSpare
    <2> QED BY <1>14, <1>t, <2>1 DEF DropSpare, TypeOK
<1>15. CASE Crash(p)
    BY <1>15, <1>t DEF Crash, Goes, Unlock, TypeOK
<1> QED BY <1>1, <1>2, <1>3, <1>4, <1>5, <1>6, <1>7, <1>8, <1>9, <1>10, <1>11, <1>12,
           <1>13, <1>14, <1>15 DEF Moves, Work, Break

LEMMA ExclusiveStep == Typed /\ Exclusive /\ [Next]_vars => Exclusive'
<1> SUFFICES ASSUME Typed, Exclusive, [Next]_vars PROVE Exclusive'
    OBVIOUS
<1>t. TypeOK /\ Apart
    BY DEF Typed, Exclusive
<1>1. CASE Store
    BY <1>1 DEF Store, network, Exclusive, Apart, Tidy, Unsent
<1>2. CASE UNCHANGED vars
    BY <1>2 DEF vars, table, network, Exclusive, Apart, Tidy, Unsent
<1>3. ASSUME NEW p \in Relays, Moves(p) PROVE Exclusive'
    <2>1. ASSUME NEW q \in Relays PROVE Tidy(q)'
        <3>1. CASE q = p
            BY <1>3, <3>1, TidyStep DEF Exclusive
        <3>2. CASE q # p
            <4>1. Untouched(q)
                BY <1>3, <1>t, <3>2, OthersUntouched
            <4> QED BY <4>1 DEF Untouched, Exclusive, Tidy, Unsent
        <3> QED BY <3>1, <3>2
    <2>2. Apart'
        BY <1>3, <1>t, ApartStep
    <2> QED BY <2>1, <2>2 DEF Exclusive
<1> QED BY <1>1, <1>2, <1>3 DEF Next, Moves

-----------------------------------------------------------------------------
(* Copies *)

\* The channels on which row r is on its way.
Carriers(r) == {c \in Relays \X Channels : r \in pipe[c[1]][c[2]]}

\* The weight of a row: its copies at the broker and under way.
Weight(r) == copies[r] + Cardinality(Carriers(r))

\* The last publication of r has not failed, or the relay that has r hangs.
Sent(r) ==
    \/ r \in done
    \/ \E p \in Relays : r \in batch[p] /\ phase[p] \in {"written", "marked", "closed", "hung"}

\* Copies of r at the broker or on their way: one for each fault, and one more
\* if the last publication of r has not failed.
Accounted ==
    \A r \in Rows :
        /\ Weight(r) <= faults + 1
        /\ ~Sent(r) => Weight(r) <= faults

Shared == Typed /\ Exclusive /\ Accounted

LEMMA CarriersFinite ==
    ASSUME NEW r
    PROVE  IsFiniteSet(Carriers(r)) /\ Cardinality(Carriers(r)) \in Nat
<1>1. IsFiniteSet(Relays \X Channels)
    <2>1. IsFiniteSet(Channels)
        BY FS_Interval
    <2> QED BY <2>1, RelaysAssumption, FS_Product
<1>2. Carriers(r) \subseteq Relays \X Channels
    BY DEF Carriers
<1> QED BY <1>1, <1>2, FS_Subset, FS_CardinalityType

LEMMA CarriersFiniteNext ==
    ASSUME NEW r
    PROVE  IsFiniteSet(Carriers(r)') /\ Cardinality(Carriers(r)') \in Nat
<1>1. IsFiniteSet(Relays \X Channels)
    <2>1. IsFiniteSet(Channels)
        BY FS_Interval
    <2> QED BY <2>1, RelaysAssumption, FS_Product
<1>2. Carriers(r)' \subseteq Relays \X Channels
    BY DEF Carriers
<1> QED BY <1>1, <1>2, FS_Subset, FS_CardinalityType

LEMMA SharedInit == Init => Shared
<1> SUFFICES ASSUME Init PROVE Accounted
    BY TypedInit, ExclusiveInit DEF Shared
<1>1. ASSUME NEW r \in Rows PROVE Carriers(r) = {}
    BY DEF Init, Carriers
<1>2. \A r \in Rows : Cardinality(Carriers(r)) = 0
    BY <1>1, FS_EmptySet
<1> QED BY <1>2 DEF Init, Accounted, Weight

\* The channels that carry r, one after the other.
LEMMA CarriersDiffer ==
    ASSUME NEW r, NEW p \in Relays, NEW n \in Channels,
           \A q \in Relays, k \in Channels :
              q # p \/ k # n => (r \in pipe'[q][k] <=> r \in pipe[q][k])
    PROVE  /\ <<p, n>> \in Carriers(r) <=> r \in pipe[p][n]
           /\ r \in pipe'[p][n] => Carriers(r)' = Carriers(r) \cup {<<p, n>>}
           /\ r \notin pipe'[p][n] => Carriers(r)' = Carriers(r) \ {<<p, n>>}
<1>1. \A q \in Relays, k \in Channels : <<q, k>> \in Carriers(r) <=> r \in pipe[q][k]
    BY DEF Carriers
<1>2. \A q \in Relays, k \in Channels : <<q, k>> \in Carriers(r)' <=> r \in pipe'[q][k]
    BY DEF Carriers
<1>3. ASSUME NEW c \in Relays \X Channels, c # <<p, n>>
      PROVE  c \in Carriers(r)' <=> c \in Carriers(r)
    <2>1. PICK q \in Relays, k \in Channels : c = <<q, k>>
        OBVIOUS
    <2>2. q # p \/ k # n
        BY <1>3, <2>1
    <2> QED BY <1>1, <1>2, <2>1, <2>2
<1>4. Carriers(r) \subseteq Relays \X Channels /\ Carriers(r)' \subseteq Relays \X Channels
    BY DEF Carriers
<1>5. CASE r \in pipe'[p][n]
    <2>1. <<p, n>> \in Carriers(r)'
        BY <1>2, <1>5
    <2> QED BY <1>1, <1>3, <1>4, <1>5, <2>1, Zenon
<1>6. CASE r \notin pipe'[p][n]
    <2>1. <<p, n>> \notin Carriers(r)'
        BY <1>2, <1>6
    <2> QED BY <1>1, <1>3, <1>4, <1>6, <2>1, Zenon
<1> QED BY <1>5, <1>6

\* Writing a batch adds one to the weight of its rows.
LEMMA WeightPublish ==
    ASSUME TypeOK, NEW p \in Relays, Unsent(p) = {}, Write(p), copies' = copies,
           NEW r \in Rows
    PROVE  Weight(r)' = IF r \in batch[p] THEN Weight(r) + 1 ELSE Weight(r)
<1>1. \A q \in Relays, n \in Channels :
          pipe'[q][n] = IF q = p /\ n = channel[p] THEN pipe[q][n] \cup batch[p]
                        ELSE pipe[q][n]
    BY WriteTyped
<1>2. channel[p] \in Channels /\ pipe[p][channel[p]] = {}
    BY DEF TypeOK, Unsent
<1>3. <<p, channel[p]>> \notin Carriers(r)
    BY <1>2 DEF Carriers
<1>4. CASE r \in batch[p]
    <2>1. /\ r \in pipe'[p][channel[p]]
          /\ \A q \in Relays, n \in Channels :
                q # p \/ n # channel[p] => (r \in pipe'[q][n] <=> r \in pipe[q][n])
        BY <1>1, <1>2, <1>4
    <2>2. Carriers(r)' = Carriers(r) \cup {<<p, channel[p]>>}
        BY <1>2, <2>1, CarriersDiffer
    <2>3. Cardinality(Carriers(r)') = Cardinality(Carriers(r)) + 1
        BY <1>3, <2>2, CarriersFinite, FS_AddElement
    <2> QED BY <1>4, <2>3, CarriersFinite DEF Weight, TypeOK
<1>5. CASE r \notin batch[p]
    <2>1. \A q \in Relays, n \in Channels : r \in pipe'[q][n] <=> r \in pipe[q][n]
        BY <1>1, <1>5
    <2>2. Carriers(r)' = Carriers(r)
        BY <2>1 DEF Carriers
    <2> QED BY <1>5, <2>2 DEF Weight
<1> QED BY <1>4, <1>5

\* A message the broker takes keeps its weight.
LEMMA WeightReceive ==
    ASSUME TypeOK, NEW p \in Relays, Receive(p), NEW r \in Rows
    PROVE  Weight(r)' = Weight(r)
<1>1. PICK n \in Channels : \E s \in pipe[p][n] :
          /\ s \in Rows
          /\ \A q \in Relays, k \in Channels :
                pipe'[q][k] = IF q = p /\ k = n THEN pipe[q][k] \ {s} ELSE pipe[q][k]
          /\ \A t \in Rows : copies'[t] = IF t = s THEN copies[t] + 1 ELSE copies[t]
    BY ReceiveTyped
<1>2. PICK s \in pipe[p][n] :
          /\ s \in Rows
          /\ \A q \in Relays, k \in Channels :
                pipe'[q][k] = IF q = p /\ k = n THEN pipe[q][k] \ {s} ELSE pipe[q][k]
          /\ \A t \in Rows : copies'[t] = IF t = s THEN copies[t] + 1 ELSE copies[t]
    BY <1>1
<1>3. CASE r = s
    <2>1. <<p, n>> \in Carriers(r) /\ Carriers(r)' = Carriers(r) \ {<<p, n>>}
        <3>1. /\ r \in pipe[p][n] /\ r \notin pipe'[p][n]
              /\ \A q \in Relays, k \in Channels :
                    q # p \/ k # n => (r \in pipe'[q][k] <=> r \in pipe[q][k])
            BY <1>2, <1>3
        <3> QED BY <3>1, CarriersDiffer
    <2>2. Cardinality(Carriers(r)') = Cardinality(Carriers(r)) - 1
        BY <2>1, CarriersFinite, FS_RemoveElement
    <2>3. copies'[r] = copies[r] + 1 /\ copies[r] \in Nat
        BY <1>2, <1>3 DEF TypeOK
    <2> QED BY <2>2, <2>3, CarriersFinite DEF Weight
<1>4. CASE r # s
    <2>1. \A q \in Relays, k \in Channels : r \in pipe'[q][k] <=> r \in pipe[q][k]
        BY <1>2, <1>4
    <2>2. Carriers(r)' = Carriers(r)
        BY <2>1 DEF Carriers
    <2> QED BY <1>2, <1>4, <2>2 DEF Weight
<1> QED BY <1>3, <1>4

\* Emptying a channel loses weight, if anything.
LEMMA WeightEmptied ==
    ASSUME TypeOK, copies' = copies, NEW r \in Rows,
           \A q \in Relays, n \in Channels : pipe'[q][n] \subseteq pipe[q][n]
    PROVE  Weight(r)' <= Weight(r)
<1>1. Carriers(r)' \subseteq Carriers(r)
    BY DEF Carriers
<1>2. Cardinality(Carriers(r)') <= Cardinality(Carriers(r))
    BY <1>1, CarriersFinite, FS_Subset
<1>3. copies[r] \in Nat
    BY DEF TypeOK
<1> QED BY <1>2, <1>3, CarriersFinite, CarriersFiniteNext DEF Weight

LEMMA WeightType ==
    ASSUME TypeOK, NEW r \in Rows
    PROVE  Weight(r) \in Nat
BY CarriersFinite DEF TypeOK, Weight

\* A step that sends nothing more and takes back no publication.
LEMMA Steady ==
    ASSUME TypeOK, TypeOK', Accounted, NEW r \in Rows,
           Weight(r)' <= Weight(r), Weight(r)' \in Nat,
           faults' >= faults, (Sent(r) => Sent(r)') \/ faults' = faults + 1
    PROVE  Weight(r)' <= faults' + 1 /\ (~Sent(r)' => Weight(r)' <= faults')
<1>1. Weight(r) \in Nat /\ faults \in Nat /\ faults' \in Nat
    BY WeightType DEF TypeOK
<1>2. Weight(r) <= faults + 1 /\ (~Sent(r) => Weight(r) <= faults)
    BY DEF Accounted
<1>3. CASE faults' = faults + 1
    BY <1>1, <1>2, <1>3
<1>4. CASE Sent(r) => Sent(r)'
    <2>1. CASE Sent(r)
        BY <1>1, <1>2, <1>4, <2>1
    <2>2. CASE ~Sent(r)
        BY <1>1, <1>2, <2>2
    <2> QED BY <2>1, <2>2
<1> QED BY <1>3, <1>4

\* A batch about to be written has no publication that has not failed.
LEMMA NotYetSent ==
    ASSUME TypeOK, Apart, Accounted, NEW p \in Relays,
           phase[p] = "connected", NEW r \in batch[p]
    PROVE  Weight(r) <= faults
<1>1. ~Sent(r)
    BY DEF Sent, Apart
<1> QED BY <1>1 DEF Accounted, TypeOK

LEMMA AccountedStep ==
    Typed /\ Typed' /\ Exclusive /\ Accounted /\ [Next]_vars => Accounted'
<1> SUFFICES ASSUME Typed, Typed', Exclusive, Accounted, [Next]_vars,
                    NEW r \in Rows
             PROVE  Weight(r)' <= faults' + 1 /\ (~Sent(r)' => Weight(r)' <= faults')
    BY DEF Accounted
<1> DEFINE Goal == Weight(r)' <= faults' + 1 /\ (~Sent(r)' => Weight(r)' <= faults')
<1>t. TypeOK /\ TypeOK' /\ Apart
    BY DEF Typed, Exclusive
<1>w. Weight(r) \in Nat /\ Weight(r)' \in Nat /\ faults \in Nat /\ faults' \in Nat
    <2>1. copies'[r] \in Nat /\ faults \in Nat /\ faults' \in Nat
        BY <1>t DEF TypeOK
    <2>2. Weight(r)' \in Nat
        BY <2>1, CarriersFiniteNext DEF Weight
    <2> QED BY <1>t, <2>1, <2>2, WeightType
<1>s. ASSUME UNCHANGED <<pipe, copies>> PROVE Weight(r)' = Weight(r)
    BY <1>s DEF Weight, Carriers
\* What takes back no publication leaves the relays alone that have one.
<1>k. ASSUME done \subseteq done',
             \A q \in Relays : phase[q] \in {"written", "marked", "closed", "hung"} =>
                \/ phase'[q] \in {"written", "marked", "closed", "hung"} /\ batch'[q] = batch[q]
                \/ batch[q] \subseteq done'
      PROVE  Sent(r) => Sent(r)'
    BY <1>k DEF Sent
<1>1. CASE Store
    <2>1. Weight(r)' = Weight(r) /\ faults' = faults
        BY <1>1, <1>s DEF Store, network
    <2>2. Sent(r) => Sent(r)'
        BY <1>1 DEF Store, Sent
    <2> QED BY <1>t, <1>w, <2>1, <2>2, Steady
<1>2. ASSUME NEW p \in Relays,
             \/ Select(p) \/ Connect(p) \/ PublishFails(p) \/ Mark(p) \/ AskClose(p)
             \/ Close(p) \/ CloseAborted(p) \/ Reconnect(p)
      PROVE  Goal
    <2>1. UNCHANGED <<pipe, copies>> /\ faults' = faults
        BY <1>2 DEF Select, Connect, PublishFails, Abort, Mark, AskClose, Close,
                    CloseAborted, CloseChannel, Reconnect, network
    <2>2. /\ done' = done
          /\ \A q \in Relays : phase[q] \in {"written", "marked", "closed", "hung"} =>
                phase'[q] \in {"written", "marked", "closed", "hung"} /\ batch'[q] = batch[q]
        <3>1. CASE Reconnect(p) \/ AskClose(p) \/ CloseAborted(p)
            BY <1>t, <3>1 DEF Reconnect, AskClose, CloseAborted, Goes, table, TypeOK
        <3>2. CASE Select(p) \/ PublishFails(p)
            BY <1>t, <3>2 DEF Select, PublishFails, Abort, Goes, Unlock, table, TypeOK
        <3>3. CASE Connect(p) \/ Mark(p) \/ Close(p)
            BY <1>t, <3>3 DEF Connect, Mark, Close, Goes, table, TypeOK
        <3> QED BY <1>2, <3>1, <3>2, <3>3
    <2>3. Sent(r) => Sent(r)'
        BY <1>k, <2>2
    <2>4. Weight(r)' = Weight(r)
        BY <1>s, <2>1
    <2> QED BY <1>t, <1>w, <2>1, <2>3, <2>4, Steady
<1>3. ASSUME NEW p \in Relays, Publish(p) PROVE Goal
    <2>1. phase[p] = "connected" /\ Unsent(p) = {} /\ Write(p) /\ UNCHANGED <<copies, faults>>
        BY <1>3 DEF Publish, Exclusive, Tidy
    <2>2. Weight(r)' = IF r \in batch[p] THEN Weight(r) + 1 ELSE Weight(r)
        BY <1>t, <2>1, WeightPublish
    <2>3. CASE r \in batch[p]
        <3>1. Weight(r) <= faults
            BY <1>t, <2>1, <2>3, NotYetSent
        <3>2. Sent(r)'
            BY <1>3, <1>t, <2>3 DEF Publish, Goes, Sent, TypeOK
        <3> QED BY <1>w, <2>1, <2>2, <2>3, <3>1, <3>2
    <2>4. CASE r \notin batch[p]
        <3>1. Sent(r) => Sent(r)'
            BY <1>3, <1>t DEF Publish, Goes, table, Sent, TypeOK
        <3> QED BY <1>t, <1>w, <2>1, <2>2, <2>4, <3>1, Steady
    <2> QED BY <2>3, <2>4
<1>4. ASSUME NEW p \in Relays, PublishFull(p) PROVE Goal
    <2>1. /\ phase[p] = "connected" /\ Unsent(p) = {} /\ Write(p) /\ copies' = copies
          /\ faults' = faults + 1
        BY <1>4 DEF PublishFull, Fault, Exclusive, Tidy
    <2>2. Weight(r)' = IF r \in batch[p] THEN Weight(r) + 1 ELSE Weight(r)
        BY <1>t, <2>1, WeightPublish
    <2>3. CASE r \in batch[p]
        <3>1. Weight(r) <= faults
            BY <1>t, <2>1, <2>3, NotYetSent
        <3> QED BY <1>w, <2>1, <2>2, <2>3, <3>1
    <2>4. CASE r \notin batch[p]
        BY <1>t, <1>w, <2>1, <2>2, <2>4, Steady
    <2> QED BY <2>3, <2>4
<1>5. ASSUME NEW p \in Relays,
             \/ ConnectFails(p) \/ ConnectHangs(p) \/ UpdateFails(p) \/ CommitFails(p)
             \/ Drop(p) \/ DropSpare(p) \/ Crash(p)
      PROVE  Goal
    <2>1. faults' = faults + 1 /\ copies' = copies
        BY <1>5 DEF ConnectFails, ConnectHangs, UpdateFails, CommitFails, Abort, Drop,
                    DropSpare, Crash, Fault
    <2>2. \A q \in Relays, n \in Channels : pipe'[q][n] \subseteq pipe[q][n]
        <3>1. CASE Drop(p)
            BY <1>t, <3>1, CutTyped DEF Drop, TypeOK
        <3>2. CASE DropSpare(p)
            BY <1>t, <3>2, CutTyped DEF DropSpare
        <3>3. CASE Crash(p)
            BY <1>t, <3>3 DEF Crash, TypeOK
        <3>4. CASE ConnectFails(p) \/ ConnectHangs(p) \/ UpdateFails(p) \/ CommitFails(p)
            BY <3>4 DEF ConnectFails, ConnectHangs, UpdateFails, CommitFails, Abort, network
        <3> QED BY <1>5, <3>1, <3>2, <3>3, <3>4
    <2>3. Weight(r)' <= Weight(r)
        BY <1>t, <2>1, <2>2, WeightEmptied
    <2> QED BY <1>t, <1>w, <2>1, <2>3, Steady
<1>6. ASSUME NEW p \in Relays, Commit(p) PROVE Goal
    <2>1. UNCHANGED <<pipe, copies>> /\ faults' = faults
        BY <1>6 DEF Commit, network
    <2>2. /\ done \subseteq done' /\ batch[p] \subseteq done'
          /\ \A q \in Relays : q # p => phase'[q] = phase[q] /\ batch'[q] = batch[q]
        BY <1>6, <1>t DEF Commit, Goes, Unlock, TypeOK
    <2>3. Sent(r) => Sent(r)'
        BY <1>k, <2>2
    <2>4. Weight(r)' = Weight(r)
        BY <1>s, <2>1
    <2> QED BY <1>t, <1>w, <2>1, <2>3, <2>4, Steady
<1>7. ASSUME NEW p \in Relays, Receive(p) PROVE Goal
    <2>1. Weight(r)' = Weight(r) /\ faults' = faults
        BY <1>7, <1>t, WeightReceive DEF Receive
    <2>2. Sent(r) => Sent(r)'
        BY <1>7 DEF Receive, table, Sent
    <2> QED BY <1>t, <1>w, <2>1, <2>2, Steady
<1>8. CASE UNCHANGED vars
    <2>1. Weight(r)' = Weight(r) /\ faults' = faults
        BY <1>8, <1>s DEF vars, network
    <2>2. Sent(r) => Sent(r)'
        BY <1>8 DEF vars, table, Sent
    <2> QED BY <1>t, <1>w, <2>1, <2>2, Steady
<1> QED BY <1>1, <1>2, <1>3, <1>4, <1>5, <1>6, <1>7, <1>8
        DEF Next, Work, Break

LEMMA SharedStep == Shared /\ [Next]_vars => Shared'
BY TypedStep, ExclusiveStep, AccountedStep DEF Shared

\* The types of the variables hold in every state, and a relay has channels
\* enough for all its reconnects.
THEOREM TypeCorrect == Spec => []TypeOK
<1>1. Shared => TypeOK
    BY DEF Shared, Typed
<1> QED BY <1>1, SharedInit, SharedStep, PTL DEF Spec

\* Whatever fails and however many relays there are, a row reaches the broker
\* at most once more than there were faults: SKIP LOCKED shares the rows out
\* and a batch is published again only when its dispatch failed.
THEOREM FewCopies == Spec => []CopiesHaveCause
<1>1. Shared => CopiesHaveCause
    <2> SUFFICES ASSUME Shared, NEW r \in Rows PROVE copies[r] <= 1 + faults
        BY DEF CopiesHaveCause
    <2> USE DEF Shared, Typed, TypeOK
    <2>1. Weight(r) <= faults + 1
        BY DEF Accounted
    <2>2. copies[r] <= Weight(r)
        BY CarriersFinite DEF Weight
    <2> QED BY <2>1, <2>2, CarriersFinite DEF Weight
<1> QED BY <1>1, SharedInit, SharedStep, PTL DEF Spec

-----------------------------------------------------------------------------
(* Losses *)

\* What a sent row can have come to.
Somewhere(r) == copies[r] > 0 \/ r \in cut \/ r \in Underway

\* What a relay's phase says about the rows of its batch, and how much more it
\* says as long as the relay's connections have held.
Sure(p) ==
    /\ phase[p] \in {"written", "marked", "closed"} => \A r \in batch[p] : Somewhere(r)
    /\ p \notin shaken =>
          /\ redials[p] = 0
          /\ phase[p] \in {"written", "marked"}
                => \A r \in batch[p] : r \in Unsent(p) \/ copies[r] > 0
          /\ phase[p] = "closed" => \A r \in batch[p] : copies[r] > 0

Progress == \A p \in Relays : Sure(p)

Kept == Typed /\ Exclusive /\ Progress

LEMMA KeptInit == Init => Kept
<1> SUFFICES ASSUME Init PROVE Progress
    BY TypedInit, ExclusiveInit DEF Kept
<1> QED BY DEF Init, Progress, Sure

LEMMA UnderwayIs ==
    ASSUME NEW r
    PROVE  /\ r \in Underway <=> \E q \in Relays, n \in Channels : r \in pipe[q][n]
           /\ r \in Underway' <=> \E q \in Relays, n \in Channels : r \in pipe'[q][n]
BY DEF Underway

\* What a relay's steps do with the rows on their way: nothing, or one of these.
Nothing == UNCHANGED <<pipe, cut, copies>>

Lost(p, n) == Cut(p, n) /\ UNCHANGED copies

Effect(p) ==
    \/ Nothing
    \/ Write(p) /\ UNCHANGED <<cut, copies>>
    \/ Receive(p)
    \/ \E n \in Channels : Lost(p, n)
    \/ Crash(p)

LEMMA Effects == ASSUME TypeOK, NEW p \in Relays, Moves(p) PROVE Effect(p)
<1> USE DEF Effect
<1>1. CASE Publish(p) \/ PublishFull(p)
    BY <1>1 DEF Publish, PublishFull
<1>2. CASE Drop(p)
    BY <1>2 DEF Drop, Lost, TypeOK
<1>3. CASE DropSpare(p)
    BY <1>3 DEF DropSpare, Lost
<1>4. CASE Select(p) \/ Connect(p) \/ PublishFails(p) \/ Mark(p) \/ AskClose(p) \/ Close(p)
           \/ Commit(p) \/ CloseAborted(p)
    BY <1>4 DEF Select, Connect, PublishFails, Abort, Mark, AskClose, Close, Commit,
                CloseAborted, CloseChannel, network, Nothing
<1>5. CASE Reconnect(p) \/ ConnectFails(p) \/ ConnectHangs(p) \/ UpdateFails(p) \/ CommitFails(p)
    BY <1>5 DEF Reconnect, ConnectFails, ConnectHangs, UpdateFails, CommitFails, Abort,
                network, Nothing
<1> QED BY <1>1, <1>2, <1>3, <1>4, <1>5 DEF Moves, Work, Break

\* A copy that the broker has stays there.
LEMMA DeliveredStays ==
    ASSUME TypeOK, NEW p \in Relays, Effect(p), NEW r \in Rows, copies[r] > 0
    PROVE  copies'[r] > 0
<1>1. CASE Receive(p)
    <2>1. copies'[r] = copies[r] \/ copies'[r] = copies[r] + 1
        BY <1>1, ReceiveTyped
    <2> QED BY <2>1 DEF TypeOK
<1>2. CASE ~Receive(p)
    <2>1. copies' = copies
        BY <1>2 DEF Effect, Nothing, Lost, Crash
    <2> QED BY <2>1
<1> QED BY <1>1, <1>2

\* A row that was sent is not forgotten: it arrives, or is cut off on record.
LEMMA SomewhereStays ==
    ASSUME TypeOK, NEW p \in Relays, Effect(p), NEW r \in Rows, Somewhere(r)
    PROVE  Somewhere(r)'
<1>1. CASE copies[r] > 0
    BY <1>1, DeliveredStays DEF Somewhere
<1>2. CASE r \in cut
    <2>1. cut \subseteq cut'
        BY DEF Effect, Nothing, Receive, Lost, Cut, Crash
    <2> QED BY <1>2, <2>1 DEF Somewhere
<1>3. CASE r \in Underway
    <2>1. PICK q \in Relays, n \in Channels : r \in pipe[q][n]
        BY <1>3, UnderwayIs
    <2>2. CASE Nothing
        BY <2>1, <2>2, UnderwayIs DEF Nothing, Somewhere
    <2>3. CASE Write(p)
        <3>1. r \in pipe'[q][n]
            BY <2>1, <2>3, WriteTyped
        <3> QED BY <3>1, UnderwayIs DEF Somewhere
    <2>4. CASE Receive(p)
        <3>1. r \in pipe'[q][n] \/ copies'[r] = copies[r] + 1
            BY <2>1, <2>4, ReceiveTyped
        <3> QED BY <3>1, UnderwayIs DEF Somewhere, TypeOK
    <2>5. ASSUME NEW k \in Channels, Lost(p, k) PROVE Somewhere(r)'
        <3>1. r \in pipe'[q][n] \/ r \in cut'
            BY <2>1, <2>5, CutTyped DEF Lost
        <3> QED BY <3>1, UnderwayIs DEF Somewhere
    <2>6. CASE Crash(p)
        <3>1. CASE q = p
            <4>1. r \in cut'
                BY <2>1, <2>6, <3>1 DEF Crash
            <4> QED BY <4>1 DEF Somewhere
        <3>2. CASE q # p
            <4>1. r \in pipe'[q][n]
                BY <2>1, <2>6, <3>2 DEF Crash, TypeOK
            <4> QED BY <4>1, UnderwayIs DEF Somewhere
        <3> QED BY <3>1, <3>2
    <2> QED BY <2>2, <2>3, <2>4, <2>5, <2>6 DEF Effect
<1> QED BY <1>1, <1>2, <1>3 DEF Somewhere

LEMMA SureElsewhere ==
    ASSUME TypeOK, NEW p \in Relays, Effect(p), NEW q \in Relays, Untouched(q), Sure(q)
    PROVE  Sure(q)'
<1>1. batch[q] \subseteq Rows
    BY DEF TypeOK
<1>2. \A r \in batch[q] : /\ Somewhere(r) => Somewhere(r)'
                          /\ copies[r] > 0 => copies'[r] > 0
    BY <1>1, SomewhereStays, DeliveredStays
<1>3. Unsent(q)' = Unsent(q)
    BY DEF Untouched, Unsent
<1>4. ASSUME phase[q] \in {"written", "marked", "closed"}, NEW r \in batch[q]
      PROVE  Somewhere(r)'
    BY <1>2, <1>4 DEF Sure
<1> QED BY <1>2, <1>3, <1>4 DEF Untouched, Sure

\* The phases in which a relay has not written its batch, or has ended its round.
LEMMA SureBetween ==
    ASSUME NEW p \in Relays, phase'[p] \notin {"written", "marked", "closed"},
           p \in shaken' \/ redials'[p] = 0
    PROVE  Sure(p)'
BY DEF Sure

LEMMA SureStep ==
    ASSUME Typed, NEW p \in Relays, Moves(p), Tidy(p), Sure(p)
    PROVE  Sure(p)'
<1>t. TypeOK
    BY DEF Typed
<1>e. /\ batch[p] \subseteq Rows
      /\ \A r \in batch[p] : /\ Somewhere(r) => Somewhere(r)'
                             /\ copies[r] > 0 => copies'[r] > 0
    <2>1. batch[p] \subseteq Rows
        BY <1>t DEF TypeOK
    <2>2. Effect(p)
        BY <1>t, Effects
    <2> QED BY <1>t, <2>1, <2>2, SomewhereStays, DeliveredStays
<1>u. p \in shaken \/ redials[p] = 0
    BY DEF Sure
<1>1. CASE Select(p) \/ PublishFails(p) \/ UpdateFails(p) \/ CommitFails(p) \/ Commit(p)
    <2>1. phase'[p] \notin {"written", "marked", "closed"}
        BY <1>1, <1>t DEF Select, PublishFails, UpdateFails, CommitFails, Commit, Abort, Goes,
                          TypeOK
    <2>2. shaken' = shaken /\ redials' = redials
        BY <1>1 DEF Select, PublishFails, UpdateFails, CommitFails, Commit, Abort, network
    <2> QED BY <1>u, <2>1, <2>2, SureBetween
<1>2. CASE CloseAborted(p) \/ PublishFull(p)
    <2>1. phase'[p] \notin {"written", "marked", "closed"}
        BY <1>2, <1>t DEF CloseAborted, PublishFull, Goes, TypeOK
    <2>2. shaken' = shaken /\ redials' = redials
        BY <1>2 DEF CloseAborted, CloseChannel, PublishFull
    <2> QED BY <1>u, <2>1, <2>2, SureBetween
<1>3. CASE Connect(p)
    <2>1. phase'[p] = "connected" /\ shaken' = shaken /\ Undial(p)
        BY <1>3, <1>t DEF Connect, Goes, TypeOK
    <2>2. redials[p] = 0 => redials'[p] = 0
        BY <2>1 DEF Undial
    <2> QED BY <1>u, <2>1, <2>2, SureBetween
<1>4. CASE ConnectFails(p) \/ ConnectHangs(p)
    <2>1. phase'[p] \in {"idle", "hung"} /\ p \in shaken'
        BY <1>4, <1>t DEF ConnectFails, ConnectHangs, Goes, Redial, TypeOK
    <2> QED BY <2>1, SureBetween
<1>5. CASE Crash(p)
    <2>1. phase'[p] = "idle" /\ redials'[p] = 0
        BY <1>5, <1>t DEF Crash, Goes, TypeOK
    <2> QED BY <2>1, SureBetween
<1>6. CASE Publish(p)
    <2>1. \A r \in batch[p] : r \in pipe'[p][channel[p]]
        BY <1>6, <1>t, WriteTyped DEF Publish, TypeOK
    <2>2. /\ phase'[p] = "written" /\ batch' = batch /\ channel' = channel
          /\ shaken' = shaken /\ redials' = redials /\ channel[p] \in Channels
        BY <1>6, <1>t DEF Publish, Goes, TypeOK
    <2>3. \A r \in batch[p] : Somewhere(r)'
        BY <2>1, <2>2, UnderwayIs DEF Somewhere
    <2>4. \A r \in batch'[p] : r \in Unsent(p)'
        BY <2>1, <2>2 DEF Unsent
    <2> QED BY <1>u, <2>2, <2>3, <2>4 DEF Sure
<1>7. CASE Mark(p) \/ AskClose(p)
    <2>1. \/ phase'[p] = phase[p]
          \/ phase[p] = "written" /\ phase'[p] = "marked"
        BY <1>7, <1>t DEF Mark, AskClose, Goes, TypeOK
    <2>2. UNCHANGED <<batch, shaken, redials, channel, pipe, copies>>
        BY <1>7 DEF Mark, AskClose, network
    <2> QED BY <1>e, <2>1, <2>2 DEF Sure, Unsent
<1>8. CASE Close(p)
    <2>1. /\ phase[p] = "marked" /\ phase'[p] = "closed" /\ CloseChannel(p)
          /\ batch' = batch /\ copies' = copies
        BY <1>8, <1>t DEF Close, Goes, TypeOK
    <2>2. shaken' = shaken /\ redials' = redials
        BY <2>1 DEF CloseChannel
    <2>3. Unsent(p) = {}
        BY <1>t, <2>1 DEF CloseChannel, Tidy, TypeOK
    <2>4. \A r \in batch[p] : Somewhere(r)'
        BY <1>e, <2>1 DEF Sure
    <2>5. p \notin shaken => \A r \in batch[p] : copies[r] > 0
        BY <2>1, <2>3 DEF Sure
    <2> QED BY <1>u, <2>1, <2>2, <2>4, <2>5 DEF Sure
<1>9. CASE Receive(p)
    <2>1. UNCHANGED <<phase, batch, channel, shaken, redials>>
        BY <1>9 DEF Receive
    <2>2. ASSUME NEW r \in batch[p], r \in Unsent(p) PROVE r \in Unsent(p)' \/ copies'[r] > 0
        <3>1. channel[p] \in Channels /\ r \in Rows /\ copies[r] \in Nat
            BY <1>e, <1>t DEF TypeOK
        <3>2. r \in pipe'[p][channel[p]] \/ copies'[r] = copies[r] + 1
            BY <1>9, <1>t, <2>2, <3>1, ReceiveTyped DEF Unsent
        <3> QED BY <2>1, <3>1, <3>2 DEF Unsent
    <2> QED BY <1>e, <2>1, <2>2 DEF Sure
<1>10. CASE Reconnect(p)
    <2>1. redials[p] > 0 /\ UNCHANGED <<phase, batch, shaken>>
        BY <1>10 DEF Reconnect
    <2>2. p \in shaken'
        BY <1>t, <2>1 DEF Sure, TypeOK
    <2> QED BY <1>e, <2>1, <2>2 DEF Sure
<1>11. CASE Drop(p) \/ DropSpare(p)
    <2>1. p \in shaken' /\ batch' = batch /\ (phase'[p] = phase[p] \/ phase'[p] = "hung")
        BY <1>11, <1>t DEF Drop, DropSpare, Goes, Redial, TypeOK
    <2> QED BY <1>e, <2>1 DEF Sure
<1> QED BY <1>1, <1>2, <1>3, <1>4, <1>5, <1>6, <1>7, <1>8, <1>9, <1>10, <1>11
        DEF Moves, Work, Break

LEMMA KeptStep == Kept /\ [Next]_vars => Kept'
<1> SUFFICES ASSUME Kept, [Next]_vars PROVE Progress'
    BY TypedStep, ExclusiveStep DEF Kept
<1>t. Typed /\ TypeOK /\ \A p \in Relays : Tidy(p) /\ Sure(p)
    BY DEF Kept, Typed, Exclusive, Progress
<1>1. CASE UNCHANGED vars
    BY <1>t, <1>1 DEF vars, table, network, Progress, Sure, Somewhere, Underway, Unsent
<1>2. CASE Store
    BY <1>t, <1>2 DEF Store, network, Progress, Sure, Somewhere, Underway, Unsent
<1>3. ASSUME NEW p \in Relays, Moves(p) PROVE Progress'
    <2>1. ASSUME NEW q \in Relays, q # p PROVE Sure(q)'
        <3>1. Untouched(q)
            BY <1>3, <1>t, <2>1, OthersUntouched
        <3>2. Effect(p)
            BY <1>3, <1>t, Effects
        <3> QED BY <1>t, <3>1, <3>2, SureElsewhere
    <2>2. Sure(p)'
        BY <1>3, <1>t, SureStep
    <2> QED BY <2>1, <2>2 DEF Progress
<1> QED BY <1>1, <1>2, <1>3 DEF Next, Moves

\* As long as connections stay up, every row that is done has reached the
\* broker: closing the channel is as good as a confirm.
THEOREM ConnectedLosesNothing == "drop" \notin Faults => (Spec => []NothingLost)
<1> SUFFICES ASSUME "drop" \notin Faults PROVE Spec => []NothingLost
    OBVIOUS
<1> DEFINE Whole == Kept /\ shaken = {} /\ NothingLost
<1>1. Init => Whole
    BY KeptInit DEF Init, NothingLost
<1>2. Whole /\ [Next]_vars => Whole'
    <2> SUFFICES ASSUME Kept, shaken = {}, NothingLost, [Next]_vars
                 PROVE  shaken' = {} /\ NothingLost'
        BY KeptStep
    <2>t. TypeOK /\ Progress
        BY DEF Kept, Typed
    <2>1. CASE Store
        BY <2>1 DEF Store, network, NothingLost
    <2>2. CASE UNCHANGED vars
        BY <2>2 DEF vars, table, network, NothingLost
    <2>3. ASSUME NEW p \in Relays, Commit(p) PROVE shaken' = {} /\ NothingLost'
        <3>1. UNCHANGED <<shaken, copies>> /\ done' = done \cup batch[p] /\ phase[p] = "closed"
            BY <2>3 DEF Commit, network
        <3>2. \A r \in batch[p] : copies[r] > 0
            BY <2>t, <3>1 DEF Progress, Sure
        <3> QED BY <3>1, <3>2 DEF NothingLost
    <2>4. ASSUME NEW p \in Relays, Moves(p), ~Commit(p) PROVE shaken' = {} /\ NothingLost'
        <3>1. ~ConnectFails(p) /\ ~ConnectHangs(p) /\ ~Drop(p) /\ ~DropSpare(p)
            BY DEF ConnectFails, ConnectHangs, Drop, DropSpare, Fault
        <3>2. shaken' = {} /\ done' = done
            BY <2>4, <3>1 DEF Moves, Work, Break, Select, Connect, Publish, PublishFails, Mark,
                  AskClose, Close, CloseAborted, CloseChannel, Receive, Reconnect, PublishFull,
                  UpdateFails, CommitFails, Abort, Crash, table, network
        <3>3. Effect(p) /\ done \subseteq Rows
            BY <2>t, <2>4, Effects DEF TypeOK
        <3> QED BY <2>t, <3>2, <3>3, DeliveredStays DEF NothingLost
    <2> QED BY <2>1, <2>2, <2>3, <2>4 DEF Next, Moves
<1>3. Whole => NothingLost
    OBVIOUS
<1> HIDE DEF Whole
<1> QED BY <1>1, <1>2, <1>3, PTL DEF Spec

\* Sending, delivering and losing rows, in the terms of the abstract outbox.
LEMMA PromiseSend ==
    ASSUME TypeOK, Apart, NEW p \in Relays, Write(p),
           UNCHANGED <<stored, done, cut, copies, shaken>>
    PROVE  Promise!Next
<1>1. \A q \in Relays, n \in Channels :
          pipe'[q][n] = IF q = p /\ n = channel[p] THEN pipe[q][n] \cup batch[p]
                        ELSE pipe[q][n]
    BY WriteTyped
<1>2. channel[p] \in Channels /\ batch[p] \in SUBSET Rows
      /\ batch[p] \subseteq (1..stored) \ done
    BY DEF TypeOK, Apart
<1>3. ASSUME NEW r PROVE r \in Underway' <=> r \in Underway \/ r \in batch[p]
    BY <1>1, <1>2, UnderwayIs
<1>4. Underway' = Underway \cup batch[p]
    BY <1>3
<1>5. Promise!Send(batch[p])
    BY <1>2, <1>4 DEF Promise!Send
<1> QED BY <1>2, <1>5 DEF Promise!Next

LEMMA PromiseDeliver ==
    ASSUME TypeOK, NEW p \in Relays, Receive(p)
    PROVE  Promise!Next
<1>1. PICK n \in Channels : \E r \in pipe[p][n] :
          /\ pipe' = [pipe EXCEPT ![p][n] = @ \ {r}]
          /\ copies' = [copies EXCEPT ![r] = @ + 1]
    BY DEF Receive
<1>2. PICK r \in pipe[p][n] :
          /\ pipe' = [pipe EXCEPT ![p][n] = @ \ {r}]
          /\ copies' = [copies EXCEPT ![r] = @ + 1]
    BY <1>1
<1>3. \A q \in Relays, k \in Channels :
          pipe'[q][k] = IF q = p /\ k = n THEN pipe[q][k] \ {r} ELSE pipe[q][k]
    BY <1>2 DEF TypeOK
<1>4. \A s : /\ s \in Underway' => s \in Underway
             /\ s \in Underway /\ s # r => s \in Underway'
    BY <1>3, UnderwayIs
<1>5. Underway' = Underway \/ Underway' = Underway \ {r}
    BY <1>4
<1>6. r \in Underway
    BY <1>2, UnderwayIs
<1>7. Promise!Deliver(r)
    BY <1>2, <1>5, <1>6 DEF Receive, table, Promise!Deliver
<1>8. r \in Rows
    BY <1>2 DEF TypeOK
<1> QED BY <1>7, <1>8 DEF Promise!Next

\* What goes with a connection, or with the process.
LEMMA PromiseLose ==
    ASSUME TypeOK, NEW R, R \subseteq Underway, cut' = cut \cup R,
           UNCHANGED <<stored, done, copies>>,
           \A q \in Relays, n \in Channels : /\ pipe'[q][n] \subseteq pipe[q][n]
                                             /\ pipe[q][n] \subseteq pipe'[q][n] \cup R
    PROVE  Promise!Lose(R) /\ R \in SUBSET Rows
<1>1. ASSUME NEW r \in Underway' PROVE r \in Underway
    BY <1>1, UnderwayIs
<1>2. ASSUME NEW r \in Underway PROVE r \in Rows /\ (r \in R \/ r \in Underway')
    <2>1. PICK q \in Relays, n \in Channels : r \in pipe[q][n]
        BY <1>2, UnderwayIs
    <2>2. r \in R \/ r \in pipe'[q][n]
        BY <2>1
    <2>3. r \in Rows
        BY <2>1 DEF TypeOK
    <2> QED BY <2>2, <2>3, UnderwayIs
<1>3. Underway' \subseteq Underway
    BY <1>1
<1>4. Underway \ R \subseteq Underway' /\ R \subseteq Rows
    BY <1>2
<1> QED BY <1>3, <1>4 DEF Promise!Lose

\* The steps of the abstract outbox that the steps of a relay are.
LEMMA PromiseStep == Kept /\ [Next]_vars => [Promise!Next]_Promise!vars
<1> SUFFICES ASSUME Kept, [Next]_vars PROVE Promise!Next \/ UNCHANGED Promise!vars
    OBVIOUS
<1>t. TypeOK /\ Apart /\ Progress
    BY DEF Kept, Typed, Exclusive
<1>s. UNCHANGED <<stored, done, shaken, pipe, cut, copies>> => UNCHANGED Promise!vars
    BY DEF Promise!vars, Underway
\* What breaks takes R along, and shakes p or restarts it.
<1>b. ASSUME NEW p \in Relays, NEW R, Promise!Lose(R), R \in SUBSET Rows,
             shaken' \in {shaken \cup {p}, shaken \ {p}}
      PROVE  Promise!Next
    BY <1>b DEF Promise!Next, Promise!Break, Promise!Restart
<1>1. CASE UNCHANGED vars
    BY <1>1, <1>s DEF vars, table, network
<1>2. CASE Store
    <2>1. stored + 1 \in Rows /\ stored + 1 \notin 1..stored
        BY <1>2, <1>t DEF Store, TypeOK
    <2>2. 1..stored' = (1..stored) \cup {stored + 1}
        BY <1>2, <1>t DEF Store, TypeOK
    <2>3. Promise!Accept(stored + 1)
        BY <1>2, <2>1, <2>2 DEF Store, network, Underway, Promise!Accept
    <2> QED BY <2>1, <2>3 DEF Promise!Next
<1>3. ASSUME NEW p \in Relays, Publish(p) PROVE Promise!Next
    BY <1>3, <1>t, PromiseSend DEF Publish, table
<1>4. ASSUME NEW p \in Relays, PublishFull(p) PROVE Promise!Next
    BY <1>4, <1>t, PromiseSend DEF PublishFull, table
<1>5. ASSUME NEW p \in Relays, Receive(p) PROVE Promise!Next
    BY <1>5, <1>t, PromiseDeliver
<1>6. ASSUME NEW p \in Relays, NEW n \in Channels, Cut(p, n),
             UNCHANGED <<stored, done, copies>>, shaken' = shaken \cup {p}
      PROVE  Promise!Next
    <2>1. pipe[p][n] \subseteq Underway
        BY UnderwayIs
    <2>2. cut' = cut \cup pipe[p][n]
        BY <1>6, <1>t, CutTyped
    <2>3. \A q \in Relays, k \in Channels : /\ pipe'[q][k] \subseteq pipe[q][k]
                                            /\ pipe[q][k] \subseteq pipe'[q][k] \cup pipe[p][n]
        BY <1>6, <1>t, CutTyped
    <2>4. Promise!Lose(pipe[p][n]) /\ pipe[p][n] \in SUBSET Rows
        BY <1>6, <1>t, <2>1, <2>2, <2>3, PromiseLose
    <2> QED BY <1>6, <1>b, <2>4
<1>7. ASSUME NEW p \in Relays, Drop(p) PROVE Promise!Next
    BY <1>7, <1>6, <1>t DEF Drop, Redial, table, TypeOK
<1>8. ASSUME NEW p \in Relays, DropSpare(p) PROVE Promise!Next
    BY <1>8, <1>6, <1>t DEF DropSpare, Redial, table
<1>9. ASSUME NEW p \in Relays, ConnectFails(p) \/ ConnectHangs(p) PROVE Promise!Next
    <2>1. UNCHANGED <<stored, done, copies, cut, pipe>> /\ shaken' = shaken \cup {p}
        BY <1>9 DEF ConnectFails, ConnectHangs, Redial, table
    <2>2. Promise!Lose({})
        BY <1>t, <2>1, PromiseLose
    <2> QED BY <1>b, <2>1, <2>2
<1>10. ASSUME NEW p \in Relays, Crash(p) PROVE Promise!Next
    <2> DEFINE R == UNION {pipe[p][n] : n \in Channels}
    <2>1. R \subseteq Underway
        BY DEF Underway
    <2>2. /\ cut' = cut \cup R /\ UNCHANGED <<stored, done, copies>>
          /\ shaken' = shaken \ {p}
          /\ pipe' = [pipe EXCEPT ![p] = [n \in Channels |-> {}]]
        BY <1>10 DEF Crash, table
    <2>3. \A n \in Channels : pipe[p][n] \subseteq R
        OBVIOUS
    <2> HIDE DEF R
    <2>4. \A q \in Relays, k \in Channels : /\ pipe'[q][k] \subseteq pipe[q][k]
                                            /\ pipe[q][k] \subseteq pipe'[q][k] \cup R
        BY <1>t, <2>2, <2>3 DEF TypeOK
    <2>5. Promise!Lose(R) /\ R \in SUBSET Rows
        BY <1>t, <2>1, <2>2, <2>4, PromiseLose
    <2> QED BY <1>b, <2>2, <2>5
<1>11. ASSUME NEW p \in Relays, Commit(p) PROVE Promise!Next
    <2>1. /\ phase[p] = "closed" /\ done' = done \cup batch[p]
          /\ UNCHANGED <<stored, shaken, pipe, cut, copies>>
        BY <1>11 DEF Commit, network
    <2>2. batch[p] \in SUBSET Rows
        BY <1>t DEF TypeOK
    <2>3. \A r \in batch[p] : \/ copies[r] > 0
                              \/ p \in shaken /\ r \in cut \cup Underway
        <3>1. CASE p \in shaken
            BY <1>t, <2>1, <3>1 DEF Progress, Sure, Somewhere
        <3>2. CASE p \notin shaken
            BY <1>t, <2>1, <3>2 DEF Progress, Sure
        <3> QED BY <3>1, <3>2
    <2>4. Promise!Settle(p, batch[p])
        BY <2>1, <2>3 DEF Promise!Settle, Underway
    <2> QED BY <2>2, <2>4 DEF Promise!Next
<1>12. ASSUME NEW p \in Relays,
              \/ Select(p) \/ Connect(p) \/ PublishFails(p) \/ Mark(p) \/ AskClose(p)
              \/ Close(p) \/ CloseAborted(p) \/ Reconnect(p) \/ UpdateFails(p) \/ CommitFails(p)
       PROVE  UNCHANGED <<stored, done, shaken, pipe, cut, copies>>
    BY <1>12 DEF Select, Connect, PublishFails, Mark, AskClose, Close, CloseAborted,
                 CloseChannel, Reconnect, UpdateFails, CommitFails, Abort, table, network
<1> QED BY <1>s, <1>1, <1>2, <1>3, <1>4, <1>5, <1>7, <1>8, <1>9, <1>10, <1>11, <1>12
        DEF Next, Work, Break

\* The relays implement the outbox promise: rows are sent until they are settled
\* and not after; a relay whose connections have held settles only what the broker
\* has received, and one that has lost a connection only what it has at least
\* written to some channel, this round.
THEOREM ImplementsAtLeastOnce == Spec => KeepsPromise
<1>1. Init => Promise!Init
    BY DEF Init, Underway, Promise!Init
<1>2. Kept /\ [Next]_vars => Kept'
    BY KeptStep
<1>3. Kept /\ [Next]_vars => [Promise!Next]_Promise!vars
    BY PromiseStep
<1> QED BY <1>1, <1>2, <1>3, KeptInit, PTL DEF Spec, KeepsPromise, Promise!Spec

=============================================================================
