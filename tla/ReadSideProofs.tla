--------------------------- MODULE ReadSideProofs ---------------------------
(***************************************************************************)
(* Proofs about ReadSide, for any messages, clocks, callbacks, clients,     *)
(* page sizes and faults.                                                  *)
(***************************************************************************)
EXTENDS ReadSide, FiniteSetTheorems, TLAPS

-----------------------------------------------------------------------------
(* Arithmetic of pages *)

LEMMA Multiples ==
    ASSUME NEW k \in Nat, NEW j \in Nat, k < j
    PROVE  k * Limit + Limit <= j * Limit
<1>1. j - k \in Nat /\ j - k >= 1
    OBVIOUS
<1>2. PICK d \in Nat : d = j - k - 1
    BY <1>1
<1>3. j = k + 1 + d
    BY <1>2
<1>4. d * Limit \in Nat /\ k * Limit \in Nat
    BY LimitAssumption
<1>5. (k + 1 + d) * Limit = k * Limit + Limit + d * Limit
    BY LimitAssumption
<1>6. j * Limit = k * Limit + Limit + d * Limit
    BY <1>3, <1>5
<1> QED BY <1>4, <1>6, LimitAssumption

\* The number of a page that starts at a multiple of the page size.
LEMMA PageNumber ==
    ASSUME NEW k \in Nat
    PROVE  (k * Limit) \div Limit = k
BY LimitAssumption, Z3

\* There is a next page just if the count exceeds what this page ends at.
LEMMA NextPage ==
    ASSUME NEW k \in Nat, NEW total \in Nat
    PROVE  (k * Limit) \div Limit + 1 < Pages(total) <=> k * Limit + Limit < total
<1> DEFINE p == Pages(total)
<1>1. p \in Nat /\ p * Limit <= total + Limit - 1 /\ total + Limit - 1 < p * Limit + Limit
    BY LimitAssumption, Z3 DEF Pages
<1> HIDE DEF p
<1>2. k * Limit \in Nat /\ (k + 1) * Limit = k * Limit + Limit
    BY LimitAssumption
<1>3. CASE k + 1 < p
  <2>1. (k + 1) * Limit + Limit <= p * Limit
      BY <1>1, <1>3, Multiples
  <2>2. p * Limit \in Nat
      BY <1>1, LimitAssumption
  <2> QED BY <1>1, <1>2, <1>3, <2>1, <2>2, PageNumber, LimitAssumption DEF p
<1>4. CASE ~(k + 1 < p)
  <2>1. p * Limit <= (k + 1) * Limit
    <3>1. CASE p = k + 1
        BY <3>1, LimitAssumption
    <3>2. CASE p < k + 1
        BY <1>1, <3>2, Multiples, LimitAssumption
    <3> QED BY <1>1, <1>4, <3>1, <3>2
  <2>2. p * Limit \in Nat
      BY <1>1, LimitAssumption
  <2> QED BY <1>1, <1>2, <1>4, <2>1, <2>2, PageNumber, LimitAssumption DEF p
<1> QED BY <1>3, <1>4

-----------------------------------------------------------------------------
(* The rows, finitely many *)

LEMMA StoreRows ==
    ASSUME TypeOK, IsFiniteSet(rows), NEW row \in Rows, Store(row)
    PROVE  /\ rows \subseteq rows' /\ IsFiniteSet(rows')
           /\ Cardinality(rows) <= Cardinality(rows')
           /\ Cardinality(rows) \in Nat /\ Cardinality(rows') \in Nat
<1>1. rows' = rows \cup {row}
    BY DEF Store
<1>2. IsFiniteSet(rows')
    BY <1>1, FS_AddElement
<1>3. Cardinality(rows) <= Cardinality(rows')
    BY <1>1, <1>2, FS_Subset
<1> QED BY <1>1, <1>2, <1>3, FS_CardinalityType

LEMMA JobFacts ==
    ASSUME TypeOK, NEW w \in Workers
    PROVE  /\ jobs[w].step \in {"open", "stored"} => jobs[w] \in Jobs
           /\ jobs[w] # Idle => jobs[w] \in Jobs
           /\ jobs[w] \in Jobs =>
                 /\ jobs[w].step \in {"open", "stored"} /\ jobs[w] # Idle
                 /\ jobs[w].row \in Rows /\ jobs[w].row.msg \in Messages
                 /\ [jobs[w] EXCEPT !.step = "stored"] \in Jobs
BY DEF TypeOK, Idle, Jobs, Rows

\* Only a commit writes rows, and it writes the row of an open transaction.
LEMMA WhoStores ==
    ASSUME TypeOK, [Next]_vars
    PROVE  \/ UNCHANGED <<inbox, rows>>
           \/ \E w \in Workers : jobs[w].step = "open" /\ Store(jobs[w].row)
BY DEF Next, vars, table, Work, Begin, Commit, LostCommit, Rollback, Broadcast, Crash, ChangeStatus,
    Subscribe, Disconnect, Read, StartPass, QueryItems, QueryCount, Respond

LEMMA FiniteStep == TypeOK /\ IsFiniteSet(rows) /\ [Next]_vars => IsFiniteSet(rows')
<1> SUFFICES ASSUME TypeOK, IsFiniteSet(rows), [Next]_vars PROVE IsFiniteSet(rows')
    OBVIOUS
<1>1. CASE UNCHANGED rows
    BY <1>1
<1>2. ASSUME NEW w \in Workers, jobs[w].step = "open", Store(jobs[w].row)
      PROVE  IsFiniteSet(rows')
    BY <1>2, JobFacts, StoreRows
<1> QED BY <1>1, <1>2, WhoStores

-----------------------------------------------------------------------------
(* The types of a pass *)

\* A pass over rows R, whose offset and total are bounded by n.
PassType(R, n) ==
    [queries : SUBSET {"items", "count"}, offset : 0..n, total : 0..n,
     unseen : SUBSET R, steady : BOOLEAN, done : BOOLEAN]

LEMMA PassUpdate ==
    ASSUME NEW R, NEW n \in Nat, NEW p \in PassType(R, n)
    PROVE  /\ \A q \in SUBSET {"items", "count"} : [p EXCEPT !.queries = q] \in PassType(R, n)
           /\ \A i \in 0..n : /\ [p EXCEPT !.offset = i] \in PassType(R, n)
                              /\ [p EXCEPT !.total = i] \in PassType(R, n)
           /\ \A U \in SUBSET R : [p EXCEPT !.unseen = U] \in PassType(R, n)
           /\ \A b \in BOOLEAN : /\ [p EXCEPT !.steady = b] \in PassType(R, n)
                                 /\ [p EXCEPT !.done = b] \in PassType(R, n)
BY DEF PassType

LEMMA SteadyField ==
    ASSUME NEW R, NEW n \in Nat, NEW p \in PassType(R, n), NEW b \in BOOLEAN
    PROVE  [p EXCEPT !.steady = b].steady = b
BY DEF PassType

LEMMA PassWiden ==
    ASSUME NEW R, NEW S, R \subseteq S, NEW n \in Nat, NEW k \in Nat, n <= k, NEW p \in PassType(R, n)
    PROVE  p \in PassType(S, k)
BY DEF PassType

LEMMA PassFields ==
    ASSUME NEW R, NEW n \in Nat, NEW p \in PassType(R, n)
    PROVE  /\ p.queries \subseteq {"items", "count"} /\ p.offset \in 0..n /\ p.total \in 0..n
           /\ p.unseen \subseteq R /\ p.steady \in BOOLEAN /\ p.done \in BOOLEAN
BY DEF PassType

\* Where a pass is.
OnPage ==
    /\ \E k \in Nat : pass.offset = k * Limit
    /\ pass.done => pass.queries = {}

LEMMA InitType == Init => TypeOK /\ IsFiniteSet(rows) /\ OnPage
<1> SUFFICES ASSUME Init PROVE TypeOK /\ IsFiniteSet(rows) /\ OnPage
    OBVIOUS
<1>1. IsFiniteSet(rows) /\ Cardinality(rows) = 0
    BY FS_EmptySet DEF Init
<1>2. NoPass \in PassType(rows, 0)
    BY DEF NoPass, PassType
<1>3. OnPage
  <2>1. 0 = 0 * Limit
      BY LimitAssumption
  <2> QED BY <2>1 DEF Init, OnPage, NoPass
<1>4. jobs \in [Workers -> {Idle} \cup Jobs] /\ heard \in [Clients -> [Messages -> Nat]]
    BY DEF Init
<1>5. faults \in 0..MaxFaults /\ ~(pass.offset > 0)
    BY MaxFaultsAssumption DEF Init, NoPass
<1> QED BY <1>1, <1>2, <1>3, <1>4, <1>5 DEF Init, TypeOK, PassType

LEMMA PassOfType == TypeOK => pass \in PassType(rows, Cardinality(rows))
BY DEF TypeOK, PassType

\* The rest of the types.
RestOK ==
    /\ list \in Lists
    /\ serving \in BOOLEAN
    /\ jobs \in [Workers -> {Idle} \cup Jobs]
    /\ inbox \subseteq Messages
    /\ rows \subseteq Rows
    /\ listed \subseteq rows
    /\ rooms \subseteq Clients
    /\ owed \subseteq Clients \X Messages
    /\ heard \in [Clients -> [Messages -> Nat]]
    /\ cut \subseteq Messages
    /\ faults \in 0..MaxFaults

LEMMA TypeSplit ==
    TypeOK <=> /\ RestOK
               /\ pass \in PassType(rows, Cardinality(rows))
               /\ pass.offset > 0 => pass.offset < Cardinality(rows)
BY DEF TypeOK, RestOK, PassType

LEMMA Faults == RestOK /\ (Fault \/ UNCHANGED faults) => faults' \in 0..MaxFaults
BY MaxFaultsAssumption DEF RestOK, Fault

LEMMA TellType ==
    ASSUME RestOK, NEW m \in Messages, Tell(m)
    PROVE  heard' \in [Clients -> [Messages -> Nat]]
<1>1. ASSUME NEW c \in Clients PROVE [heard[c] EXCEPT ![m] = @ + 1] \in [Messages -> Nat]
    BY DEF RestOK
<1> QED BY <1>1 DEF Tell, RestOK

LEMMA RestWork == ASSUME TypeOK, NEW w \in Workers, Work(w) PROVE RestOK'
<1>1. RestOK
    BY TypeSplit
<1>2. ASSUME NEW m \in Messages, Begin(w, m) PROVE RestOK'
  <2>1. PICK at \in Times : Goes(w, [step |-> "open", row |-> [msg |-> m, at |-> at]])
      BY <1>2 DEF Begin
  <2>2. [step |-> "open", row |-> [msg |-> m, at |-> at]] \in Jobs
      BY DEF Jobs, Rows
  <2> QED BY <1>1, <1>2, <2>1, <2>2 DEF Begin, Goes, RestOK, table, socket
<1>3. ASSUME jobs[w].step = "open", Store(jobs[w].row)
      PROVE  /\ inbox' \subseteq Messages /\ rows' \subseteq Rows /\ listed' \subseteq rows'
             /\ jobs[w] \in Jobs /\ jobs[w].row.msg \in Messages
             /\ [jobs[w] EXCEPT !.step = "stored"] \in Jobs
  <2>1. jobs[w] \in Jobs
      BY <1>3, JobFacts
  <2>2. jobs[w].row \in Rows /\ jobs[w].row.msg \in Messages
      BY <2>1, JobFacts
  <2>3. [jobs[w] EXCEPT !.step = "stored"] \in Jobs
      BY <2>1, JobFacts
  <2> QED BY <1>1, <1>3, <2>1, <2>2, <2>3 DEF Store, Join, RestOK
<1>4. CASE Commit(w)
  <2>1. jobs' \in [Workers -> {Idle} \cup Jobs]
      BY <1>1, <1>3, <1>4 DEF Commit, Goes, RestOK
  <2>2. owed' \subseteq Clients \X Messages
      BY <1>1, <1>3, <1>4 DEF Commit, RestOK
  <2> QED BY <1>1, <1>3, <1>4, <2>1, <2>2 DEF Commit, RestOK
<1>5. CASE LostCommit(w)
  <2>1. jobs' \in [Workers -> {Idle} \cup Jobs] /\ cut' \subseteq Messages
      BY <1>1, <1>3, <1>5 DEF LostCommit, Goes, RestOK
  <2> QED BY <1>1, <1>3, <1>5, <2>1, Faults DEF LostCommit, RestOK
<1>6. CASE Rollback(w)
  <2>1. jobs' \in [Workers -> {Idle} \cup Jobs]
      BY <1>1, <1>6 DEF Rollback, Goes, RestOK
  <2> QED BY <1>1, <1>6, <2>1 DEF Rollback, RestOK, table, socket
<1>7. CASE Broadcast(w)
  <2>1. jobs[w].row.msg \in Messages
      BY <1>7, JobFacts DEF Broadcast
  <2>2. heard' \in [Clients -> [Messages -> Nat]]
      BY <1>1, <1>7, <2>1, TellType DEF Broadcast
  <2>3. jobs' \in [Workers -> {Idle} \cup Jobs]
      BY <1>1, <1>7 DEF Broadcast, Goes, RestOK
  <2> QED BY <1>1, <1>7, <2>2, <2>3 DEF Broadcast, RestOK, table
<1> QED BY <1>2, <1>4, <1>5, <1>6, <1>7 DEF Work

LEMMA RestStep == TypeOK /\ [Next]_vars => RestOK'
<1> SUFFICES ASSUME TypeOK, [Next]_vars PROVE RestOK'
    OBVIOUS
<1>1. RestOK
    BY TypeSplit
<1>2. CASE UNCHANGED vars
    BY <1>1, <1>2 DEF vars, RestOK, table, socket
<1>3. ASSUME NEW w \in Workers, Work(w) PROVE RestOK'
    BY <1>3, RestWork
<1>4. CASE Crash
  <2>1. cut' \subseteq Messages
    <3>1. \A w \in Workers : jobs[w].step = "stored" => jobs[w].row.msg \in Messages
        BY JobFacts
    <3> QED BY <1>1, <1>4, <3>1 DEF Crash, RestOK
  <2>2. jobs' \in [Workers -> {Idle} \cup Jobs]
      BY <1>4 DEF Crash
  <2>3. rooms' \subseteq Clients /\ owed' \subseteq Clients \X Messages
      BY <1>1, <1>4 DEF Crash, RestOK
  <2> QED BY <1>1, <1>4, <2>1, <2>2, <2>3, Faults DEF Crash, RestOK, table
<1>5. ASSUME NEW row \in rows, ChangeStatus(row) PROVE RestOK'
  <2>1. listed' \subseteq rows
      BY <1>1, <1>5 DEF ChangeStatus, Leave, Join, RestOK
  <2> QED BY <1>1, <1>5, <2>1 DEF ChangeStatus, RestOK, socket
<1>6. ASSUME NEW c \in Clients, Subscribe(c) \/ Disconnect(c) PROVE RestOK'
    BY <1>1, <1>6 DEF Subscribe, Disconnect, RestOK, table
<1>7. CASE Read
    BY <1>1, <1>7 DEF Read, StartPass, QueryItems, QueryCount, Respond, RestOK, table, socket
<1> QED BY <1>2, <1>3, <1>4, <1>5, <1>6, <1>7 DEF Next

\* What the fields of the pass become.
LEMMA JoinPass ==
    ASSUME NEW R, NEW n \in Nat, pass \in PassType(R, n), NEW row, Join(row)
    PROVE  /\ pass' \in PassType(R, n)
           /\ pass' = [pass EXCEPT !.steady = pass'.steady]
           /\ pass'.steady <=> pass.steady /\ pass.queries # {"items"}
<1> DEFINE b == pass.steady /\ pass.queries # {"items"}
<1>1. pass' = [pass EXCEPT !.steady = b] /\ b \in BOOLEAN
    BY PassFields DEF Join
<1>2. pass' \in PassType(R, n)
    BY <1>1, PassUpdate
<1>3. pass'.steady = b
  <2> HIDE DEF b
  <2> QED BY <1>1, SteadyField
<1> QED BY <1>1, <1>2, <1>3

LEMMA LeavePass ==
    ASSUME NEW R, NEW n \in Nat, pass \in PassType(R, n), NEW row, Leave(row)
    PROVE  /\ pass' \in PassType(R, n)
           /\ pass' = [pass EXCEPT !.steady = pass'.steady]
           /\ pass'.steady <=> pass.steady /\ pass.done
<1> DEFINE b == pass.steady /\ pass.done
<1>1. pass' = [pass EXCEPT !.steady = b] /\ b \in BOOLEAN
    BY PassFields DEF Leave
<1>2. pass' \in PassType(R, n)
    BY <1>1, PassUpdate
<1>3. pass'.steady = b
  <2> HIDE DEF b
  <2> QED BY <1>1, SteadyField
<1> QED BY <1>1, <1>2, <1>3

\* A row that comes or leaves moves nothing but `steady`.
LEMMA SteadyOnly ==
    ASSUME NEW R, NEW n \in Nat, pass \in PassType(R, n), pass' = [pass EXCEPT !.steady = pass'.steady]
    PROVE  /\ pass'.queries = pass.queries /\ pass'.offset = pass.offset
           /\ pass'.total = pass.total /\ pass'.unseen = pass.unseen /\ pass'.done = pass.done
BY DEF PassType

LEMMA StartFields ==
    ASSUME StartPass
    PROVE  /\ pass'.queries = {"items", "count"} /\ pass'.offset = 0 /\ pass'.total = 0
           /\ pass'.unseen = listed /\ pass'.steady = TRUE /\ pass'.done = FALSE
BY DEF StartPass, NoPass

LEMMA ItemsFields ==
    ASSUME NEW R, NEW n \in Nat, pass \in PassType(R, n), NEW page,
           pass' = [pass EXCEPT !.queries = @ \ {"items"}, !.unseen = @ \ page]
    PROVE  /\ pass' \in PassType(R, n)
           /\ pass'.queries = pass.queries \ {"items"} /\ pass'.offset = pass.offset
           /\ pass'.total = pass.total /\ pass'.unseen = pass.unseen \ page
           /\ pass'.steady = pass.steady /\ pass'.done = pass.done
<1> DEFINE Q == pass.queries \ {"items"}
           U == pass.unseen \ page
<1>1. Q \in SUBSET {"items", "count"} /\ U \in SUBSET R
    BY PassFields
<1>2. pass' = [[pass EXCEPT !.queries = Q] EXCEPT !.unseen = U]
    BY DEF PassType
<1>3. pass' \in PassType(R, n)
  <2> HIDE DEF Q, U
  <2>1. [pass EXCEPT !.queries = Q] \in PassType(R, n)
      BY <1>1, PassUpdate
  <2> QED BY <1>1, <1>2, <2>1 DEF PassType
<1> QED BY <1>3 DEF PassType

LEMMA CountFields ==
    ASSUME NEW R, NEW n \in Nat, pass \in PassType(R, n), NEW k \in 0..n,
           pass' = [pass EXCEPT !.queries = @ \ {"count"}, !.total = k]
    PROVE  /\ pass' \in PassType(R, n)
           /\ pass'.queries = pass.queries \ {"count"} /\ pass'.offset = pass.offset
           /\ pass'.total = k /\ pass'.unseen = pass.unseen
           /\ pass'.steady = pass.steady /\ pass'.done = pass.done
<1> DEFINE Q == pass.queries \ {"count"}
<1>1. Q \in SUBSET {"items", "count"}
    BY PassFields
<1>2. pass' = [[pass EXCEPT !.queries = Q] EXCEPT !.total = k]
    BY DEF PassType
<1>3. pass' \in PassType(R, n)
  <2> HIDE DEF Q
  <2>1. [pass EXCEPT !.queries = Q] \in PassType(R, n)
      BY <1>1, PassUpdate
  <2> QED BY <1>2, <2>1 DEF PassType
<1> QED BY <1>3 DEF PassType

\* On with the next page, or done: decided by the count that was read.
LEMMA RespondFields ==
    ASSUME NEW R, NEW n \in Nat, pass \in PassType(R, n), OnPage, Respond
    PROVE  /\ pass'.total = pass.total /\ pass'.unseen = pass.unseen /\ pass'.steady = pass.steady
           /\ IF pass.offset + Limit < pass.total
              THEN /\ pass' = [pass EXCEPT !.offset = @ + Limit, !.queries = {"items", "count"}]
                   /\ pass'.offset = pass.offset + Limit
                   /\ pass'.queries = {"items", "count"} /\ pass'.done = pass.done
              ELSE /\ pass' = [pass EXCEPT !.done = TRUE]
                   /\ pass'.offset = pass.offset /\ pass'.queries = pass.queries /\ pass'.done = TRUE
<1>1. pass.offset \in 0..n /\ pass.total \in Nat
    BY PassFields
<1>2. pass.offset \div Limit + 1 < Pages(pass.total) <=> pass.offset + Limit < pass.total
    BY <1>1, NextPage DEF OnPage
<1>3. CASE pass.offset + Limit < pass.total
  <2>1. pass' = [pass EXCEPT !.offset = @ + Limit, !.queries = {"items", "count"}]
      BY <1>2, <1>3 DEF Respond
  <2> QED BY <1>3, <2>1 DEF PassType
<1>4. CASE ~(pass.offset + Limit < pass.total)
  <2>1. pass' = [pass EXCEPT !.done = TRUE]
      BY <1>2, <1>4 DEF Respond
  <2> QED BY <1>4, <2>1 DEF PassType
<1> QED BY <1>3, <1>4

\* Rows are only added: a pass that does not move stays within its bounds.
PassOK ==
    /\ pass \in PassType(rows, Cardinality(rows))
    /\ pass.offset > 0 => pass.offset < Cardinality(rows)
    /\ OnPage

LEMMA PassStays ==
    ASSUME PassOK, rows \subseteq rows',
           Cardinality(rows) \in Nat, Cardinality(rows') \in Nat, Cardinality(rows) <= Cardinality(rows'),
           pass' = [pass EXCEPT !.steady = pass'.steady],
           pass' \in PassType(rows, Cardinality(rows))
    PROVE  PassOK'
<1> DEFINE n == Cardinality(rows)
           k == Cardinality(rows')
<1>1. pass' \in PassType(rows', k)
    BY PassWiden
<1>2. pass'.queries = pass.queries /\ pass'.offset = pass.offset /\ pass'.done = pass.done
    BY SteadyOnly DEF PassOK
<1>3. pass.offset \in 0..n
    BY PassFields DEF PassOK
<1>4. pass'.offset > 0 => pass'.offset < k
    BY <1>2, <1>3 DEF PassOK
<1>5. OnPage'
    BY <1>2 DEF OnPage, PassOK
<1> QED BY <1>1, <1>4, <1>5 DEF PassOK, PassType

LEMMA PassUnchanged ==
    ASSUME PassOK, UNCHANGED pass, rows \subseteq rows',
           Cardinality(rows) \in Nat, Cardinality(rows') \in Nat, Cardinality(rows) <= Cardinality(rows')
    PROVE  PassOK'
<1>1. pass' \in PassType(rows, Cardinality(rows))
    BY DEF PassOK
<1>2. pass' = [pass EXCEPT !.steady = pass'.steady]
    BY DEF PassOK, PassType
<1> QED BY <1>1, <1>2, PassStays

LEMMA PassRead == ASSUME TypeOK, IsFiniteSet(rows), PassOK, Read PROVE PassOK'
<1> DEFINE n == Cardinality(rows)
<1>1. n \in Nat /\ listed \in SUBSET rows
    BY FS_CardinalityType DEF TypeOK
<1>2. UNCHANGED rows
    BY DEF Read, StartPass, QueryItems, QueryCount, Respond, table
<1>3. pass \in PassType(rows, n) /\ OnPage /\ pass.offset \in 0..n
    BY <1>1, PassFields DEF PassOK
<1> SUFFICES /\ pass' \in PassType(rows, n)
             /\ pass'.offset > 0 => pass'.offset < n
             /\ OnPage'
  <2>1. PassType(rows, Cardinality(rows))' = PassType(rows, n)
      BY <1>2 DEF PassType
  <2> QED BY <1>2, <2>1 DEF PassOK
<1> HIDE DEF n
<1>4. CASE StartPass
  <2>1. pass' \in PassType(rows, n)
    <3> DEFINE Q == {"items", "count"}
    <3>1. pass' = [queries |-> Q, offset |-> 0, total |-> 0, unseen |-> listed,
                   steady |-> TRUE, done |-> FALSE]
        BY <1>4 DEF StartPass, NoPass
    <3> QED BY <1>1, <3>1 DEF PassType
  <2>2. pass'.offset = 0 /\ ~pass'.done
      BY <1>4, StartFields
  <2>3. 0 = 0 * Limit
      BY LimitAssumption
  <2> QED BY <2>1, <2>2, <2>3 DEF OnPage
<1>5. CASE QueryItems
  <2>1. PICK page \in Page(listed, pass.offset) :
            pass' = [pass EXCEPT !.queries = @ \ {"items"}, !.unseen = @ \ page]
      BY <1>5 DEF QueryItems
  <2>2. /\ pass' \in PassType(rows, n) /\ pass'.offset = pass.offset
        /\ pass'.queries = pass.queries \ {"items"} /\ pass'.done = pass.done
      BY <1>1, <1>3, <2>1, ItemsFields
  <2> QED BY <1>3, <2>2 DEF PassOK, OnPage, n
<1>6. CASE QueryCount
  <2>1. pass' = [pass EXCEPT !.queries = @ \ {"count"}, !.total = Cardinality(listed)]
      BY <1>6 DEF QueryCount
  <2>2. Cardinality(listed) \in 0..n
    <3>1. IsFiniteSet(listed) /\ Cardinality(listed) <= Cardinality(rows)
        BY <1>1, FS_Subset
    <3> QED BY <1>1, <3>1, FS_CardinalityType DEF n
  <2>3. /\ pass' \in PassType(rows, n) /\ pass'.offset = pass.offset
        /\ pass'.queries = pass.queries \ {"count"} /\ pass'.done = pass.done
      BY <1>1, <1>3, <2>1, <2>2, CountFields
  <2> QED BY <1>3, <2>3 DEF PassOK, OnPage, n
<1>7. CASE Respond
  <2>1. pass.total \in 0..n /\ pass.queries \subseteq {"items", "count"}
      BY <1>1, <1>3, PassFields
  <2>2. CASE pass.offset + Limit < pass.total
    <3> DEFINE i == pass.offset + Limit
    <3>1. /\ pass' = [pass EXCEPT !.offset = @ + Limit, !.queries = {"items", "count"}]
          /\ pass'.offset = pass.offset + Limit /\ pass'.done = pass.done
        BY <1>1, <1>3, <1>7, <2>2, RespondFields
    <3>2. pass.offset + Limit \in 0..n /\ pass.offset + Limit < n
        BY <1>1, <1>3, <2>1, <2>2, LimitAssumption
    <3>3. pass' \in PassType(rows, n)
      <4>1. pass' = [[pass EXCEPT !.offset = i] EXCEPT !.queries = {"items", "count"}]
          BY <1>3, <3>1 DEF PassType
      <4>2. i \in 0..n
          BY <3>2
      <4> HIDE DEF i
      <4>3. [pass EXCEPT !.offset = i] \in PassType(rows, n)
          BY <1>3, <4>2 DEF PassType
      <4> QED BY <4>1, <4>3 DEF PassType
    <3>4. \E k \in Nat : pass'.offset = k * Limit
      <4>1. PICK k \in Nat : pass.offset = k * Limit
          BY <1>3 DEF OnPage
      <4>2. pass'.offset = (k + 1) * Limit
          BY <3>1, <4>1, LimitAssumption
      <4> QED BY <4>2
    <3>5. ~pass.done
        BY <1>7 DEF Respond
    <3> QED BY <3>1, <3>2, <3>3, <3>4, <3>5 DEF OnPage
  <2>3. CASE ~(pass.offset + Limit < pass.total)
    <3>1. /\ pass' = [pass EXCEPT !.done = TRUE]
          /\ pass'.offset = pass.offset /\ pass'.queries = pass.queries
        BY <1>1, <1>3, <1>7, <2>3, RespondFields
    <3>2. pass' \in PassType(rows, n)
        BY <1>3, <3>1 DEF PassType
    <3>3. pass.queries = {}
        BY <1>7 DEF Respond
    <3> QED BY <1>3, <3>1, <3>2, <3>3 DEF PassOK, OnPage, n
  <2> QED BY <2>2, <2>3
<1> QED BY <1>4, <1>5, <1>6, <1>7 DEF Read

\* Everything but a read leaves the pass where it is.
LEMMA WhoMoves ==
    ASSUME TypeOK, [Next]_vars
    PROVE  \/ UNCHANGED <<pass, listed, rows>>
           \/ UNCHANGED rows /\ Read
           \/ UNCHANGED rows /\ \E row \in rows : ChangeStatus(row)
           \/ \E w \in Workers : jobs[w].step = "open" /\ Store(jobs[w].row)
<1>1. CASE UNCHANGED vars
    BY <1>1 DEF vars, table
<1>2. ASSUME NEW w \in Workers, Work(w)
      PROVE  \/ UNCHANGED <<pass, listed, rows>>
             \/ jobs[w].step = "open" /\ Store(jobs[w].row)
  <2>1. CASE Commit(w) \/ LostCommit(w)
      BY <2>1 DEF Commit, LostCommit
  <2>2. CASE (\E m \in Messages : Begin(w, m)) \/ Rollback(w) \/ Broadcast(w)
      BY <2>2 DEF Begin, Rollback, Broadcast, table
  <2> QED BY <1>2, <2>1, <2>2 DEF Work
<1>3. ASSUME NEW row \in rows, ChangeStatus(row) PROVE UNCHANGED rows
    BY <1>3 DEF ChangeStatus
<1>4. CASE Read
    BY <1>4 DEF Read, StartPass, QueryItems, QueryCount, Respond, table
<1>5. CASE Crash \/ \E c \in Clients : Subscribe(c) \/ Disconnect(c)
    BY <1>5 DEF Crash, Subscribe, Disconnect, table
<1> QED BY <1>1, <1>2, <1>3, <1>4, <1>5 DEF Next

LEMMA PassStep == TypeOK /\ IsFiniteSet(rows) /\ PassOK /\ [Next]_vars => PassOK'
<1> SUFFICES ASSUME TypeOK, IsFiniteSet(rows), PassOK, [Next]_vars PROVE PassOK'
    OBVIOUS
<1>1. Cardinality(rows) \in Nat /\ pass \in PassType(rows, Cardinality(rows))
    BY FS_CardinalityType DEF PassOK
<1>2. CASE UNCHANGED <<pass, listed, rows>>
    BY <1>1, <1>2, PassUnchanged
<1>3. CASE Read
    BY <1>3, PassRead
<1>4. ASSUME UNCHANGED rows, NEW row \in rows, ChangeStatus(row) PROVE PassOK'
  <2>1. Leave(row) \/ Join(row)
      BY <1>4 DEF ChangeStatus
  <2>2. /\ pass' \in PassType(rows, Cardinality(rows))
        /\ pass' = [pass EXCEPT !.steady = pass'.steady]
      BY <1>1, <2>1, JoinPass, LeavePass
  <2> QED BY <1>1, <1>4, <2>2, PassStays
<1>5. ASSUME NEW w \in Workers, jobs[w].step = "open", Store(jobs[w].row) PROVE PassOK'
  <2>1. jobs[w].row \in Rows
      BY <1>5, JobFacts
  <2>2. /\ rows \subseteq rows' /\ Cardinality(rows) <= Cardinality(rows')
        /\ Cardinality(rows') \in Nat
      BY <1>5, <2>1, StoreRows
  <2>3. CASE Join(jobs[w].row)
    <3>1. /\ pass' \in PassType(rows, Cardinality(rows))
          /\ pass' = [pass EXCEPT !.steady = pass'.steady]
        BY <1>1, <2>3, JoinPass
    <3> QED BY <1>1, <2>2, <3>1, PassStays
  <2>4. CASE UNCHANGED pass
      BY <1>1, <2>2, <2>4, PassUnchanged
  <2> QED BY <1>5, <2>3, <2>4 DEF Store
<1> QED BY <1>2, <1>3, <1>4, <1>5, WhoMoves

\* The types, with the bounds of the pass, and finitely many rows.
Typed == TypeOK /\ IsFiniteSet(rows) /\ OnPage

LEMMA TypedSplit == TypeOK /\ OnPage <=> RestOK /\ PassOK
BY TypeSplit DEF PassOK

LEMMA TypedStep == Typed /\ [Next]_vars => Typed'
<1> SUFFICES ASSUME Typed, [Next]_vars PROVE Typed'
    OBVIOUS
<1>1. RestOK' /\ PassOK' /\ IsFiniteSet(rows')
    BY TypedSplit, RestStep, PassStep, FiniteStep DEF Typed
<1>2. TypeOK' <=> /\ RestOK'
                  /\ pass' \in PassType(rows', Cardinality(rows'))
                  /\ pass'.offset > 0 => pass'.offset < Cardinality(rows')
    BY DEF TypeOK, RestOK, PassType
<1>3. PassOK' <=> /\ pass' \in PassType(rows', Cardinality(rows'))
                  /\ pass'.offset > 0 => pass'.offset < Cardinality(rows')
                  /\ OnPage'
    BY DEF PassOK, PassType
<1> QED BY <1>1, <1>2, <1>3 DEF Typed

LEMMA TypedAlways == Spec => []Typed
<1>1. Init => Typed
    BY InitType DEF Typed
<1> QED BY <1>1, TypedStep, PTL DEF Spec

\* A client that goes by totalPages asks for no page beyond the rows there are,
\* however many come while it reads.
THEOREM TypeCorrect == Spec => []TypeOK
BY TypedAlways, PTL DEF Typed

-----------------------------------------------------------------------------
(* One row, one notification *)

\* A message has one row at most, with its inbox row; a callback that has it in
\* hand is the only one, and its transaction is open until the row is there.
OneRow ==
    /\ \A r, s \in rows : r.msg = s.msg => r = s
    /\ \A m \in Messages : m \in inbox <=> \E r \in rows : r.msg = m
    /\ \A w \in Workers : jobs[w] # Idle =>
          (jobs[w].row.msg \in inbox <=> jobs[w].step = "stored")
    /\ \A v, w \in Workers :
          jobs[v] # Idle /\ jobs[w] # Idle /\ jobs[v].row.msg = jobs[w].row.msg => v = w

\* What clients were told of has been stored, and no callback is at it any more.
ToldOnce ==
    \A c \in Clients, m \in Messages :
        /\ heard[c][m] <= 1
        /\ heard[c][m] > 0 =>
              m \in inbox /\ \A w \in Workers : jobs[w] # Idle => jobs[w].row.msg # m

\* A client is owed nothing once it has left the room.
OwedInRoom ==
    \A c \in Clients, m \in Messages : <<c, m>> \in owed => c \in rooms

\* What a callback does to the row and to its own job.
LEMMA StoreFacts ==
    ASSUME TypeOK, OneRow, NEW w \in Workers, jobs[w].step = "open", Store(jobs[w].row)
    PROVE  /\ jobs[w].row \in Rows /\ jobs[w].row.msg \in Messages \ inbox
           /\ jobs[w] # Idle
           /\ inbox' = inbox \cup {jobs[w].row.msg} /\ rows' = rows \cup {jobs[w].row}
           /\ \A r, s \in rows' : r.msg = s.msg => r = s
           /\ \A m \in Messages : m \in inbox' <=> \E r \in rows' : r.msg = m
<1>1. jobs[w] \in Jobs
    BY JobFacts
<1>2. jobs[w].row \in Rows /\ jobs[w].row.msg \in Messages \ inbox /\ jobs[w] # Idle
    BY <1>1, JobFacts DEF OneRow
<1>3. inbox' = inbox \cup {jobs[w].row.msg} /\ rows' = rows \cup {jobs[w].row}
    BY DEF Store
<1>4. \A r \in rows : r.msg \in inbox
    BY DEF OneRow, TypeOK, Rows
<1>5. \A r, s \in rows' : r.msg = s.msg => r = s
    BY <1>2, <1>3, <1>4 DEF OneRow
<1>6. \A m \in Messages : m \in inbox' <=> \E r \in rows' : r.msg = m
    BY <1>3 DEF OneRow
<1> QED BY <1>2, <1>3, <1>5, <1>6

LEMMA OneRowInit == Init => OneRow /\ ToldOnce /\ OwedInRoom
BY DEF Init, OneRow, ToldOnce, OwedInRoom

\* Callbacks that end disturb neither the rows nor each other.
LEMMA OneRowDrop ==
    ASSUME OneRow, UNCHANGED <<inbox, rows>>,
           \A v \in Workers : jobs'[v] \in {jobs[v], Idle}
    PROVE  OneRow'
<1>1. Idle' = Idle
    BY DEF Idle
<1>2. \A v \in Workers : jobs'[v] # Idle => jobs'[v] = jobs[v]
    OBVIOUS
<1> QED BY <1>1, <1>2 DEF OneRow

LEMMA ToldDrop ==
    ASSUME ToldOnce, UNCHANGED heard, inbox \subseteq inbox',
           \A v \in Workers : jobs'[v] # Idle =>
               jobs[v] # Idle /\ jobs'[v].row = jobs[v].row
    PROVE  ToldOnce'
BY DEF ToldOnce, Idle

LEMMA BeginFacts ==
    ASSUME TypeOK, NEW w \in Workers, NEW m \in Messages, Begin(w, m)
    PROVE  /\ m \notin inbox /\ \A v \in Workers : jobs[v] # Idle => jobs[v].row.msg # m
           /\ jobs'[w].row.msg = m /\ jobs'[w].step = "open"
           /\ \A v \in Workers \ {w} : jobs'[v] = jobs[v]
           /\ UNCHANGED <<table, socket>>
BY DEF Begin, KeyFree, Goes, TypeOK

LEMMA OneRowBegin ==
    ASSUME TypeOK, OneRow, ToldOnce, NEW w \in Workers, NEW m \in Messages, Begin(w, m)
    PROVE  OneRow' /\ ToldOnce'
<1>1. /\ m \notin inbox /\ \A v \in Workers : jobs[v] # Idle => jobs[v].row.msg # m
      /\ jobs'[w].row.msg = m /\ jobs'[w].step = "open"
      /\ \A v \in Workers \ {w} : jobs'[v] = jobs[v]
      /\ UNCHANGED <<inbox, rows, heard>>
    BY BeginFacts DEF table, socket
<1>2. Idle' = Idle
    BY DEF Idle
<1>3. OneRow'
  <2>1. \A v \in Workers : jobs'[v] # Idle => (jobs'[v].row.msg \in inbox' <=> jobs'[v].step = "stored")
      BY <1>1 DEF OneRow
  <2>2. \A u, v \in Workers :
            jobs'[u] # Idle /\ jobs'[v] # Idle /\ jobs'[u].row.msg = jobs'[v].row.msg => u = v
      BY <1>1 DEF OneRow
  <2> QED BY <1>1, <1>2, <2>1, <2>2 DEF OneRow
<1>4. ToldOnce'
    BY <1>1, <1>2 DEF ToldOnce
<1> QED BY <1>3, <1>4

LEMMA OneRowStore ==
    ASSUME TypeOK, OneRow, ToldOnce, NEW w \in Workers, Commit(w) \/ LostCommit(w)
    PROVE  OneRow' /\ ToldOnce'
<1> DEFINE row == jobs[w].row
<1>1. /\ row \in Rows /\ row.msg \in Messages \ inbox /\ jobs[w] # Idle
      /\ inbox' = inbox \cup {row.msg} /\ rows' = rows \cup {row}
      /\ \A r, s \in rows' : r.msg = s.msg => r = s
      /\ \A m \in Messages : m \in inbox' <=> \E r \in rows' : r.msg = m
    BY StoreFacts DEF Commit, LostCommit
<1>2. /\ \A v \in Workers \ {w} : jobs'[v] = jobs[v]
      /\ jobs'[w] # Idle => jobs'[w].row = row /\ jobs'[w].step = "stored"
      /\ UNCHANGED heard
  <2>1. jobs[w] \in Jobs
      BY <1>1, JobFacts
  <2>2. [jobs[w] EXCEPT !.step = "stored"].row = row /\ [jobs[w] EXCEPT !.step = "stored"].step = "stored"
      BY <2>1 DEF Jobs
  <2> QED BY <2>2 DEF Commit, LostCommit, Goes, TypeOK
<1>3. Idle' = Idle
    BY DEF Idle
<1> HIDE DEF row
<1>4. \A v \in Workers \ {w} : jobs[v] # Idle => jobs[v].row.msg # row.msg
    BY <1>1 DEF OneRow, row
<1>5. OneRow'
  <2>1. \A v \in Workers : jobs'[v] # Idle => (jobs'[v].row.msg \in inbox' <=> jobs'[v].step = "stored")
      BY <1>1, <1>2, <1>4 DEF OneRow
  <2>2. \A u, v \in Workers :
            jobs'[u] # Idle /\ jobs'[v] # Idle /\ jobs'[u].row.msg = jobs'[v].row.msg => u = v
      BY <1>2, <1>4 DEF OneRow
  <2> QED BY <1>1, <1>3, <2>1, <2>2 DEF OneRow
<1>6. ToldOnce'
  <2>1. \A v \in Workers : jobs'[v] # Idle => jobs[v] # Idle /\ jobs'[v].row = jobs[v].row
      BY <1>1, <1>2 DEF row
  <2> QED BY <1>1, <1>2, <2>1, ToldDrop
<1> QED BY <1>5, <1>6

LEMMA BroadcastFacts ==
    ASSUME TypeOK, OneRow, ToldOnce, NEW w \in Workers, Broadcast(w)
    PROVE  /\ jobs[w].row.msg \in inbox /\ jobs[w] # Idle
           /\ \A v \in Workers : jobs'[v] = IF v = w THEN Idle ELSE jobs[v]
           /\ \A c \in Clients, m \in Messages :
                 heard'[c][m] = IF m = jobs[w].row.msg /\ serving /\ c \in rooms THEN 1 ELSE heard[c][m]
<1>1. jobs[w] \in Jobs /\ jobs[w] # Idle /\ jobs[w].row.msg \in inbox
    BY JobFacts DEF Broadcast, OneRow
<1>2. \A v \in Workers : jobs'[v] = IF v = w THEN Idle ELSE jobs[v]
    BY DEF Broadcast, Goes, TypeOK
<1>3. ASSUME NEW c \in Clients, NEW m \in Messages
      PROVE  heard'[c][m] = IF m = jobs[w].row.msg /\ serving /\ c \in rooms THEN 1 ELSE heard[c][m]
  <2>1. heard[c] \in [Messages -> Nat]
      BY DEF TypeOK
  <2>2. heard'[c] = IF serving /\ c \in rooms
                    THEN [heard[c] EXCEPT ![jobs[w].row.msg] = @ + 1] ELSE heard[c]
      BY DEF Broadcast, Tell, Serves
  <2>3. CASE m # jobs[w].row.msg
      BY <2>1, <2>2, <2>3
  <2>4. CASE m = jobs[w].row.msg
    <3>1. heard[c][m] = 0
      <4>1. heard[c][m] \in Nat /\ ~(heard[c][m] > 0)
          BY <1>1, <2>1, <2>4 DEF ToldOnce
      <4> QED BY <4>1
    <3> QED BY <2>1, <2>2, <2>4, <3>1
  <2> QED BY <2>3, <2>4
<1> QED BY <1>1, <1>2, <1>3

LEMMA OneRowBroadcast ==
    ASSUME TypeOK, OneRow, ToldOnce, NEW w \in Workers, Broadcast(w)
    PROVE  OneRow' /\ ToldOnce'
<1> DEFINE msg == jobs[w].row.msg
<1>1. /\ msg \in inbox /\ jobs[w] # Idle
      /\ \A v \in Workers : jobs'[v] = IF v = w THEN Idle ELSE jobs[v]
      /\ \A c \in Clients, m \in Messages :
            heard'[c][m] = IF m = msg /\ serving /\ c \in rooms THEN 1 ELSE heard[c][m]
    BY BroadcastFacts
<1>2. UNCHANGED <<inbox, rows>> /\ Idle' = Idle
    BY DEF Broadcast, table, Idle
<1>3. OneRow'
    BY <1>1, <1>2, OneRowDrop
<1>4. \A v \in Workers \ {w} : jobs[v] # Idle => jobs[v].row.msg # msg
    BY <1>1 DEF OneRow
<1> HIDE DEF msg
<1>5. ToldOnce'
    BY <1>1, <1>2, <1>4 DEF ToldOnce
<1> QED BY <1>3, <1>5

LEMMA OneRowStep == TypeOK /\ OneRow /\ ToldOnce /\ [Next]_vars => OneRow' /\ ToldOnce'
<1> SUFFICES ASSUME TypeOK, OneRow, ToldOnce, [Next]_vars PROVE OneRow' /\ ToldOnce'
    OBVIOUS
<1>1. ASSUME UNCHANGED <<inbox, rows, heard>>, \A v \in Workers : jobs'[v] \in {jobs[v], Idle}
      PROVE  OneRow' /\ ToldOnce'
    BY <1>1, OneRowDrop, ToldDrop
<1>2. CASE UNCHANGED vars
    BY <1>1, <1>2 DEF vars, table, socket
<1>3. ASSUME NEW w \in Workers, Work(w) PROVE OneRow' /\ ToldOnce'
  <2>1. CASE Rollback(w)
      BY <1>1, <2>1 DEF Rollback, Goes, table, socket, TypeOK
  <2> QED BY <1>3, <2>1, OneRowBegin, OneRowStore, OneRowBroadcast DEF Work
<1>4. CASE Crash
    BY <1>1, <1>4 DEF Crash, table
<1>5. ASSUME NEW row \in rows, ChangeStatus(row) PROVE OneRow' /\ ToldOnce'
    BY <1>1, <1>5 DEF ChangeStatus, socket
<1>6. ASSUME NEW c \in Clients, Subscribe(c) \/ Disconnect(c) PROVE OneRow' /\ ToldOnce'
    BY <1>1, <1>6 DEF Subscribe, Disconnect, table
<1>7. CASE Read
    BY <1>1, <1>7 DEF Read, StartPass, QueryItems, QueryCount, Respond, table, socket
<1> QED BY <1>2, <1>3, <1>4, <1>5, <1>6, <1>7 DEF Next

LEMMA OneRowCounts == TypeOK /\ OneRow /\ ToldOnce => OneNotification
<1> SUFFICES ASSUME TypeOK, OneRow, ToldOnce, NEW m \in Messages
             PROVE  LET n == Cardinality({r \in rows : r.msg = m})
                    IN  /\ n = (IF m \in inbox THEN 1 ELSE 0)
                        /\ \A c \in Clients : heard[c][m] <= n
    BY DEF OneNotification
<1> DEFINE R == {r \in rows : r.msg = m}
<1>1. Cardinality(R) = IF m \in inbox THEN 1 ELSE 0
  <2>1. CASE m \in inbox
    <3>1. PICK r \in rows : r.msg = m
        BY <2>1 DEF OneRow
    <3>2. R = {r}
        BY <3>1 DEF OneRow
    <3> QED BY <2>1, <3>2, FS_Singleton
  <2>2. CASE m \notin inbox
    <3>1. R = {}
        BY <2>2 DEF OneRow
    <3> QED BY <2>2, <3>1, FS_EmptySet
  <2> QED BY <2>1, <2>2
<1>2. \A c \in Clients : heard[c][m] <= IF m \in inbox THEN 1 ELSE 0
    BY DEF ToldOnce, TypeOK
<1> QED BY <1>1, <1>2

LEMMA OneRowAlways == Spec => [](OneRow /\ ToldOnce)
<1>1. Spec => []TypeOK
    BY TypeCorrect
<1> QED BY <1>1, OneRowInit, OneRowStep, PTL DEF Spec

\* However often a message is delivered, whoever crashes and whichever answers are
\* lost: one row, with the inbox row, and no client is told twice or too early.
THEOREM NotifiedOnce == Spec => []OneNotification
<1>1. Spec => []TypeOK
    BY TypeCorrect
<1> QED BY <1>1, OneRowAlways, OneRowCounts, PTL

-----------------------------------------------------------------------------
(* Who is owed a notification gets it *)

Covered(c, m) ==
    \/ heard[c][m] > 0
    \/ m \in cut
    \/ \E w \in Workers : jobs[w].step = "stored" /\ jobs[w].row.msg = m

LEMMA InformedIsCovered ==
    Informed <=> (serving => \A c \in Clients, m \in Messages : <<c, m>> \in owed => Covered(c, m))
BY DEF Informed, Covered

\* What does not send a stored message's callback away leaves all as it is.
LEMMA CoveredStays ==
    ASSUME UNCHANGED heard, cut \subseteq cut',
           \A w \in Workers : jobs[w].step = "stored" => jobs'[w] = jobs[w],
           NEW c, NEW m, Covered(c, m)
    PROVE  Covered(c, m)'
BY DEF Covered

LEMMA InformedInit == Init => OwedInRoom /\ Informed
BY DEF Init, OwedInRoom, Informed

LEMMA InformedCommit ==
    ASSUME TypeOK, OwedInRoom, Informed, NEW w \in Workers, Commit(w)
    PROVE  OwedInRoom' /\ Informed'
<1>1. jobs[w] \in Jobs /\ jobs[w].step = "open" /\ w \in DOMAIN jobs
    BY JobFacts DEF Commit, TypeOK
<1>2. \A v \in Workers : jobs[v].step = "stored" => jobs'[v] = jobs[v]
    BY <1>1 DEF Commit, Goes, TypeOK
<1>3. UNCHANGED <<rooms, serving, heard, cut>>
    BY DEF Commit
<1>4. ASSUME NEW c \in Clients, NEW m \in Messages, <<c, m>> \in owed', <<c, m>> \notin owed
      PROVE  c \in rooms /\ Covered(c, m)'
  <2>1. /\ list = "timeline" /\ m = jobs[w].row.msg /\ c \in rooms
        /\ Goes(w, [jobs[w] EXCEPT !.step = "stored"])
      BY <1>4 DEF Commit
  <2>2. jobs'[w] = [jobs[w] EXCEPT !.step = "stored"]
      BY <1>1, <2>1 DEF Goes
  <2>3. jobs'[w].step = "stored" /\ jobs'[w].row.msg = m
      BY <1>1, <2>1, <2>2 DEF Jobs
  <2> QED BY <2>1, <2>3 DEF Covered
<1>5. OwedInRoom'
    BY <1>3, <1>4 DEF OwedInRoom
<1>6. ASSUME serving', NEW c \in Clients, NEW m \in Messages, <<c, m>> \in owed'
      PROVE  Covered(c, m)'
  <2>1. CASE <<c, m>> \in owed
    <3>1. Covered(c, m)
        BY <1>3, <1>6, <2>1, InformedIsCovered
    <3> QED BY <1>2, <1>3, <3>1, CoveredStays
  <2>2. CASE <<c, m>> \notin owed
      BY <1>4, <1>6, <2>2
  <2> QED BY <2>1, <2>2
<1>7. Informed'
    BY <1>6 DEF Informed, Covered
<1> QED BY <1>5, <1>7

LEMMA InformedStep ==
    TypeOK /\ OneRow /\ ToldOnce /\ OwedInRoom /\ Informed /\ [Next]_vars => OwedInRoom' /\ Informed'
<1> SUFFICES ASSUME TypeOK, OneRow, ToldOnce, OwedInRoom, Informed, [Next]_vars
             PROVE  OwedInRoom' /\ Informed'
    OBVIOUS
<1>1. ASSUME UNCHANGED <<serving, heard>>, owed' \subseteq owed, cut \subseteq cut',
             \A w \in Workers : jobs[w].step = "stored" => jobs'[w] = jobs[w],
             \A c, m : <<c, m>> \in owed' => (c \in rooms => c \in rooms')
      PROVE  OwedInRoom' /\ Informed'
  <2>1. OwedInRoom'
      BY <1>1 DEF OwedInRoom
  <2>2. ASSUME serving', NEW c \in Clients, NEW m \in Messages, <<c, m>> \in owed'
        PROVE  Covered(c, m)'
    <3>1. Covered(c, m)
        BY <1>1, <2>2, InformedIsCovered
    <3> QED BY <1>1, <3>1, CoveredStays
  <2>3. Informed'
      BY <2>2 DEF Informed, Covered
  <2> QED BY <2>1, <2>3
<1>2. CASE UNCHANGED vars
    BY <1>1, <1>2 DEF vars, socket
<1>3. ASSUME NEW w \in Workers, Work(w) PROVE OwedInRoom' /\ Informed'
  <2>1. ASSUME NEW m \in Messages, Begin(w, m) PROVE OwedInRoom' /\ Informed'
    <3>1. \A v \in Workers : jobs[v].step = "stored" => jobs'[v] = jobs[v]
        BY <2>1 DEF Begin, Goes, Idle, TypeOK
    <3> QED BY <1>1, <2>1, <3>1 DEF Begin, socket
  <2>2. CASE Commit(w)
      BY <2>2, InformedCommit
  <2>3. CASE LostCommit(w) \/ Rollback(w)
    <3>1. \A v \in Workers : jobs[v].step = "stored" => jobs'[v] = jobs[v]
        BY <2>3 DEF LostCommit, Rollback, Goes, TypeOK
    <3> QED BY <1>1, <2>3, <3>1 DEF LostCommit, Rollback, socket
  <2>4. CASE Broadcast(w)
    <3>1. /\ jobs[w].row.msg \in inbox /\ jobs[w] # Idle
          /\ \A v \in Workers : jobs'[v] = IF v = w THEN Idle ELSE jobs[v]
          /\ \A c \in Clients, m \in Messages :
                heard'[c][m] = IF m = jobs[w].row.msg /\ serving /\ c \in rooms THEN 1
                               ELSE heard[c][m]
        BY <2>4, BroadcastFacts
    <3>2. UNCHANGED <<serving, rooms, owed, cut>>
        BY <2>4 DEF Broadcast
    <3>3. OwedInRoom'
        BY <3>2 DEF OwedInRoom
    <3>4. ASSUME serving, NEW c \in Clients, NEW m \in Messages, <<c, m>> \in owed
          PROVE  Covered(c, m)'
      <4>1. c \in rooms /\ Covered(c, m)
          BY <3>4, InformedIsCovered DEF OwedInRoom
      <4>2. CASE m = jobs[w].row.msg
        <5>1. heard'[c][m] = 1
            BY <3>1, <3>4, <4>1, <4>2
        <5> QED BY <5>1 DEF Covered
      <4>3. CASE m # jobs[w].row.msg
        <5>1. heard'[c][m] = heard[c][m]
            BY <3>1, <4>3
        <5>2. \A v \in Workers : jobs[v].row.msg = m => jobs'[v] = jobs[v]
            BY <3>1, <4>3
        <5> QED BY <3>2, <4>1, <5>1, <5>2 DEF Covered
      <4> QED BY <4>2, <4>3
    <3>5. Informed'
        BY <3>2, <3>4 DEF Informed, Covered
    <3> QED BY <3>3, <3>5
  <2> QED BY <1>3, <2>1, <2>2, <2>3, <2>4 DEF Work
<1>4. CASE Crash
  <2>1. CASE serving
      BY <1>4, <2>1 DEF Crash, OwedInRoom, Informed
  <2>2. CASE ~serving
      BY <1>4, <2>2 DEF Crash, OwedInRoom, Informed
  <2> QED BY <2>1, <2>2
<1>5. ASSUME NEW row \in rows, ChangeStatus(row) PROVE OwedInRoom' /\ Informed'
    BY <1>1, <1>5 DEF ChangeStatus, socket
<1>6. ASSUME NEW c \in Clients, Subscribe(c) PROVE OwedInRoom' /\ Informed'
    BY <1>1, <1>6 DEF Subscribe
<1>7. ASSUME NEW c \in Clients, Disconnect(c) PROVE OwedInRoom' /\ Informed'
    BY <1>1, <1>7 DEF Disconnect
<1>8. CASE Read
    BY <1>1, <1>8 DEF Read, StartPass, QueryItems, QueryCount, Respond, socket
<1> QED BY <1>2, <1>3, <1>4, <1>5, <1>6, <1>7, <1>8 DEF Next

\* In a process with a server, a client that stays in the room from the commit on
\* is told, unless the callback was cut off between commit and broadcast.
THEOREM StayersAreTold == Spec => []Informed
<1>1. Spec => []TypeOK
    BY TypeCorrect
<1> QED BY <1>1, OneRowAlways, InformedInit, InformedStep, PTL DEF Spec

-----------------------------------------------------------------------------
(* A pass over the list misses nothing *)

\* The rows of the list that sort before r.
Ahead(r) == {b \in listed : Before(b, r)}

\* A row without ties is either after or before another in every query.
LEMMA Untied ==
    ASSUME TypeOK, NEW r \in listed, ~Tied(r), NEW a \in listed, a # r, ~Before(r, a)
    PROVE  a \in Ahead(r)
<1>1. r \in rows /\ a \in rows /\ r.at \in Nat /\ a.at \in Nat
    BY TimesAssumption DEF TypeOK, Rows
<1>2. a.at # r.at
    BY <1>1 DEF Tied
<1> QED BY <1>1, <1>2 DEF Ahead, Before

LEMMA AheadFinite ==
    ASSUME IsFiniteSet(listed), NEW r
    PROVE  /\ IsFiniteSet(Ahead(r)) /\ Cardinality(Ahead(r)) \in Nat
           /\ r \in listed /\ ~Before(r, r) => Cardinality(Ahead(r)) < Cardinality(listed)
<1>1. Ahead(r) \subseteq listed
    BY DEF Ahead
<1>2. IsFiniteSet(Ahead(r)) /\ Cardinality(Ahead(r)) <= Cardinality(listed)
    BY <1>1, FS_Subset
<1>3. Cardinality(Ahead(r)) \in Nat /\ Cardinality(listed) \in Nat
    BY <1>2, FS_CardinalityType
<1>4. ASSUME r \in listed, ~Before(r, r) PROVE Cardinality(Ahead(r)) < Cardinality(listed)
  <2>1. r \notin Ahead(r)
      BY <1>4 DEF Ahead
  <2>2. Ahead(r) # listed
      BY <1>4, <2>1
  <2> QED BY <1>1, <1>2, <1>3, <2>2, FS_Subset
<1> QED BY <1>2, <1>3, <1>4

LEMMA Irreflexive == ASSUME TypeOK, NEW r \in rows PROVE ~Before(r, r)
<1>1. r.at \in Nat
    BY TimesAssumption DEF TypeOK, Rows
<1> QED BY <1>1 DEF Before

LEMMA HeadsFacts ==
    ASSUME NEW S, IsFiniteSet(S), NEW k \in Nat, NEW H \in Heads(S, k)
    PROVE  /\ H \subseteq S /\ IsFiniteSet(H) /\ Cardinality(H) \in Nat
           /\ \A a \in H, b \in S \ H : ~Before(b, a)
           /\ H # S => Cardinality(H) = k
           /\ Cardinality(H) <= k
<1>1. /\ H \subseteq S
      /\ Cardinality(H) = IF k < Cardinality(S) THEN k ELSE Cardinality(S)
      /\ \A a \in H, b \in S \ H : ~Before(b, a)
    BY DEF Heads
<1>2. IsFiniteSet(H) /\ Cardinality(H) \in Nat /\ Cardinality(S) \in Nat
    BY <1>1, FS_Subset, FS_CardinalityType
<1>3. H # S => Cardinality(H) < Cardinality(S)
    BY <1>1, <1>2, FS_Subset
<1> QED BY <1>1, <1>2, <1>3

\* What a page leaves out of the rows that sort from its offset on sorts after it,
\* whatever order the database gives to equal rows.
LEMMA PageCovers ==
    ASSUME TypeOK, IsFiniteSet(listed), NEW r \in listed, ~Tied(r), NEW offset \in Nat,
           offset <= Cardinality(Ahead(r)), NEW page \in Page(listed, offset), r \notin page
    PROVE  offset + Limit <= Cardinality(Ahead(r))
<1>1. PICK H \in Heads(listed, offset) : page \in Heads(listed \ H, Limit)
    BY Zenon DEF Page
<1> DEFINE rest == listed \ H
<1>2. /\ H \subseteq listed /\ IsFiniteSet(H) /\ Cardinality(H) \in Nat
      /\ \A a \in H, b \in rest : ~Before(b, a)
      /\ H # listed => Cardinality(H) = offset
      /\ Cardinality(H) <= offset
    BY HeadsFacts
<1>3. /\ page \subseteq rest /\ IsFiniteSet(page) /\ Cardinality(page) \in Nat
      /\ \A a \in page, b \in rest \ page : ~Before(b, a)
      /\ page # rest => Cardinality(page) = Limit
  <2>1. IsFiniteSet(rest) /\ Limit \in Nat
      BY FS_Subset, LimitAssumption
  <2> HIDE DEF rest
  <2>2. page \in Heads(rest, Limit)
      BY <1>1 DEF rest
  <2> QED BY <2>1, <2>2, HeadsFacts
<1>4. IsFiniteSet(Ahead(r)) /\ Cardinality(Ahead(r)) \in Nat
    BY AheadFinite
\* r is not among the rows that are skipped: those before it fill them.
<1>5. r \notin H
  <2> SUFFICES ASSUME r \in H PROVE FALSE
      OBVIOUS
  <2>1. Ahead(r) \subseteq H \ {r}
    <3>1. \A b \in Ahead(r) : b \in listed /\ Before(b, r) /\ b # r
        BY Irreflexive DEF Ahead, TypeOK
    <3> QED BY <1>2, <3>1
  <2>2. Cardinality(H \ {r}) = Cardinality(H) - 1 /\ IsFiniteSet(H \ {r})
      BY <1>2, FS_RemoveElement
  <2>3. Cardinality(Ahead(r)) <= Cardinality(H \ {r})
      BY <2>1, <2>2, FS_Subset
  <2> QED BY <1>2, <1>4, <2>2, <2>3
<1>6. Cardinality(H) = offset /\ Cardinality(page) = Limit
    BY <1>2, <1>3, <1>5
<1>7. H \cup page \subseteq Ahead(r)
  <2>1. \A a \in H \cup page : a \in listed /\ a # r /\ ~Before(r, a)
      BY <1>2, <1>3, <1>5
  <2> QED BY <2>1, Untied
<1>8. Cardinality(H \cup page) = offset + Limit
  <2>1. H \cap page = {}
      BY <1>3
  <2>2. Cardinality(H \cap page) = 0
      BY <2>1, FS_EmptySet
  <2>3. Cardinality(H \cup page) = Cardinality(H) + Cardinality(page) - Cardinality(H \cap page)
      BY <1>2, <1>3, FS_Union
  <2> QED BY <1>6, <2>2, <2>3, LimitAssumption
<1>9. Cardinality(H \cup page) <= Cardinality(Ahead(r))
    BY <1>4, <1>7, FS_Subset
<1> QED BY <1>8, <1>9

\* A row that the pass has not seen is still in the list, behind the pages that it
\* has been through; and if both queries of the page are answered, there is more.
Behind(r) ==
    /\ r \in listed
    /\ Cardinality(Ahead(r)) >= pass.offset + (IF "items" \in pass.queries THEN 0 ELSE Limit)
    /\ pass.queries = {} => pass.total > pass.offset + Limit

\* What a steady pass has not seen.  A count that came before the items still
\* holds when they are read.
Unmissed ==
    pass.steady =>
        IF pass.done THEN \A r \in pass.unseen : Tied(r)
        ELSE /\ pass.queries = {"items"} => pass.total = Cardinality(listed)
             /\ \A r \in pass.unseen : Tied(r) \/ Behind(r)

LEMMA TiedStays ==
    ASSUME rows \subseteq rows', NEW r, Tied(r)
    PROVE  Tied(r)'
BY DEF Tied

LEMMA ListedFinite == Typed => IsFiniteSet(listed) /\ Cardinality(listed) \in Nat
<1> SUFFICES ASSUME Typed PROVE IsFiniteSet(listed) /\ Cardinality(listed) \in Nat
    OBVIOUS
<1>1. IsFiniteSet(listed)
    BY FS_Subset DEF Typed, TypeOK
<1> QED BY <1>1, FS_CardinalityType

LEMMA UnmissedInit == Init => Unmissed
BY DEF Init, Unmissed, NoPass

\* A row that joins, wherever it sorts, or one that is no member of the list.
LEMMA UnmissedJoin ==
    ASSUME Typed, Typed', Unmissed, UNCHANGED list, rows \subseteq rows', listed \subseteq listed',
           listed' # listed /\ pass'.steady => pass.queries # {"items"},
           pass' = [pass EXCEPT !.steady = pass'.steady], pass'.steady => pass.steady
    PROVE  Unmissed'
<1> SUFFICES ASSUME pass'.steady
             PROVE  IF pass'.done THEN \A r \in pass'.unseen : Tied(r)'
                    ELSE /\ pass'.queries = {"items"} => pass'.total = Cardinality(listed')
                         /\ \A r \in pass'.unseen : Tied(r)' \/ Behind(r)'
    BY DEF Unmissed
<1>1. /\ pass'.queries = pass.queries /\ pass'.offset = pass.offset
      /\ pass'.total = pass.total /\ pass'.unseen = pass.unseen /\ pass'.done = pass.done
  <2>1. pass \in PassType(rows, Cardinality(rows)) /\ Cardinality(rows) \in Nat
      BY PassOfType, FS_CardinalityType DEF Typed
  <2> QED BY <2>1, SteadyOnly
<1>2. pass.steady
    OBVIOUS
<1>3. CASE pass.done
    BY <1>1, <1>2, <1>3, TiedStays DEF Unmissed
<1>4. CASE ~pass.done
  <2>1. pass.queries = {"items"} => pass.total = Cardinality(listed')
      BY <1>2, <1>4 DEF Unmissed
  <2>2. ASSUME NEW r \in pass.unseen, ~Tied(r) PROVE Behind(r)'
    <3>1. Behind(r)
        BY <1>2, <1>4, <2>2 DEF Unmissed
    <3>2. IsFiniteSet(listed') /\ IsFiniteSet(listed)
        BY ListedFinite, FS_Subset DEF Typed, TypeOK
    <3>3. Ahead(r) \subseteq Ahead(r)'
        BY DEF Ahead, Before
    <3>4. IsFiniteSet(Ahead(r)')
        BY <3>2, FS_Subset DEF Ahead
    <3>5. /\ Cardinality(Ahead(r)) <= Cardinality(Ahead(r)')
          /\ Cardinality(Ahead(r)) \in Nat /\ Cardinality(Ahead(r)') \in Nat
        BY <3>3, <3>4, FS_Subset, FS_CardinalityType
    <3>6. pass.offset \in Nat /\ Limit \in Nat
      <4>1. pass.offset \in 0..Cardinality(rows) /\ Cardinality(rows) \in Nat
          BY FS_CardinalityType DEF Typed, TypeOK
      <4> QED BY <4>1, LimitAssumption
    <3>7. Cardinality(Ahead(r)') >= pass.offset + (IF "items" \in pass.queries THEN 0 ELSE Limit)
        BY <3>1, <3>5, <3>6 DEF Behind
    <3> QED BY <1>1, <3>1, <3>7 DEF Behind
  <2> QED BY <1>1, <1>4, <2>1, <2>2, TiedStays
<1> QED BY <1>3, <1>4

LEMMA UnmissedStart ==
    ASSUME Typed, StartPass
    PROVE  Unmissed'
<1>1. /\ pass'.queries = {"items", "count"} /\ pass'.offset = 0 /\ pass'.unseen = listed
      /\ ~pass'.done /\ UNCHANGED <<list, listed, rows>>
    BY StartFields DEF StartPass, table
<1>2. ASSUME NEW r \in listed PROVE Behind(r)'
  <2>1. Cardinality(Ahead(r)') \in Nat
    <3>1. Ahead(r)' = Ahead(r)
        BY <1>1 DEF Ahead, Before
    <3> QED BY <3>1, ListedFinite, AheadFinite
  <2>2. Cardinality(Ahead(r)') >= pass'.offset + 0
      BY <1>1, <2>1
  <2> QED BY <1>1, <2>2 DEF Behind
<1>3. pass'.queries # {"items"}
    BY <1>1
<1> QED BY <1>1, <1>2, <1>3 DEF Unmissed

LEMMA UnmissedItems ==
    ASSUME Typed, Unmissed, QueryItems
    PROVE  Unmissed'
<1> DEFINE n == Cardinality(rows)
<1>1. pass \in PassType(rows, n) /\ n \in Nat
    BY PassOfType, FS_CardinalityType DEF Typed
<1>2. PICK page \in Page(listed, pass.offset) :
          pass' = [pass EXCEPT !.queries = @ \ {"items"}, !.unseen = @ \ page]
    BY DEF QueryItems
<1> HIDE DEF n
<1>3. /\ pass'.queries = pass.queries \ {"items"} /\ pass'.offset = pass.offset
      /\ pass'.total = pass.total /\ pass'.unseen = pass.unseen \ page
      /\ pass'.steady = pass.steady /\ pass'.done = pass.done
    BY <1>1, <1>2, ItemsFields
<1>4. "items" \in pass.queries /\ ~pass.done /\ UNCHANGED <<list, listed, rows>>
    BY DEF QueryItems, Typed, OnPage, table
<1>5. IsFiniteSet(listed) /\ Cardinality(listed) \in Nat /\ pass.offset \in Nat /\ Limit \in Nat
      /\ pass.total \in Nat
    BY <1>1, ListedFinite, PassFields, LimitAssumption
<1>6. ASSUME pass.steady, NEW r \in pass.unseen \ page, ~Tied(r) PROVE Behind(r)'
  <2>1. Behind(r)
      BY <1>4, <1>6 DEF Unmissed
  <2>2. Cardinality(Ahead(r)) >= pass.offset /\ r \in listed
      BY <1>4, <1>5, <2>1 DEF Behind
  <2>3. Cardinality(Ahead(r)) \in Nat /\ Cardinality(Ahead(r)) < Cardinality(listed)
      BY <1>5, <2>2, AheadFinite, Irreflexive DEF Typed, TypeOK
  <2>4. pass.offset + Limit <= Cardinality(Ahead(r))
      BY <1>2, <1>5, <1>6, <2>2, PageCovers DEF Typed
  <2>5. Ahead(r)' = Ahead(r)
      BY <1>4 DEF Ahead, Before
  <2>6. "items" \notin pass'.queries
      BY <1>3
  <2>7. ASSUME pass'.queries = {} PROVE pass'.total > pass'.offset + Limit
    <3>1. pass.queries = {"items"}
        BY <1>3, <1>4, <2>7
    <3>2. pass.total = Cardinality(listed)
        BY <1>4, <1>6, <3>1 DEF Unmissed
    <3> QED BY <1>3, <1>5, <2>3, <2>4, <3>2
  <2>8. Cardinality(Ahead(r)') >= pass'.offset + (IF "items" \in pass'.queries THEN 0 ELSE Limit)
      BY <1>3, <1>5, <2>3, <2>4, <2>5, <2>6
  <2> QED BY <1>4, <2>2, <2>7, <2>8 DEF Behind
<1>7. \A r : Tied(r) => Tied(r)'
    BY <1>4 DEF Tied
<1>8. pass'.queries # {"items"}
    BY <1>3
<1> QED BY <1>3, <1>4, <1>6, <1>7, <1>8 DEF Unmissed

LEMMA UnmissedCount ==
    ASSUME Typed, Unmissed, QueryCount
    PROVE  Unmissed'
<1> DEFINE n == Cardinality(rows)
<1>1. pass \in PassType(rows, n) /\ n \in Nat
    BY PassOfType, FS_CardinalityType DEF Typed
<1>2. pass' = [pass EXCEPT !.queries = @ \ {"count"}, !.total = Cardinality(listed)]
    BY DEF QueryCount
<1>3. Cardinality(listed) \in 0..n
    BY <1>1, FS_Subset, FS_CardinalityType DEF Typed, TypeOK
<1> HIDE DEF n
<1>4. /\ pass'.queries = pass.queries \ {"count"} /\ pass'.offset = pass.offset
      /\ pass'.total = Cardinality(listed) /\ pass'.unseen = pass.unseen
      /\ pass'.steady = pass.steady /\ pass'.done = pass.done
    BY <1>1, <1>2, <1>3, CountFields
<1>5. "count" \in pass.queries /\ ~pass.done /\ UNCHANGED <<list, listed, rows>>
    BY DEF QueryCount, Typed, OnPage, table
<1>6. IsFiniteSet(listed) /\ Cardinality(listed) \in Nat /\ pass.offset \in Nat /\ Limit \in Nat
    BY <1>1, ListedFinite, PassFields, LimitAssumption
<1>7. ASSUME pass.steady, NEW r \in pass.unseen, ~Tied(r) PROVE Behind(r)'
  <2>1. Behind(r)
      BY <1>5, <1>7 DEF Unmissed
  <2>2. Cardinality(Ahead(r)) \in Nat /\ Cardinality(Ahead(r)) < Cardinality(listed)
      BY <1>6, <2>1, AheadFinite, Irreflexive DEF Behind, Typed, TypeOK
  <2>3. Ahead(r)' = Ahead(r)
      BY <1>5 DEF Ahead, Before
  <2>4. "items" \in pass'.queries <=> "items" \in pass.queries
      BY <1>4
  <2>5. ASSUME pass'.queries = {} PROVE pass'.total > pass'.offset + Limit
    <3>1. "items" \notin pass.queries
        BY <2>4, <2>5
    <3>2. Cardinality(Ahead(r)) >= pass.offset + Limit
        BY <2>1, <3>1 DEF Behind
    <3> QED BY <1>4, <1>6, <2>2, <3>2
  <2> QED BY <1>4, <1>5, <2>1, <2>3, <2>4, <2>5 DEF Behind
<1>8. \A r : Tied(r) => Tied(r)'
    BY <1>5 DEF Tied
<1> QED BY <1>4, <1>5, <1>7, <1>8 DEF Unmissed

LEMMA UnmissedRespond ==
    ASSUME Typed, Unmissed, Respond
    PROVE  Unmissed'
<1> DEFINE n == Cardinality(rows)
<1>1. pass \in PassType(rows, n) /\ n \in Nat /\ OnPage
    BY PassOfType, FS_CardinalityType DEF Typed
<1> HIDE DEF n
<1>2. /\ pass'.unseen = pass.unseen /\ pass'.steady = pass.steady
      /\ IF pass.offset + Limit < pass.total
         THEN /\ pass'.offset = pass.offset + Limit /\ pass'.queries = {"items", "count"}
              /\ pass'.done = pass.done
         ELSE pass'.done = TRUE
    BY <1>1, RespondFields
<1>3. ~pass.done /\ pass.queries = {} /\ UNCHANGED <<list, listed, rows>>
    BY DEF Respond, table
<1>4. pass.offset \in Nat /\ pass.total \in Nat /\ Limit \in Nat
    BY <1>1, PassFields, LimitAssumption
<1>5. \A r : (Tied(r) => Tied(r)') /\ Ahead(r)' = Ahead(r)
    BY <1>3 DEF Tied, Ahead, Before
<1>6. ASSUME pass.steady, NEW r \in pass.unseen, ~Tied(r)
      PROVE  pass.offset + Limit < pass.total /\ Behind(r)'
  <2>1. Behind(r)
      BY <1>3, <1>6 DEF Unmissed
  <2>2. pass.offset + Limit < pass.total /\ Cardinality(Ahead(r)) >= pass.offset + Limit
      BY <1>3, <1>4, <2>1 DEF Behind
  <2>3. pass'.offset = pass.offset + Limit /\ pass'.queries = {"items", "count"}
      BY <1>2, <2>2
  <2>4. Cardinality(Ahead(r)') >= pass'.offset + (IF "items" \in pass'.queries THEN 0 ELSE Limit)
      BY <1>4, <1>5, <2>2, <2>3
  <2>5. pass'.queries # {}
      BY <2>3
  <2> QED BY <1>3, <2>1, <2>2, <2>4, <2>5 DEF Behind
<1>7. CASE pass.offset + Limit < pass.total
  <2>1. ~pass'.done /\ pass'.queries # {"items"}
      BY <1>2, <1>3, <1>7
  <2> QED BY <1>2, <1>5, <1>6, <2>1 DEF Unmissed
<1>8. CASE ~(pass.offset + Limit < pass.total)
  <2>1. pass'.done
      BY <1>2, <1>8
  <2> QED BY <1>2, <1>5, <1>6, <1>8, <2>1 DEF Unmissed
<1> QED BY <1>7, <1>8

LEMMA UnmissedStep == Typed /\ Unmissed /\ [Next]_vars => Unmissed'
<1> SUFFICES ASSUME Typed, Unmissed, [Next]_vars PROVE Unmissed'
    OBVIOUS
<1>1. Typed' /\ pass \in PassType(rows, Cardinality(rows)) /\ Cardinality(rows) \in Nat
    BY TypedStep, PassOfType, FS_CardinalityType DEF Typed
<1>2. UNCHANGED list
    BY DEF Next, vars, Work, Begin, Commit, LostCommit, Rollback, Broadcast, Crash, ChangeStatus,
        Subscribe, Disconnect, Read, StartPass, QueryItems, QueryCount, Respond
<1>3. ASSUME UNCHANGED <<pass, listed>>, rows \subseteq rows' PROVE Unmissed'
  <2>1. pass' = [pass EXCEPT !.steady = pass'.steady]
      BY <1>1, <1>3 DEF PassType
  <2> QED BY <1>1, <1>2, <1>3, <2>1, UnmissedJoin
<1>4. ASSUME NEW row, Join(row), rows \subseteq rows' PROVE Unmissed'
  <2>1. /\ pass' = [pass EXCEPT !.steady = pass'.steady]
        /\ pass'.steady <=> pass.steady /\ pass.queries # {"items"}
      BY <1>1, <1>4, JoinPass
  <2>2. listed \subseteq listed'
      BY <1>4 DEF Join
  <2> QED BY <1>1, <1>2, <1>4, <2>1, <2>2, UnmissedJoin
<1>5. ASSUME UNCHANGED rows, NEW row, Leave(row) PROVE Unmissed'
  <2>1. /\ pass' = [pass EXCEPT !.steady = pass'.steady]
        /\ pass'.steady <=> pass.steady /\ pass.done
      BY <1>1, <1>5, LeavePass
  <2>2. pass'.unseen = pass.unseen /\ pass'.done = pass.done
      BY <1>1, <2>1, SteadyOnly
  <2>3. \A r : Tied(r) => Tied(r)'
      BY <1>5 DEF Tied
  <2> QED BY <2>1, <2>2, <2>3 DEF Unmissed
<1>6. CASE Read
    BY <1>6, UnmissedStart, UnmissedItems, UnmissedCount, UnmissedRespond DEF Read
<1>7. ASSUME UNCHANGED rows, NEW row \in rows, ChangeStatus(row) PROVE Unmissed'
    BY <1>4, <1>5, <1>7 DEF ChangeStatus
<1>8. ASSUME NEW w \in Workers, jobs[w].step = "open", Store(jobs[w].row) PROVE Unmissed'
  <2>1. rows \subseteq rows' /\ (Join(jobs[w].row) \/ UNCHANGED <<listed, pass>>)
      BY <1>8 DEF Store
  <2> QED BY <1>3, <1>4, <2>1
<1>9. TypeOK
    BY DEF Typed
<1> QED BY <1>3, <1>6, <1>7, <1>8, <1>9, WhoMoves

\* A steady pass has seen every row that was in the list when it began and has a
\* createdAt of its own, for any page size and whatever is inserted meanwhile.
THEOREM PassesAreComplete == Spec => []Complete
<1>1. Spec => []Unmissed
    BY UnmissedInit, UnmissedStep, TypedAlways, PTL DEF Spec
<1>2. Unmissed => Complete
    BY DEF Unmissed, Complete
<1> QED BY <1>1, <1>2, PTL

=============================================================================
