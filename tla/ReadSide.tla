------------------------------ MODULE ReadSide ------------------------------
(***************************************************************************)
(* What clients get to see of the other modules' work: the notification of  *)
(* every event, in the timeline and over a WebSocket, and lists of orders,  *)
(* payments and shipments read page by page while rows are being written.   *)
(*                                                                         *)
(* A row is written by a callback of a consumer, in the transaction of its  *)
(* inbox row (an order by a request that is the only one to write it).      *)
(* createdAt is the clock of the process that makes the entity, before its  *)
(* transaction commits: rows become visible in another order than their     *)
(* createdAt, and may have the same.                                       *)
(***************************************************************************)
EXTENDS Naturals, FiniteSets

CONSTANTS
    Messages,  \* messages about one order, each handled into a row
    Times,     \* what the processes' clocks may show
    Workers,   \* callbacks that handle messages concurrently
    Clients,   \* WebSocket clients interested in the order
    Limit,     \* page size
    MaxFaults  \* bound: crashes and lost answers in a behaviour

ASSUME TimesAssumption == Times \subseteq Nat
ASSUME LimitAssumption == Limit \in Nat \ {0}
ASSUME MaxFaultsAssumption == MaxFaults \in Nat

VARIABLES
    list,     \* which list the client pages through
    serving,  \* is the WebSocket server in the process that handles messages?
    jobs,     \* what each callback is doing
    inbox,    \* messages with an inbox row
    rows,     \* committed rows: the message and createdAt
    listed,   \* rows that match the list's filter
    rooms,    \* clients in the order's room
    owed,     \* <<c, m>>: c has been in the room since m was committed
    heard,    \* times each client was told of each message
    cut,      \* messages whose handling ended between commit and broadcast
    pass,     \* the client's way through the list
    faults    \* faults so far

table == <<inbox, rows, listed>>
socket == <<rooms, owed, heard, cut>>
vars == <<list, serving, jobs, table, socket, pass, faults>>

\* The notifications of an order, oldest first; or the entities of a status,
\* newest first.
Lists == {"timeline", "status"}

Idle == [step |-> "idle"]
Rows == [msg : Messages, at : Times]
Jobs == [step : {"open", "stored"}, row : Rows]

\* A pass over the list: queries of a page that are not answered, its offset,
\* the count, and the rows the list had at the beginning that were not seen yet.
NoPass == [queries |-> {}, offset |-> 0, total |-> 0, unseen |-> {},
           steady |-> TRUE, done |-> TRUE]

\* Tests handle messages in the process of the HTTP server; in the deployment
\* the consumers are processes of their own, without a WebSocket server.
Init ==
    /\ list \in Lists
    /\ serving \in BOOLEAN
    /\ jobs = [w \in Workers |-> Idle]
    /\ inbox = {}
    /\ rows = {}
    /\ listed = {}
    /\ rooms = {}
    /\ owed = {}
    /\ heard = [c \in Clients |-> [m \in Messages |-> 0]]
    /\ cut = {}
    /\ pass = NoPass
    /\ faults = 0

Fault == faults < MaxFaults /\ faults' = faults + 1

-----------------------------------------------------------------------------
(* A callback handles a message *)

Goes(w, job) == jobs' = [jobs EXCEPT ![w] = job]

\* Without the unique key on (message_id, handler_name).
MutKeyFree(m) == TRUE

\* The insert of the inbox row fails on a row that is there, and waits for one
\* that is being inserted.
KeyFree(m) ==
    /\ m \notin inbox
    /\ \A w \in Workers : jobs[w] # Idle => jobs[w].row.msg # m

\* storeInboxMessage, and a new entity with its createdAt.
Begin(w, m) ==
    /\ jobs[w] = Idle
    /\ KeyFree(m)
    /\ \E at \in Times : Goes(w, [step |-> "open", row |-> [msg |-> m, at |-> at]])
    /\ UNCHANGED <<list, serving, table, socket, pass, faults>>

\* A row comes into the list or leaves it, perhaps during a pass.  steady notes
\* that the pass was not met in one of the ways that make it miss rows: a row
\* left, or one came between the count and the items of a page.
Join(row) ==
    /\ listed' = listed \cup {row}
    /\ pass' = [pass EXCEPT !.steady = @ /\ pass.queries # {"items"}]

Leave(row) ==
    /\ listed' = listed \ {row}
    /\ pass' = [pass EXCEPT !.steady = @ /\ pass.done]

\* The row becomes visible with the inbox row.  An entity may have the status
\* that the list asks for or another.
Store(row) ==
    /\ inbox' = inbox \cup {row.msg}
    /\ rows' = rows \cup {row}
    /\ \/ Join(row)
       \/ list = "status" /\ UNCHANGED <<listed, pass>>

Commit(w) ==
    /\ jobs[w].step = "open"
    /\ Store(jobs[w].row)
    /\ IF list = "timeline"
       THEN /\ Goes(w, [jobs[w] EXCEPT !.step = "stored"])
            /\ owed' = owed \cup {<<c, jobs[w].row.msg>> : c \in rooms}
       ELSE Goes(w, Idle) /\ UNCHANGED owed
    /\ UNCHANGED <<list, serving, rooms, heard, cut, faults>>

\* The transaction commits, but persistNotification throws: no broadcast, and
\* the next attempt meets the inbox row.
LostCommit(w) ==
    /\ Fault
    /\ jobs[w].step = "open"
    /\ Store(jobs[w].row)
    /\ Goes(w, Idle)
    /\ cut' = cut \cup {jobs[w].row.msg}
    /\ UNCHANGED <<list, serving, rooms, owed, heard>>

\* The handler throws; the message will be delivered or tried again.
Rollback(w) ==
    /\ jobs[w].step = "open"
    /\ Goes(w, Idle)
    /\ UNCHANGED <<list, serving, table, socket, pass, faults>>

\* Skip when there is a server.
MutServes == ~serving

\* Without a server the gateway logs a warning and returns.
Serves == serving

Tell(m) ==
    heard' = [c \in Clients |->
                 IF Serves /\ c \in rooms THEN [heard[c] EXCEPT ![m] = @ + 1] ELSE heard[c]]

\* Broadcast from inside the transaction.
MutBroadcast(w) ==
    /\ jobs[w].step = "open"
    /\ Tell(jobs[w].row.msg)
    /\ UNCHANGED <<list, serving, jobs, table, rooms, owed, cut, pass, faults>>

\* broadcastToOrder.
Broadcast(w) ==
    /\ jobs[w].step = "stored"
    /\ Tell(jobs[w].row.msg)
    /\ Goes(w, Idle)
    /\ UNCHANGED <<list, serving, table, rooms, owed, cut, pass, faults>>

\* The process with the callbacks dies, and with it the sockets it serves.
Crash ==
    /\ Fault
    /\ \E w \in Workers : jobs[w] # Idle
    /\ jobs' = [w \in Workers |-> Idle]
    /\ cut' = cut \cup {jobs[w].row.msg : w \in {v \in Workers : jobs[v].step = "stored"}}
    /\ IF serving THEN rooms' = {} /\ owed' = {} ELSE UNCHANGED <<rooms, owed>>
    /\ UNCHANGED <<list, serving, table, heard, pass>>

-----------------------------------------------------------------------------
(* Other modules, WebSocket clients *)

\* A transaction changes an entity's status, from or to the one asked for.
ChangeStatus(row) ==
    /\ list = "status"
    /\ IF row \in listed THEN Leave(row) ELSE Join(row)
    /\ UNCHANGED <<list, serving, jobs, inbox, rows, socket, faults>>

\* handleSubscribeToOrder.
Subscribe(c) ==
    /\ list = "timeline"
    /\ rooms' = rooms \cup {c}
    /\ UNCHANGED <<list, serving, jobs, table, owed, heard, cut, pass, faults>>

Disconnect(c) ==
    /\ c \in rooms
    /\ rooms' = rooms \ {c}
    /\ owed' = {d \in owed : d[1] # c}
    /\ UNCHANGED <<list, serving, jobs, table, heard, cut, pass, faults>>

-----------------------------------------------------------------------------
(* A client pages through the list *)

\* No orderBy.
MutBefore(a, b) == FALSE

\* orderBy: { createdAt: 'ASC' } or 'DESC'.  Rows with the same createdAt come
\* in any order, and not the same one in every query.
Before(a, b) == IF list = "timeline" THEN a.at < b.at ELSE b.at < a.at

\* What the first k rows of S can be.
Heads(S, k) ==
    {H \in SUBSET S :
        /\ Cardinality(H) = IF k < Cardinality(S) THEN k ELSE Cardinality(S)
        /\ \A a \in H, b \in S \ H : ~Before(b, a)}

\* LIMIT and OFFSET.
Page(S, offset) == UNION {Heads(S \ H, Limit) : H \in Heads(S, offset)}

\* A page too many after a last page that is full.
MutPages(total) == total \div Limit + 1

\* totalPages.
Pages(total) == (total + Limit - 1) \div Limit

StartPass ==
    /\ pass.done
    /\ pass' = [NoPass EXCEPT !.queries = {"items", "count"}, !.unseen = listed, !.done = FALSE]
    /\ UNCHANGED <<list, serving, jobs, table, socket, faults>>

\* findAndCount is two queries, each with a snapshot of its own.
QueryItems ==
    /\ "items" \in pass.queries
    /\ \E page \in Page(listed, pass.offset) :
          pass' = [pass EXCEPT !.queries = @ \ {"items"}, !.unseen = @ \ page]
    /\ UNCHANGED <<list, serving, jobs, table, socket, faults>>

QueryCount ==
    /\ "count" \in pass.queries
    /\ pass' = [pass EXCEPT !.queries = @ \ {"count"}, !.total = Cardinality(listed)]
    /\ UNCHANGED <<list, serving, jobs, table, socket, faults>>

\* Having got its answer, the client asks for the next page, if there is one.
Respond ==
    /\ ~pass.done
    /\ pass.queries = {}
    /\ pass' = IF pass.offset \div Limit + 1 < Pages(pass.total)
               THEN [pass EXCEPT !.offset = @ + Limit, !.queries = {"items", "count"}]
               ELSE [pass EXCEPT !.done = TRUE]
    /\ UNCHANGED <<list, serving, jobs, table, socket, faults>>

-----------------------------------------------------------------------------
Work(w) ==
    \/ \E m \in Messages : Begin(w, m)
    \/ Commit(w) \/ LostCommit(w) \/ Rollback(w) \/ Broadcast(w)

Read == StartPass \/ QueryItems \/ QueryCount \/ Respond

Next ==
    \/ \E w \in Workers : Work(w)
    \/ Crash
    \/ \E row \in rows : ChangeStatus(row)
    \/ \E c \in Clients : Subscribe(c) \/ Disconnect(c)
    \/ Read

Spec == Init /\ [][Next]_vars

-----------------------------------------------------------------------------
(* Properties *)

\* The types of the variables; a client that goes by totalPages asks for no page
\* that cannot exist.
TypeOK ==
    /\ list \in Lists
    /\ serving \in BOOLEAN
    /\ jobs \in [Workers -> {Idle} \cup Jobs]
    /\ inbox \subseteq Messages
    /\ rows \subseteq Rows
    /\ listed \subseteq rows
    /\ rooms \subseteq Clients
    /\ owed \subseteq Clients \X Messages
    /\ heard \in [Clients -> [Messages -> Nat]]
    /\ cut \subseteq Messages
    /\ pass \in [queries : SUBSET {"items", "count"},
                 offset : 0..Cardinality(rows), total : 0..Cardinality(rows),
                 unseen : SUBSET rows, steady : BOOLEAN, done : BOOLEAN]
    /\ pass.offset > 0 => pass.offset < Cardinality(rows)
    /\ faults \in 0..MaxFaults

\* However often a message is delivered and whichever answers are lost: it leaves
\* one row in the timeline, with its inbox row, and a client is told of it at most
\* once, and only if it is there ("Broadcast only after the database transaction
\* successfully completed/committed", base-notification.processor.ts:45).
OneNotification ==
    \A m \in Messages :
        LET n == Cardinality({r \in rows : r.msg = m})
        IN  /\ n = (IF m \in inbox THEN 1 ELSE 0)
            /\ \A c \in Clients : heard[c][m] <= n

\* A client that stays in the room from the commit on is told, unless the
\* process died or lost the answer of the database in between (what it was not
\* told then no retry makes up for), or has no WebSocket server.
Informed ==
    serving => \A c \in Clients, m \in Messages : <<c, m>> \in owed =>
        \/ heard[c][m] > 0
        \/ m \in cut
        \/ \E w \in Workers : jobs[w].step = "stored" /\ jobs[w].row.msg = m

Tied(row) == \E r \in rows \ {row} : r.at = row.at

\* A pass over the list misses no row that was in it from the beginning, whatever
\* is inserted meanwhile and wherever; unless a row left the list, or came between
\* the two queries of a page, or has the createdAt of another.
Complete ==
    pass.done /\ pass.steady => \A r \in pass.unseen : Tied(r)

=============================================================================
