---------------------------- MODULE AtLeastOnce ----------------------------
(***************************************************************************)
(* What a transactional outbox promises the rest of the system.  A stored   *)
(* row is sent until it is settled, and not after.  A sender whose          *)
(* connections have held settles only what the broker has received; one     *)
(* that has lost a connection may also settle what is on its way or went    *)
(* with a connection.  The broker may receive a row several times.          *)
(***************************************************************************)
EXTENDS Naturals

CONSTANTS Rows, Senders

VARIABLES
    accepted,   \* the stored rows
    underway,   \* the rows of which a copy is on its way
    delivered,  \* delivered[r]: copies of r the broker has received
    lost,       \* the rows of which a copy went with a connection
    settled,    \* the rows that will not be sent again
    shaken      \* the senders that have lost a connection since they started

vars == <<accepted, underway, delivered, lost, settled, shaken>>

Init ==
    /\ accepted = {}
    /\ underway = {}
    /\ delivered = [r \in Rows |-> 0]
    /\ lost = {}
    /\ settled = {}
    /\ shaken = {}

Accept(r) ==
    /\ r \notin accepted
    /\ accepted' = accepted \cup {r}
    /\ UNCHANGED <<underway, delivered, lost, settled, shaken>>

Send(R) ==
    /\ R \subseteq accepted \ settled
    /\ underway' = underway \cup R
    /\ UNCHANGED <<accepted, delivered, lost, settled, shaken>>

\* Another copy may still be on its way.
Deliver(r) ==
    /\ r \in underway
    /\ delivered' = [delivered EXCEPT ![r] = @ + 1]
    /\ underway' \in {underway, underway \ {r}}
    /\ UNCHANGED <<accepted, lost, settled, shaken>>

\* What a sender loses with a connection, or when it dies.
Lose(R) ==
    /\ R \subseteq underway
    /\ lost' = lost \cup R
    /\ underway \ R \subseteq underway' /\ underway' \subseteq underway
    /\ UNCHANGED <<accepted, delivered, settled>>

Break(s, R) == Lose(R) /\ shaken' = shaken \cup {s}

Restart(s, R) == Lose(R) /\ shaken' = shaken \ {s}

Settle(s, R) ==
    /\ \A r \in R : \/ delivered[r] > 0
                    \/ s \in shaken /\ r \in lost \cup underway
    /\ settled' = settled \cup R
    /\ UNCHANGED <<accepted, underway, delivered, lost, shaken>>

Next ==
    \/ \E r \in Rows : Accept(r) \/ Deliver(r)
    \/ \E R \in SUBSET Rows :
          \/ Send(R)
          \/ \E s \in Senders : Break(s, R) \/ Restart(s, R) \/ Settle(s, R)

Spec == Init /\ [][Next]_vars

=============================================================================
