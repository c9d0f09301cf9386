------------------------------ MODULE Mailbox ------------------------------
(***************************************************************************)
(* What a module's consumer promises the senders of messages: one that was  *)
(* published stays queued until it has been handled, is parked for an       *)
(* operator, is of no concern to the module, or was given up for another    *)
(* message; and it is handled at most once, however often it was published. *)
(***************************************************************************)
EXTENDS Naturals

CONSTANTS Messages, Unwanted

VARIABLES
    published,  \* messages that ever reached the mailbox
    queued,     \* those of which the mailbox still has a copy
    effects,    \* effects[m]: times m was handled
    parked,     \* messages put aside
    lost        \* messages given up for another one

vars == <<published, queued, effects, parked, lost>>

Init ==
    /\ published = {}
    /\ queued = {}
    /\ effects = [m \in Messages |-> 0]
    /\ parked = {}
    /\ lost = {}

Publish(m) ==
    /\ published' = published \cup {m}
    /\ queued' = queued \cup {m}
    /\ UNCHANGED <<effects, parked, lost>>

Handle(m) ==
    /\ m \in published
    /\ effects[m] = 0
    /\ effects' = [effects EXCEPT ![m] = 1]
    /\ UNCHANGED <<published, queued, parked, lost>>

Park(m) ==
    /\ m \in published
    /\ parked' = parked \cup {m}
    /\ UNCHANGED <<published, queued, effects, lost>>

\* The messages of L are given up, those of F have no copy any more.
Forget(F, L) ==
    /\ L \subseteq published
    /\ lost' = lost \cup L
    /\ \A m \in F : m \in Unwanted \cup parked \cup lost' \/ effects[m] > 0
    /\ queued' = queued \ F
    /\ UNCHANGED <<published, effects, parked>>

Next ==
    \/ \E m \in Messages : Publish(m) \/ Handle(m) \/ Park(m)
    \/ \E F, L \in SUBSET Messages : Forget(F, L)

Spec == Init /\ [][Next]_vars

=============================================================================
