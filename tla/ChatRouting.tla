---------------------------- MODULE ChatRouting ----------------------------
(***************************************************************************)
(* What the chat server promises about routing, without sessions, threads  *)
(* or tables of addresses: an address gets one name and keeps it, and a    *)
(* message is signed with the registered name of its sender, whatever the  *)
(* message itself says, and reaches at most one address, one that is       *)
(* registered under the name the message asks for.  ChatServer implements  *)
(* it.                                                                     *)
(***************************************************************************)
CONSTANTS Addrs, Names, Messages, null

VARIABLES
    registry,   \* address -> the name it is registered under, or null
    outcome     \* message -> null, or how it was signed and routed

vars == <<registry, outcome>>

Init ==
    /\ registry \in [Addrs -> Names \cup {null}]
    /\ outcome = [m \in Messages |-> null]

Enrol(a, n) ==
    /\ registry[a] = null
    /\ registry' = [registry EXCEPT ![a] = n]
    /\ UNCHANGED outcome

Route(m, a, group, to) ==
    /\ outcome[m] = null
    /\ registry[a] # null
    /\ \A b \in to : registry[b] = group
    /\ \A b, c \in to : b = c
    /\ outcome' = [outcome EXCEPT ![m] =
                      [from |-> a, author |-> registry[a],
                       group |-> group, to |-> to]]
    /\ UNCHANGED registry

Next ==
    \/ \E a \in Addrs, n \in Names : Enrol(a, n)
    \/ \E m \in Messages, a \in Addrs, n \in Names, to \in SUBSET Addrs :
          Route(m, a, n, to)

Spec == Init /\ [][Next]_vars

=============================================================================
