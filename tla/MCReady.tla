------------------------------ MODULE MCReady ------------------------------
(***************************************************************************)
(* A finite instance of Ready for TLC.                                     *)
(***************************************************************************)
EXTENDS Ready, TLC

CONSTANTS f1, f2, f3, anim

Registering == UNION { Registered(d) \cup watchers[d] : d \in Deferreds }

(* Handlers are alike: f2 is only used after f1, and f3 after f2. *)
InOrder ==
    /\ f2 \in Registering => f1 \in Registering
    /\ f3 \in Registering => f2 \in Registering

=============================================================================
