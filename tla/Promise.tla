------------------------------ MODULE Promise ------------------------------
(***************************************************************************)
(* What jQuery.Deferred promises to those who register handlers, without   *)
(* callback lists, firing indexes or nested calls: a promise is settled at *)
(* most once, and the handlers that its outcome calls for are called once  *)
(* each, in the order in which they were registered, whether that was      *)
(* before the promise was settled, after, or during the calls.  Deferred   *)
(* implements it.                                                          *)
(***************************************************************************)
EXTENDS Sequences, SequencesExt

CONSTANTS Promises, Handlers

VARIABLES
    outcome,    \* promise -> "pending", "resolved" or "rejected"
    regs,       \* promise -> final outcome -> the handlers it calls for, in
                \* the order of their registration
    called      \* promise -> the handlers called so far, in order

vars == <<outcome, regs, called>>

Final == {"resolved", "rejected"}

Due(o, r) == IF o = "pending" THEN << >> ELSE r[o]

Init ==
    /\ outcome = [p \in Promises |-> "pending"]
    /\ regs = [p \in Promises |-> [o \in Final |-> << >>]]
    /\ called = [p \in Promises |-> << >>]

(* done, fail and always: a handler for one outcome or for both. *)
Register(p, h, on) ==
    /\ UNCHANGED <<outcome, called>>
    /\ regs' = [regs EXCEPT ![p] = [o \in Final |->
                    IF o \in on THEN Append(regs[p][o], h) ELSE regs[p][o]]]

Settle(p, o) ==
    /\ UNCHANGED <<regs, called>>
    /\ outcome[p] = "pending"
    /\ outcome' = [outcome EXCEPT ![p] = o]

Call(p, h) ==
    /\ UNCHANGED <<outcome, regs>>
    /\ called' = [called EXCEPT ![p] = Append(@, h)]
    /\ IsPrefix(called'[p], Due(outcome[p], regs[p]))

Next == \E p \in Promises :
    \/ \E h \in Handlers, on \in SUBSET Final : Register(p, h, on)
    \/ \E o \in Final : Settle(p, o)
    \/ \E h \in Handlers : Call(p, h)

Spec == Init /\ [][Next]_vars

=============================================================================
