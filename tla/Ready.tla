------------------------------- MODULE Ready -------------------------------
(***************************************************************************)
(* $(function): the functions that wait for the document                   *)
(* (jquery-1.9.1.js, jQuery.ready and holdReady, with the browser's events *)
(* as the code listens to them).  The last lines of chat.js start the chat *)
(* client this way.  readyList is one of the page's promises; the others   *)
(* stand for those of animations, whose code interleaves with it.          *)
(***************************************************************************)
EXTENDS Deferred

CONSTANTS
    readyList,  \* the promise behind $(function)
    MaxHolds    \* holds of the ready event at a time

ASSUME ReadyAssumption == readyList \in Deferreds /\ MaxHolds \in Nat

VARIABLES
    document,   \* document.readyState
    bound,      \* readyList exists
    listening,  \* completed listens to DOMContentLoaded and load
    timer,      \* setTimeout( jQuery.ready ) has not fired yet
    isReady,
    readyWait,
    holds       \* holds that the page has not released

rvars == <<document, bound, listening, timer, isReady, readyWait, holds>>

vars == <<dvars, rvars>>

ReadyTypeOK ==
    /\ TypeOK
    /\ document \in {"loading", "interactive", "complete"}
    /\ bound \in BOOLEAN /\ listening \in BOOLEAN /\ timer \in BOOLEAN
    /\ isReady \in BOOLEAN
    /\ readyWait \in 0..(MaxHolds + 1)
    /\ holds \in 0..MaxHolds

Init ==
    /\ DeferredInit
    /\ document = "loading"
    /\ bound = FALSE /\ listening = FALSE /\ timer = FALSE
    /\ isReady = FALSE
    /\ readyWait = 1
    /\ holds = 0

(* jQuery.ready.promise: the first call creates the list and waits for the *)
(* browser; one that comes after the load event uses a timer.              *)
(* Mutant: a late first function waits for an event that has gone by. *)
mutantbindReady ==
    /\ bound' = TRUE
    /\ listening' = TRUE
    /\ UNCHANGED timer

bindReady ==
    /\ bound' = TRUE
    /\ IF bound THEN UNCHANGED <<listening, timer>>
       ELSE IF document = "complete" THEN timer' = TRUE /\ UNCHANGED listening
       ELSE listening' = TRUE /\ UNCHANGED timer

(* $(h) *)
ready(h) ==
    /\ Register(readyList, h, {"resolved"})
    /\ bindReady
    /\ UNCHANGED <<document, isReady, readyWait, holds>>

(* jQuery.ready() and, with wait, jQuery.ready(true): the guards that end  *)
(* it early, and the resolution.  The body exists whenever it comes so far.*)
(* Mutant: the event does not count the holds. *)
mutantbecomeReady(wait) ==
    LET left == readyWait - 1 IN
       IF wait THEN
          /\ readyWait' = left
          /\ IF left > 0 THEN UNCHANGED <<dvars, isReady>>
             ELSE isReady' = TRUE /\ settleWith(readyList, "done")
       ELSE
          /\ isReady' = TRUE
          /\ readyWait' = left
          /\ settleWith(readyList, "done")

(* Mutant: a release that ends the last hold counts down a second time. *)
mutantbecomeReadyTwice(wait) ==
    LET left == readyWait - 1 IN
       IF wait THEN
          IF left > 0 THEN readyWait' = left /\ UNCHANGED <<dvars, isReady>>
          ELSE /\ readyWait' = left - 1
               /\ isReady' = TRUE
               /\ settleWith(readyList, "done")
       ELSE IF isReady THEN UNCHANGED <<dvars, isReady, readyWait>>
       ELSE
          /\ isReady' = TRUE
          /\ readyWait' = left
          /\ IF left > 0 THEN UNCHANGED dvars ELSE settleWith(readyList, "done")

becomeReady(wait) ==
    LET left == readyWait - 1 IN
       IF wait THEN
          /\ readyWait' = left
          /\ IF left > 0 THEN UNCHANGED <<dvars, isReady>>
             ELSE isReady' = TRUE /\ settleWith(readyList, "done")
       ELSE IF isReady THEN UNCHANGED <<dvars, isReady, readyWait>>
       ELSE
          /\ isReady' = TRUE
          /\ readyWait' = left
          /\ IF left > 0 THEN UNCHANGED dvars ELSE settleWith(readyList, "done")

holdReady(hold) ==
    /\ PageRuns
    /\ IF hold
       THEN /\ holds < MaxHolds
            /\ holds' = holds + 1
            /\ readyWait' = readyWait + 1
            /\ UNCHANGED <<dvars, isReady>>
       ELSE /\ holds > 0
            /\ holds' = holds - 1
            /\ becomeReady(TRUE)
    /\ UNCHANGED <<document, bound, listening, timer>>

(* The browser gets on with the document between two turns of the script:  *)
(* DOMContentLoaded and then load, and completed for whoever listens.      *)
DocumentEvent ==
    /\ frames = << >>
    /\ document # "complete"
    /\ document' = IF document = "loading" THEN "interactive" ELSE "complete"
    /\ listening' = FALSE
    /\ IF listening THEN becomeReady(FALSE)
       ELSE UNCHANGED <<dvars, isReady, readyWait>>
    /\ UNCHANGED <<bound, timer, holds>>

TimerFires ==
    /\ frames = << >>
    /\ timer
    /\ timer' = FALSE
    /\ becomeReady(FALSE)
    /\ UNCHANGED <<document, bound, listening, holds>>

Next ==
    \/ (Loop \/ HandlerThrows) /\ UNCHANGED rvars
    \/ \E d \in Deferreds \ {readyList} : Use(d) /\ UNCHANGED rvars
    \/ \E h \in Handlers : ready(h)
    \/ \E hold \in BOOLEAN : holdReady(hold)
    \/ DocumentEvent
    \/ TimerFires

Spec == Init /\ [][Next]_vars

(* A turn of the script comes to its end: loops go on, and a handler that  *)
(* has been called returns or throws.  The document is loaded, timers fire,*)
(* and a page that holds the ready event releases it.                      *)
Fairness ==
    /\ WF_vars((Loop \/ HandlerThrows) /\ UNCHANGED rvars)
    /\ WF_vars(DocumentEvent)
    /\ WF_vars(TimerFires)
    /\ WF_vars(holdReady(FALSE))

FairSpec == Spec /\ Fairness

-----------------------------------------------------------------------------
(* Correctness. *)

(* Whatever handlers do while a list calls them, each promise of the page  *)
(* is settled once and calls the handlers of its outcome once each and in  *)
(* the order of their registration (the contract of Deferred).             *)
Promises == INSTANCE Promise WITH Promises <- Deferreds, outcome <- state

ImplementsPromise == Promises!Spec

(* A progress handler hears the notifications from some point on without a *)
(* gap, in order and none of them twice: those issued while the list is    *)
(* firing wait on its stack, and one added late starts with the last one.  *)
NewsInOrder ==
    \A h \in Handlers : \A i \in 1..(Len(heard[h]) - 1) :
        heard[h][i + 1] = heard[h][i] + 1

(* The first ready function is called when the document is there and the   *)
(* page holds the event back no longer (ready and holdReady count down the *)
(* same readyWait).                                                        *)
CalledWhenReady ==
    [][ (called'[readyList] # called[readyList])
           => /\ document # "loading"
              /\ ((called[readyList] = << >>) => (holds = 0)) ]_vars

(* The handlers that the outcome of the promise calls for, not called yet. *)
Waiting(d) == Range(Promises!Due(state[d], regs[d])) \ Range(called[d])

Broken(d) == { <<d, "done">>, <<d, "fail">> } \cap threw # {}

(* A promise comes to the end of the handlers that its outcome calls for,  *)
(* unless one of them has thrown: the list then believes for ever that it  *)
(* is firing.                                                              *)
Delivered ==
    \A d \in Deferreds : (Waiting(d) # {}) ~> (Waiting(d) = {} \/ Broken(d))

(* $(function) loses no function: however early or late they come, they    *)
(* have all been called in the end, with the same exception.               *)
ReadyRuns ==
    (bound) ~> (Registered(readyList) = Range(called[readyList]) \/ Broken(readyList))

=============================================================================
