------------------------------ MODULE Effects ------------------------------
(***************************************************************************)
(* The queues, animations and timers of jQuery's effects                   *)
(* (jquery-1.9.1.js: queue, dequeue, delay, animate, stop, finish,         *)
(* Animation, jQuery.fx), and the highlight of a chat box (chatbox.js)     *)
(* with the lock that the end of its animation releases.                   *)
(*                                                                         *)
(* A turn of the script begins with a call of the page, a tick of the      *)
(* interval timer or a timeout.  Within a turn one call leads to the next, *)
(* the end of an animation to the dequeue and so to the start of another,  *)
(* while a loop of stop, finish or tick waits to go on.  Each of these     *)
(* calls and each round of a loop is a step; the operators map a state of  *)
(* the effects to the next, and have the names of the functions.           *)
(***************************************************************************)
EXTENDS Integers, Sequences, FiniteSets, SequencesExt

CONSTANTS
    Widgets,        \* elements that code of the page animates freely
    title, box,     \* the title bar and the frame of a chat box
    Durations,      \* lengths of animations, in ticks; 0 is possible
    MaxCalls,       \* calls of animate, delay and effect
    MaxStops,       \* calls of stop and finish
    null

ASSUME EffectsAssumption ==
    /\ Durations \subseteq Nat
    /\ \E d \in Durations : \A c \in Durations : c <= d
    /\ MaxCalls \in Nat /\ MaxStops \in Nat
    /\ title \notin Widgets /\ box \notin Widgets /\ title # box

Elements == Widgets \cup {title, box}

VARIABLES
    fx,         \* the state of the effects
    calls,      \* how many calls were made; they are numbered
    stops,      \* how many calls of stop and finish were made
    forgotten,  \* elements that had a delay whose timeout nobody can clear
    stranded    \* elements whose running delay was stopped without a dequeue

vars == <<fx, calls, stops, forgotten, stranded>>

Ids == 1..MaxCalls

Longest == CHOOSE d \in Durations : \A c \in Durations : c <= d

(* What a queue holds: the functions of animate, delay and effect, the end *)
(* of a bounce, and the progress sentinel.  part tells the animations of   *)
(* one bounce apart.                                                       *)
Job == [op : {"animate", "delay", "highlight", "bounce", "bounced"},
        id : Ids, part : 0..2, left : Nat]

inprogress == [op |-> "inprogress", id |-> 0, part |-> 0, left |-> 0]

Item == Job \cup {inprogress}

(* An entry of jQuery.timers.  The end of an animation dequeues the        *)
(* element or not; settled says that its deferred is, because it has come  *)
(* to its end or was stopped.  An entry that is settled has no elem any    *)
(* more for the code (delete tick.elem): here it keeps the field, and      *)
(* every search by element passes it over.                                 *)
Timer == [elem : Elements, id : Ids, part : 0..2, left : Nat,
          queued : BOOLEAN, dequeues : BOOLEAN, settled : BOOLEAN]

(* What is called next: dequeue, or what an animation outside of the queue *)
(* does when it is settled.                                                *)
Frame == [do : {"dequeue", "always"}, elem : Elements]

(* The code that goes on after that: the loops over jQuery.timers, of stop *)
(* and finish from the last to the first, and the second effect of         *)
(* highlightBox.  dequeue is the variable of stop; rest is the old queue,  *)
(* which finish comes to after the timers.                                 *)
NoLoop == [do |-> "none"]

Loop ==
    [do : {"stop"}, elem : Widgets, at : Nat, gotoEnd : BOOLEAN, dequeue : BOOLEAN]
    \cup [do : {"finish"}, elem : Widgets, at : Nat, rest : Seq(Item)]
    \cup [do : {"tick"}, at : Nat]
    \cup [do : {"effect"}, id : Ids]
    \cup {NoLoop}

(* cur and stop are the fields of the queue's hooks, finish the finishing  *)
(* flag.  begun, completed and cut are the history of the calls: started,  *)
(* callback called, given up by stop, finish or remove.                    *)
State ==
    [queue : [Elements -> Seq(Item)], cur : [Elements -> Item \cup {null}],
     stop : [Elements -> Nat], unqueued : [Elements -> Nat],
     finish : [Elements -> BOOLEAN],
     timers : Seq(Timer), timerId : BOOLEAN,
     timeouts : SUBSET (Elements \X Ids),
     removed : BOOLEAN, highlightLock : BOOLEAN,
     begun : [Elements -> Seq(Ids)], completed : [Ids -> Nat], cut : SUBSET Ids,
     todo : Seq(Frame), loop : Loop]

(* The finishing flag is set while finish runs. *)
TypeOK ==
    /\ fx \in State
    /\ \A e \in Elements : fx.finish[e] = (fx.loop.do = "finish" /\ fx.loop.elem = e)
    /\ calls \in 0..MaxCalls
    /\ stops \in 0..MaxStops
    /\ forgotten \subseteq Elements /\ stranded \subseteq Elements

Init ==
    /\ fx = [queue |-> [e \in Elements |-> << >>],
             cur |-> [e \in Elements |-> null],
             stop |-> [e \in Elements |-> 0],
             unqueued |-> [e \in Elements |-> 0],
             finish |-> [e \in Elements |-> FALSE],
             timers |-> << >>, timerId |-> FALSE, timeouts |-> {},
             removed |-> FALSE, highlightLock |-> FALSE,
             begun |-> [e \in Elements |-> << >>],
             completed |-> [i \in Ids |-> 0], cut |-> {},
             todo |-> << >>, loop |-> NoLoop]
    /\ calls = 0
    /\ stops = 0
    /\ forgotten = {} /\ stranded = {}

-----------------------------------------------------------------------------
(* Queues and animations. *)

(* e is dequeued, or the always handler of an animation of e called,       *)
(* before the rest of the turn.                                            *)
toDequeue(e) == [do |-> "dequeue", elem |-> e]
toAlways(e) == [do |-> "always", elem |-> e]

Before(S, frame) == [S EXCEPT !.todo = <<frame>> \o @]

dropHooks(S, e) == [S EXCEPT !.cur[e] = null, !.stop[e] = 0, !.unqueued[e] = 0]

(* hooks.empty.fire: the hooks go, unless an animation outside of the      *)
(* queue still needs them.                                                 *)
emptyFire(S, e) == IF S.unqueued[e] = 0 THEN dropHooks(S, e) ELSE S

Count(S, id) == [S EXCEPT !.completed[id] = @ + 1]

(* The always handler of an animation outside of the queue. *)
always(S, e) ==
    LET U == [S EXCEPT !.unqueued[e] = IF @ = 0 THEN 0 ELSE @ - 1]
    IN  IF U.queue[e] = << >> THEN emptyFire(U, e) ELSE U

settledAlways(S, a) == IF a.queued THEN S ELSE Before(S, toAlways(a.elem))

(* The callbacks of an animation that has come to its end.  Those of a     *)
(* bounce have none of their own.                                          *)
complete(S, a) ==
    LET C == settledAlways(IF a.part = 0 THEN Count(S, a.id) ELSE S, a)
    IN  IF a.dequeues THEN Before(C, toDequeue(a.elem)) ELSE C

(* anim.stop: resolve or reject.  i is the position in timers. *)
(* Mutant: an animation that was stopped goes on. *)
mutantstopAnimation(S, i, gotoEnd) ==
    LET a == S.timers[i]
    IN  IF a.settled THEN S
        ELSE IF gotoEnd THEN complete(S, a)
        ELSE settledAlways([S EXCEPT !.cut = @ \cup {a.id}], a)

stopAnimation(S, i, gotoEnd) ==
    LET a == S.timers[i]
        T == [S EXCEPT !.timers[i].settled = TRUE]
    IN  IF a.settled THEN S
        ELSE IF gotoEnd THEN complete(T, a)
        ELSE settledAlways([T EXCEPT !.cut = @ \cup {a.id}], a)

(* jQuery.fx.timer *)
(* Mutant: nobody starts the interval timer. *)
mutanttimer(S, a) == [S EXCEPT !.timers = Append(@, a)]

timer(S, a) == [S EXCEPT !.timers = Append(@, a), !.timerId = TRUE]

(* The first tick of an animation comes at once, and only one that it does *)
(* not end joins the timers.                                               *)
Animation(S, a) ==
    LET B == [S EXCEPT !.begun[a.elem] = IF a.dequeues THEN Append(@, a.id) ELSE @,
                       !.unqueued[a.elem] = IF a.queued THEN @ ELSE @ + 1]
        R == timer(B, a)
    IN  IF a.left = 0 THEN complete(B, a)
        ELSE IF S.finish[a.elem] THEN stopAnimation(R, Len(R.timers), TRUE)
        ELSE R

doAnimation(S, e, it) ==
    Animation(S, [elem |-> e, id |-> it.id, part |-> it.part, left |-> it.left,
                  queued |-> TRUE, dequeues |-> TRUE, settled |-> FALSE])

(* jQuery UI: the highlight animates outside of the queue and dequeues at  *)
(* its end; the bounce puts its own animations, and its end, at the head   *)
(* of the queue.                                                           *)
effectHighlight(S, e, it) ==
    Animation(S, [elem |-> e, id |-> it.id, part |-> 0, left |-> it.left,
                  queued |-> FALSE, dequeues |-> TRUE, settled |-> FALSE])

effectBounce(S, e, it) ==
    LET animation(n) == [op |-> "animate", id |-> it.id, part |-> n, left |-> it.left]
    IN  Before([S EXCEPT !.queue[e] =
            << inprogress, animation(1), animation(2), [it EXCEPT !.op = "bounced"] >> \o Tail(@)],
            toDequeue(e))

(* The callback of highlightBox; effect then calls next. *)
(* Mutant: the callback leaves the lock set. *)
mutanteffectBounced(S, e, it) == Before(Count(S, it.id), toDequeue(e))

effectBounced(S, e, it) ==
    Before([Count(S, it.id) EXCEPT !.highlightLock = FALSE], toDequeue(e))

delayBegins(S, e, it) ==
    [S EXCEPT !.timeouts = @ \cup {<<e, it.id>>}, !.stop[e] = it.id,
              !.begun[e] = Append(@, it.id)]

(* dequeue of an empty queue. *)
emptied(S, e) == emptyFire([S EXCEPT !.queue[e] = << >>, !.cur[e] = null], e)

dequeue(S, e) ==
    LET q == S.queue[e]
        rest == IF q # << >> /\ Head(q) = inprogress THEN Tail(q) ELSE q
        fn == Head(rest)
        D == [S EXCEPT !.queue[e] = << inprogress >> \o Tail(rest),
                       !.cur[e] = fn, !.stop[e] = 0]
    IN  IF rest = << >> THEN emptied(S, e)
        ELSE CASE fn.op = "animate" -> doAnimation(D, e, fn)
               [] fn.op = "delay" -> delayBegins(D, e, fn)
               [] fn.op = "highlight" -> effectHighlight(D, e, fn)
               [] fn.op = "bounce" -> effectBounce(D, e, fn)
               [] fn.op = "bounced" -> effectBounced(D, e, fn)

(* fn.queue *)
(* Mutant: the new function goes to the head of those that wait. *)
mutantqueue(S, e, it) ==
    LET q == S.queue[e] IN
       IF q # << >> /\ Head(q) = inprogress
       THEN [S EXCEPT !.queue[e] = << inprogress, it >> \o Tail(q)]
       ELSE Before([S EXCEPT !.queue[e] = << it >> \o q], toDequeue(e))

queue(S, e, it) ==
    LET Q == [S EXCEPT !.queue[e] = Append(@, it)] IN
       IF Head(Q.queue[e]) = inprogress THEN Q ELSE Before(Q, toDequeue(e))

IdsIn(q) == { q[i].id : i \in DOMAIN q } \ {0}

clearQueue(S, e) == emptied([S EXCEPT !.cut = @ \cup IdsIn(S.queue[e])], e)

-----------------------------------------------------------------------------
(* Ending animations early. *)

(* The timer at i is found by a search for those of e. *)
Of(S, i, e) == S.timers[i].elem = e /\ ~S.timers[i].settled

HasTimer(S, e) == \E i \in DOMAIN S.timers : Of(S, i, e)

(* fn.stop without a type, up to its loop.  The hooks of a cleared queue   *)
(* are gone, and with them the function that would clear the timeout of a  *)
(* delay.                                                                  *)
stop(S, e, clear, gotoEnd) ==
    LET C == IF clear THEN clearQueue(S, e) ELSE S
        H == IF C.stop[e] = 0 THEN C
             ELSE [C EXCEPT !.timeouts = @ \ {<<e, C.stop[e]>>}, !.stop[e] = 0,
                            !.cut = @ \cup { i \in Ids : i = C.stop[e] /\ <<e, i>> \in C.timeouts }]
    IN  [H EXCEPT !.loop = [do |-> "stop", elem |-> e, at |-> Len(H.timers),
                            gotoEnd |-> gotoEnd, dequeue |-> TRUE]]

(* The end of stop. *)
(* Mutant: an animation that was stopped short leaves the queue waiting. *)
mutantstopEnds(S, l) ==
    LET N == [S EXCEPT !.loop = NoLoop]
    IN  IF l.dequeue THEN Before(N, toDequeue(l.elem)) ELSE N

stopEnds(S, l) ==
    LET N == [S EXCEPT !.loop = NoLoop]
    IN  IF l.dequeue \/ ~l.gotoEnd THEN Before(N, toDequeue(l.elem)) ELSE N

NextRound(S) == [S EXCEPT !.loop.at = @ - 1]

(* anim.stop and the splice after it.  The callbacks, which come next,     *)
(* only append to the timers.                                              *)
settleAndSplice(S, i, gotoEnd) ==
    NextRound([stopAnimation(S, i, gotoEnd) EXCEPT !.timers = RemoveAt(@, i)])

(* A round of its loop over the timers. *)
stopLoop(S) ==
    LET l == S.loop IN
       IF l.at = 0 THEN stopEnds(S, l)
       ELSE IF ~Of(S, l.at, l.elem) THEN NextRound(S)
       ELSE settleAndSplice([S EXCEPT !.loop.dequeue = FALSE], l.at, l.gotoEnd)

(* fn.finish, up to its loops.  hooks.cur.finish stops the animation that  *)
(* is at work; what is not an animation has no finish.                     *)
finish(S, e) ==
    LET F == [S EXCEPT !.finish[e] = TRUE, !.queue[e] = << >>,
                       !.loop = [do |-> "finish", elem |-> e, at |-> Len(S.timers),
                                 rest |-> S.queue[e]]]
        cur == { i \in DOMAIN S.timers :
                    /\ S.cur[e] # null
                    /\ S.timers[i].elem = e
                    /\ S.timers[i].id = S.cur[e].id
                    /\ S.timers[i].part = S.cur[e].part
                    /\ S.timers[i].queued }
    IN  IF cur = {} THEN F ELSE stopAnimation(F, CHOOSE i \in cur : TRUE, TRUE)

(* Mutant: the finishing flag stays. *)
mutantfinishEnds(S, l) == [S EXCEPT !.loop = NoLoop]

finishEnds(S, l) == [S EXCEPT !.loop = NoLoop, !.finish[l.elem] = FALSE]

(* A round of its loop over the timers, then of the one over the old       *)
(* queue, whose animations begin and end at once.                          *)
finishLoop(S) ==
    LET l == S.loop
        T == [S EXCEPT !.loop.rest = Tail(@)]
    IN  IF l.at > 0
        THEN IF Of(S, l.at, l.elem) /\ S.timers[l.at].queued
             THEN settleAndSplice(S, l.at, TRUE) ELSE NextRound(S)
        ELSE IF l.rest = << >> THEN finishEnds(S, l)
        ELSE IF Head(l.rest).op = "animate" THEN doAnimation(T, l.elem, Head(l.rest))
        ELSE [T EXCEPT !.cut = @ \cup IdsIn(<<Head(l.rest)>>)]

-----------------------------------------------------------------------------
(* The clock. *)

(* jQuery.fx.tick after `passed` ticks of time: fxNow is the same for all  *)
(* timers, and an animation that this tick starts begins with it.          *)
tick(S, passed) ==
    [S EXCEPT !.loop = [do |-> "tick", at |-> 1],
              !.timers = [i \in DOMAIN S.timers |->
                  [S.timers[i] EXCEPT !.left = IF @ > passed THEN @ - passed ELSE 0]]]

tickLoop(S) ==
    LET i == S.loop.at
        a == S.timers[i]
    IN  IF i > Len(S.timers) THEN [S EXCEPT !.loop = NoLoop, !.timerId = S.timers # << >>]
        ELSE IF a.settled THEN [S EXCEPT !.timers = RemoveAt(@, i)]
        ELSE IF a.left > 0 THEN [S EXCEPT !.loop.at = @ + 1]
        ELSE complete([S EXCEPT !.timers[i].settled = TRUE], a)

-----------------------------------------------------------------------------
(* The steps. *)

(* The timeout of a delay that stop and the next dequeue know nothing of. *)
Forgetting(S, e) == \E t \in S.timeouts : t[1] = e /\ S.stop[e] # t[2]

Becomes(S) ==
    /\ fx' = S
    /\ forgotten' = forgotten \cup { e \in Elements : Forgetting(S, e) }

BetweenTurns == fx.todo = << >> /\ fx.loop = NoLoop

Call(S) == BetweenTurns /\ Becomes(S) /\ UNCHANGED <<stops, stranded>>

Animate(e) ==
    /\ calls < MaxCalls
    /\ calls' = calls + 1
    /\ \E left \in Durations :
          Call(queue(fx, e, [op |-> "animate", id |-> calls + 1, part |-> 0, left |-> left]))

(* animate with the option queue: false *)
AnimateUnqueued(e) ==
    /\ calls < MaxCalls
    /\ calls' = calls + 1
    /\ \E left \in Durations :
          Call(Animation(fx, [elem |-> e, id |-> calls + 1, part |-> 0, left |-> left,
                              queued |-> FALSE, dequeues |-> FALSE, settled |-> FALSE]))

Delay(e) ==
    /\ calls < MaxCalls
    /\ calls' = calls + 1
    /\ Call(queue(fx, e, [op |-> "delay", id |-> calls + 1, part |-> 0, left |-> 0]))

(* addMsg and highlightBox *)
HighlightBox ==
    /\ ~fx.removed /\ ~fx.highlightLock
    /\ calls + 1 < MaxCalls
    /\ calls' = calls + 2
    /\ LET L == [fx EXCEPT !.highlightLock = TRUE,
                           !.loop = [do |-> "effect", id |-> calls + 2]]
       IN  Call(queue(L, title, [op |-> "highlight", id |-> calls + 1, part |-> 0, left |-> Longest]))

(* The box is closed: cleanData forgets its queues and hooks. *)
RemoveBox ==
    LET Gone(S, e) == dropHooks([S EXCEPT !.queue[e] = << >>,
                                          !.cut = @ \cup IdsIn(S.queue[e])], e)
    IN  /\ ~fx.removed
        /\ Call([Gone(Gone(fx, title), box) EXCEPT !.removed = TRUE])
        /\ UNCHANGED calls

Stop(e) == \E clear, gotoEnd \in BOOLEAN :
    /\ BetweenTurns
    /\ stops < MaxStops
    /\ stops' = stops + 1
    /\ Becomes(stop(fx, e, clear, gotoEnd))
    /\ stranded' = IF <<e, fx.stop[e]>> \in fx.timeouts /\ gotoEnd /\ HasTimer(fx, e)
                   THEN stranded \cup {e} ELSE stranded
    /\ UNCHANGED calls

Finish(e) ==
    /\ BetweenTurns
    /\ stops < MaxStops
    /\ stops' = stops + 1
    /\ Becomes(finish(fx, e))
    /\ UNCHANGED <<calls, stranded>>

(* A page in the background is called less often than every 13 ms. *)
Tick ==
    /\ fx.timerId
    /\ \E passed \in {1, Longest} : Call(tick(fx, passed))
    /\ UNCHANGED calls

TimeoutFires ==
    /\ \E t \in fx.timeouts :
          Call(Before([fx EXCEPT !.timeouts = @ \ {t}, !.completed[t[2]] = @ + 1],
                      toDequeue(t[1])))
    /\ UNCHANGED calls

(* The turn goes on. *)
Goes(S) == Becomes(S) /\ UNCHANGED <<calls, stops, stranded>>

Called == LET f == Head(fx.todo)
              S == [fx EXCEPT !.todo = Tail(@)]
          IN  /\ fx.todo # << >>
              /\ \/ f.do = "dequeue" /\ Goes(dequeue(S, f.elem))
                 \/ f.do = "always" /\ Goes(always(S, f.elem))

Loops ==
    /\ fx.todo = << >>
    /\ \/ fx.loop.do = "stop" /\ Goes(stopLoop(fx))
       \/ fx.loop.do = "finish" /\ Goes(finishLoop(fx))
       \/ fx.loop.do = "tick" /\ Goes(tickLoop(fx))
       \/ /\ fx.loop.do = "effect"
          /\ Goes(queue([fx EXCEPT !.loop = NoLoop], box,
                        [op |-> "bounce", id |-> fx.loop.id, part |-> 0, left |-> 1]))

Turn == Called \/ Loops

Next ==
    \/ \E e \in Widgets : Animate(e) \/ AnimateUnqueued(e) \/ Delay(e) \/ Stop(e) \/ Finish(e)
    \/ HighlightBox
    \/ RemoveBox
    \/ Tick
    \/ TimeoutFires
    \/ Turn

Spec == Init /\ [][Next]_vars

(* A turn that has begun goes on, and the browser's clock runs: these are  *)
(* WF_vars(Turn), WF_vars(Tick) and WF_vars(TimeoutFires), with the        *)
(* conditions under which the steps are enabled written out.               *)
Fairness ==
    /\ []<>BetweenTurns \/ []<><<Turn>>_vars
    /\ []<>~(BetweenTurns /\ fx.timerId) \/ []<><<Tick>>_vars
    /\ []<>~(BetweenTurns /\ fx.timeouts # {}) \/ []<><<TimeoutFires>>_vars

FairSpec == Spec /\ Fairness

-----------------------------------------------------------------------------
(* Correctness. *)

(* What will dequeue e in its own time. *)
Running(e) ==
    { <<fx.timers[i].id, fx.timers[i].part>> : i \in { j \in DOMAIN fx.timers :
          fx.timers[j].elem = e /\ fx.timers[j].dequeues /\ ~fx.timers[j].settled } }
    \cup { <<t[2], 0>> : t \in { u \in fx.timeouts : u[1] = e } }

(* The sentinel does what the comment in dequeue says: while one function  *)
(* of a queue is at work, no other one of that queue begins, however       *)
(* animations end, are stopped, finished or start each other; and they     *)
(* begin in the order of the calls.  The exception to the first is an      *)
(* element with a delay that was forgotten by a stop.                      *)
InTurn ==
    /\ \A e \in Elements \ forgotten : Cardinality(Running(e)) <= 1
    /\ \A e \in Elements : \A i \in 1..(Len(fx.begun[e]) - 1) :
          fx.begun[e][i] <= fx.begun[e][i + 1]

(* After a turn no queue waits for nobody: it begins with the sentinel,    *)
(* and something is at work that will dequeue it, if by the interval timer *)
(* then with the interval on.  The exception is an element whose delay was *)
(* stopped together with an animation outside of the queue.                *)
Driven ==
    /\ BetweenTurns =>
          \A e \in Elements \ stranded : fx.queue[e] # << >> =>
              Head(fx.queue[e]) = inprogress /\ Running(e) # {}
    /\ fx.timers # << >> => fx.timerId

(* The callback of a call is called once at most, and never after the call *)
(* was given up.                                                           *)
CalledOnce ==
    \A i \in Ids : /\ fx.completed[i] <= 1
                   /\ (i \in fx.cut) => (fx.completed[i] = 0)

(* Every call comes to its end or is given up, but for those that wait in  *)
(* the queue of an element whose delay was stopped as above: time and      *)
(* again, no other call made so far is left.                               *)
Settles ==
    []<>(\A i \in 1..calls :
            \/ fx.completed[i] = 1
            \/ i \in fx.cut
            \/ \E e \in stranded : i \in IdsIn(fx.queue[e]))

(* highlightLock does not stay set: the next message can highlight the box *)
(* again, unless the box is gone.                                          *)
LockReleased == fx.highlightLock ~> (~fx.highlightLock \/ fx.removed)

=============================================================================
