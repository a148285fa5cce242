------------------------------ MODULE Deferred ------------------------------
(***************************************************************************)
(* jQuery.Callbacks and jQuery.Deferred (plugin/.../js/jquery-1.9.1.js):   *)
(* the promises of the page, each with a callback list for done, fail and  *)
(* progress.                                                               *)
(*                                                                         *)
(* There is one thread, but a list calls functions of the page in the      *)
(* middle of its loop, and they may add handlers to the list that calls    *)
(* them, settle this or another promise, or throw.  So the loops that have *)
(* begun are frames of a stack; code of the page runs when the stack is    *)
(* empty or the innermost loop has called a handler that has not returned. *)
(***************************************************************************)
EXTENDS Naturals, Sequences, SequencesExt

CONSTANTS
    Deferreds,  \* the promises of the page
    Handlers,   \* functions of the page, each registered once at most
    MaxNews,    \* progress notifications of a promise
    null

VARIABLES
    state,      \* deferred -> "pending", "resolved" or "rejected"
    lists,      \* deferred -> kind -> callback list
    frames,     \* the loops of fire that have begun, the innermost first
    regs,       \* deferred -> outcome -> the handlers registered for it
    watchers,   \* deferred -> its progress handlers
    called,     \* deferred -> the handlers of its outcome called so far
    heard,      \* handler -> the notifications it was called with
    news,       \* deferred -> notifications its list took so far
    threw       \* the loops that an exception of a handler has cut short

dvars == <<state, lists, frames, regs, watchers, called, heard, news, threw>>

Kinds == {"done", "fail", "progress"}

Other(k) == IF k = "done" THEN "fail" ELSE "done"

Outcome(k) == IF k = "done" THEN "resolved" ELSE "rejected"

(* The three callbacks that Deferred itself puts at the head of the lists, *)
(* and those of the page.                                                  *)
Internal == {"settle", "disable", "lock"}

Entry == Internal \cup Handlers

ASSUME DeferredAssumption ==
    /\ MaxNews \in Nat
    /\ Handlers \cap Internal = {}
    /\ null \notin Handlers \cup Nat \cup Seq(Entry) \cup Seq(Nat)

(* A callback list; null for undefined.  Data is a number: a notification, *)
(* or 0 for the arguments of resolve and reject.                           *)
CallbackList ==
    [list : {null} \cup Seq(Entry), stack : {null} \cup Seq(Nat),
     firing : BOOLEAN, memory : Nat \cup {null}, fired : BOOLEAN,
     firingIndex : Nat, firingStart : Nat, firingLength : Nat]

Frame == [of : Deferreds, kind : Kinds, running : Handlers \cup {null}]

TypeOK ==
    /\ state \in [Deferreds -> {"pending", "resolved", "rejected"}]
    /\ lists \in [Deferreds -> [Kinds -> CallbackList]]
    /\ frames \in Seq(Frame)
    /\ regs \in [Deferreds -> [{"resolved", "rejected"} -> Seq(Handlers)]]
    /\ watchers \in [Deferreds -> SUBSET Handlers]
    /\ called \in [Deferreds -> Seq(Handlers)]
    /\ heard \in [Handlers -> Seq(Nat)]
    /\ news \in [Deferreds -> 0..MaxNews]
    /\ threw \subseteq Deferreds \X Kinds

-----------------------------------------------------------------------------
(* jQuery.Callbacks: what the methods do to a list. *)

(* Mutant: a promise that is resolved can still be rejected. *)
mutantNewList(k) ==
    [list |-> IF k = "progress" THEN << >> ELSE <<"settle", "lock">>,
     stack |-> IF k = "progress" THEN << >> ELSE null,
     firing |-> FALSE, memory |-> null, fired |-> FALSE,
     firingIndex |-> 0, firingStart |-> 0, firingLength |-> 0]

NewList(k) ==
    [list |-> IF k = "progress" THEN << >> ELSE <<"settle", "disable", "lock">>,
     stack |-> IF k = "progress" THEN << >> ELSE null,
     firing |-> FALSE, memory |-> null, fired |-> FALSE,
     firingIndex |-> 0, firingStart |-> 0, firingLength |-> 0]

fire(c, data) ==
    [c EXCEPT !.memory = data, !.fired = TRUE, !.firingIndex = c.firingStart,
              !.firingStart = 0, !.firingLength = Len(c.list), !.firing = TRUE]

disable(c) == [c EXCEPT !.list = null, !.stack = null, !.memory = null]

lock(c) == IF c.memory = null THEN disable(c) ELSE [c EXCEPT !.stack = null]

(* Mutant: the loop under way does not notice a longer list. *)
mutantaddUnnoticed(c, e) ==
    LET longer == [c EXCEPT !.list = Append(@, e)] IN
    CASE c.list = null -> c
      [] c.list # null /\ ~c.firing /\ c.memory # null ->
            fire([longer EXCEPT !.firingStart = Len(c.list)], c.memory)
      [] OTHER -> longer

(* Mutant: a late callback makes the whole list fire again. *)
mutantaddFromStart(c, e) ==
    LET longer == [c EXCEPT !.list = Append(@, e)] IN
    CASE c.list = null -> c
      [] c.list # null /\ c.firing ->
            [longer EXCEPT !.firingLength = Len(longer.list)]
      [] c.list # null /\ ~c.firing /\ c.memory # null ->
            fire(longer, c.memory)
      [] OTHER -> longer

add(c, e) ==
    LET longer == [c EXCEPT !.list = Append(@, e)] IN
    CASE c.list = null -> c
      [] c.list # null /\ c.firing ->
            [longer EXCEPT !.firingLength = Len(longer.list)]
      [] c.list # null /\ ~c.firing /\ c.memory # null ->
            fire([longer EXCEPT !.firingStart = Len(c.list)], c.memory)
      [] OTHER -> longer

fireWith(c, data) ==
    CASE c.list = null \/ (c.fired /\ c.stack = null) -> c
      [] c.list # null /\ c.stack # null /\ c.firing ->
            [c EXCEPT !.stack = Append(@, data)]
      [] OTHER -> fire(c, data)

(* The end of the loop of fire. *)
endFire(c) ==
    LET over == [c EXCEPT !.firing = FALSE] IN
    CASE c.list = null -> over
      [] c.list # null /\ c.stack = << >> -> over
      [] c.list # null /\ c.stack \notin {null, << >>} ->
            fire([over EXCEPT !.stack = Tail(@)], Head(c.stack))
      [] c.list # null /\ c.stack = null ->
            IF c.memory # null THEN [over EXCEPT !.list = << >>]
            ELSE disable(over)

-----------------------------------------------------------------------------
(* The code of the page and the loops it starts. *)

DeferredInit ==
    /\ state = [d \in Deferreds |-> "pending"]
    /\ lists = [d \in Deferreds |-> [k \in Kinds |-> NewList(k)]]
    /\ frames = << >>
    /\ regs = [d \in Deferreds |-> [o \in {"resolved", "rejected"} |-> << >>]]
    /\ watchers = [d \in Deferreds |-> {}]
    /\ called = [d \in Deferreds |-> << >>]
    /\ heard = [h \in Handlers |-> << >>]
    /\ news = [d \in Deferreds |-> 0]
    /\ threw = {}

PageRuns == (frames # << >>) => (Head(frames).running # null)

(* The loop that a call of add or fireWith has started, if it has. *)
Started(d, k, c) ==
    IF c.firing /\ ~lists[d][k].firing
    THEN << [of |-> d, kind |-> k, running |-> null] >> ELSE << >>

Registered(d) == Range(regs[d]["resolved"]) \cup Range(regs[d]["rejected"])

Fresh(h) == \A d \in Deferreds : h \notin Registered(d) \cup watchers[d]

(* done, fail and always: on is the set of outcomes that h is meant for.   *)
(* always passes it to done and then to fail; a promise that is settled    *)
(* has disabled one of them, so that one loop is started at most.          *)
Register(d, h, on) ==
    LET new == [k \in {"done", "fail"} |->
                   IF Outcome(k) \in on THEN add(lists[d][k], h) ELSE lists[d][k]]
    IN  /\ PageRuns
        /\ Fresh(h)
        /\ lists' = [lists EXCEPT ![d]["done"] = new["done"], ![d]["fail"] = new["fail"]]
        /\ frames' = Started(d, "done", new["done"]) \o Started(d, "fail", new["fail"]) \o frames
        /\ regs' = [regs EXCEPT ![d] = [o \in {"resolved", "rejected"} |->
                        IF o \in on THEN Append(regs[d][o], h) ELSE regs[d][o]]]
        /\ UNCHANGED <<state, watchers, called, heard, news, threw>>

progress(d, h) ==
    LET c == add(lists[d]["progress"], h) IN
        /\ PageRuns
        /\ Fresh(h)
        /\ lists' = [lists EXCEPT ![d]["progress"] = c]
        /\ frames' = Started(d, "progress", c) \o frames
        /\ watchers' = [watchers EXCEPT ![d] = @ \cup {h}]
        /\ UNCHANGED <<state, regs, called, heard, news, threw>>

(* resolveWith and rejectWith: the fireWith of the list. *)
settleWith(d, k) ==
    LET c == fireWith(lists[d][k], 0) IN
        /\ lists' = [lists EXCEPT ![d][k] = c]
        /\ frames' = Started(d, k, c) \o frames
        /\ UNCHANGED <<state, regs, watchers, called, heard, news, threw>>

notifyWith(d) ==
    LET c == fireWith(lists[d]["progress"], news[d] + 1) IN
        /\ PageRuns
        /\ news[d] < MaxNews
        /\ lists' = [lists EXCEPT ![d]["progress"] = c]
        /\ frames' = Started(d, "progress", c) \o frames
        /\ news' = IF c = lists[d]["progress"] THEN news ELSE [news EXCEPT ![d] = @ + 1]
        /\ UNCHANGED <<state, regs, watchers, called, heard, threw>>

-----------------------------------------------------------------------------
(* One pass of the innermost loop of fire. *)

Looping == frames # << >> /\ Head(frames).running = null

Current == LET f == Head(frames) IN lists[f.of][f.kind]

HasNext(c) == c.list # null /\ c.firingIndex < c.firingLength

Callback(c) == c.list[c.firingIndex + 1]

(* The lists m of a promise after a callback b of Deferred in list k. *)
afterCall(m, k, b) ==
    [j \in Kinds |->
        CASE j = k -> [m[j] EXCEPT !.firingIndex = @ + 1]
          [] j # k /\ j = Other(k) /\ b = "disable" -> disable(m[j])
          [] j # k /\ j = "progress" /\ b = "lock" -> lock(m[j])
          [] OTHER -> m[j]]

(* The callback is one of Deferred's own. *)
CallInternal ==
    LET d == Head(frames).of
        k == Head(frames).kind
    IN  /\ Looping
        /\ HasNext(Current)
        /\ Callback(Current) \in Internal
        /\ state' = IF Callback(Current) = "settle"
                    THEN [state EXCEPT ![d] = Outcome(k)] ELSE state
        /\ lists' = [lists EXCEPT ![d] = afterCall(lists[d], k, Callback(Current))]
        /\ UNCHANGED <<frames, regs, watchers, called, heard, news, threw>>

(* The callback is a handler of the page; it begins to run. *)
CallHandler ==
    LET d == Head(frames).of
        k == Head(frames).kind
        h == Callback(Current)
    IN  /\ Looping
        /\ HasNext(Current)
        /\ h \in Handlers
        /\ frames' = [frames EXCEPT ![1].running = h]
        /\ IF k = "progress"
           THEN /\ heard' = [heard EXCEPT ![h] = Append(@, Current.memory)]
                /\ UNCHANGED called
           ELSE /\ called' = [called EXCEPT ![d] = Append(@, h)]
                /\ UNCHANGED heard
        /\ UNCHANGED <<state, lists, regs, watchers, news, threw>>

(* It returns, and the loop goes on. *)
HandlerReturns ==
    /\ frames # << >>
    /\ Head(frames).running # null
    /\ lists' = [lists EXCEPT ![Head(frames).of][Head(frames).kind].firingIndex = @ + 1]
    /\ frames' = [frames EXCEPT ![1].running = null]
    /\ UNCHANGED <<state, regs, watchers, called, heard, news, threw>>

(* It throws: the exception leaves every loop on the stack, and each of    *)
(* these lists keeps its firing flag.                                      *)
HandlerThrows ==
    /\ frames # << >>
    /\ Head(frames).running # null
    /\ threw' = threw \cup { <<frames[i].of, frames[i].kind>> : i \in DOMAIN frames }
    /\ frames' = << >>
    /\ UNCHANGED <<state, lists, regs, watchers, called, heard, news>>

(* The loop is over; it fires again for data that came in meanwhile. *)
EndLoop ==
    LET f == Head(frames)
        c == endFire(Current)
    IN  /\ Looping
        /\ ~HasNext(Current)
        /\ lists' = [lists EXCEPT ![f.of][f.kind] = c]
        /\ frames' = IF c.firing THEN frames ELSE Tail(frames)
        /\ UNCHANGED <<state, regs, watchers, called, heard, news, threw>>

Loop == CallInternal \/ CallHandler \/ HandlerReturns \/ EndLoop

(* What code of the page may do with a promise. *)
Use(d) ==
    \/ \E h \in Handlers :
          \/ \E on \in SUBSET {"resolved", "rejected"} \ {{}} : Register(d, h, on)
          \/ progress(d, h)
    \/ \E k \in {"done", "fail"} : PageRuns /\ settleWith(d, k)
    \/ notifyWith(d)

DeferredNext == Loop \/ HandlerThrows \/ \E d \in Deferreds : Use(d)

DeferredSpec == DeferredInit /\ [][DeferredNext]_dvars

=============================================================================
