---------------------------- MODULE EffectsProofs ----------------------------
(***************************************************************************)
(* Proofs about Effects, for every set of elements, every set of lengths   *)
(* that has a longest, and every number of calls.                          *)
(*                                                                         *)
(* The properties of Effects speak of the states the page can see.  The    *)
(* invariant speaks of those within a turn as well, where a function was   *)
(* taken out of a queue and has not begun, or where the loop of stop will  *)
(* dequeue an element that nothing else drives.  It is Sound, a formula    *)
(* about one state of the effects, and every function of jQuery has a      *)
(* lemma that says it leads from a sound state to a sound one.             *)
(*                                                                         *)
(* A state of the effects has fifteen fields.  The lemmas whose names end  *)
(* in Way say which of them an operator changes and how, and the others,   *)
(* which end in Step, use nothing else of the operator.                    *)
(***************************************************************************)
EXTENDS Effects, FiniteSetTheorems, SequenceTheorems, TLAPS

(* The animations that will dequeue e, the delays that will, and the call  *)
(* that does so next.                                                      *)
AtWork(S, e) ==
    { j \in DOMAIN S.timers :
        S.timers[j].elem = e /\ S.timers[j].dequeues /\ ~S.timers[j].settled }

(* The timeouts of the delays of e. *)
Delayed(S, e) == { t \in S.timeouts : t[1] = e }

(* The next call is the dequeue of e. *)
Due(S, e) == S.todo # << >> /\ S.todo[1] = toDequeue(e)

(* What is left of the queue of e, also while finish goes through it. *)
Waiting(S, e) ==
    IF S.loop.do = "finish" /\ S.loop.elem = e THEN S.loop.rest ELSE S.queue[e]

(* The functions that code puts into the queue of e. *)
Fits(e, it) ==
    it # inprogress =>
        /\ e \in Widgets => it.op \in {"animate", "delay"} /\ it.part = 0
        /\ e = title => it.op = "highlight" /\ it.part = 0
        /\ e = box => /\ it.op \in {"animate", "bounce", "bounced"}
                      /\ it.op # "animate" => it.part = 0

(* What the elements, the timers and the loops are like. *)
Shape(S) ==
    /\ \A k \in DOMAIN S.todo : k > 1 => S.todo[k].do = "always"
    /\ \A e \in Elements : \A k \in DOMAIN S.queue[e] : Fits(e, S.queue[e][k])
    /\ \A j \in DOMAIN S.timers : S.timers[j].elem \in Widgets =>
          S.timers[j].part = 0 /\ (S.timers[j].dequeues => S.timers[j].queued)
    /\ S.timeouts \subseteq Widgets \X Ids
    /\ S.timers # << >> => S.timerId
    /\ S.loop.do = "finish" =>
          /\ S.queue[S.loop.elem] = << >>
          /\ \A k \in DOMAIN S.loop.rest : Fits(S.loop.elem, S.loop.rest[k])
    /\ S.loop.do \in {"stop", "finish"} => S.loop.at <= Len(S.timers)
    /\ S.loop.do = "tick" => S.loop.at > 0
    /\ S.loop.do = "effect" => ~S.removed

(* The loop of stop will dequeue the element. *)
WillDequeue(S) == S.loop.do = "stop" /\ (S.loop.dequeue \/ ~S.loop.gotoEnd)

(* Until it does, no animation of the element goes on behind it. *)
Swept(S) ==
    WillDequeue(S) =>
        /\ \A e \in Elements : ~Due(S, e)
        /\ \A j \in DOMAIN S.timers : j > S.loop.at =>
              S.timers[j].elem # S.loop.elem \/ S.timers[j].settled

(* An animation is at work behind a sentinel, unless its queue was taken   *)
(* away: then it is still ahead of the loop that will end it.              *)
Claimed(S, e) ==
    \A j \in AtWork(S, e) :
        \/ S.queue[e] # << >> /\ S.queue[e][1] = inprogress
        \/ S.removed /\ e \notin Widgets
        \/ S.loop.do \in {"stop", "finish"} /\ S.loop.elem = e /\ j <= S.loop.at

(* One thing is at work for e, and the hooks of its queue know the delay. *)
OneAtWork(S, e) ==
    /\ \A j, k \in AtWork(S, e) : j = k
    /\ \A t \in Delayed(S, e) : S.stop[e] = t[2]
    /\ Delayed(S, e) # {} \/ Due(S, e) => AtWork(S, e) = {}
    /\ Claimed(S, e)

(* A queue that is not empty begins with the sentinel, or is dequeued      *)
(* next.                                                                   *)
Headed(S) ==
    \A e \in Elements : S.queue[e] # << >> => S.queue[e][1] = inprogress \/ Due(S, e)

(* Something is at work for e: stop counts until its dequeue, if it meets  *)
(* no timer that it runs to its end.                                       *)
Attended(S, e) ==
    S.queue[e] # << >> =>
        \/ AtWork(S, e) # {} \/ Delayed(S, e) # {} \/ Due(S, e)
        \/ /\ S.loop.do = "stop" /\ S.loop.elem = e
           /\ S.loop.gotoEnd => S.loop.dequeue /\ ~HasTimer(S, e)

(* The order of the calls, in a queue and after those that have begun. *)
Ordered(q) ==
    \A j, k \in DOMAIN q : j < k =>
        q[j].id <= q[k].id /\ (q[j].part = 0 => q[j].id < q[k].id)

(* In each queue the calls are in order, and none is before one that has   *)
(* begun.                                                                  *)
InOrder(S) == \A e \in Elements :
    /\ Ordered(Waiting(S, e))
    /\ \A m, n \in DOMAIN S.begun[e] : m <= n => S.begun[e][m] <= S.begun[e][n]
    /\ \A m \in DOMAIN S.begun[e], k \in DOMAIN Waiting(S, e) :
          Waiting(S, e)[k] # inprogress => S.begun[e][m] <= Waiting(S, e)[k].id

(* The places where a call can be: over, in a queue, an animation that     *)
(* will call back, a timeout, or to come in this turn.                     *)
Over(S, i) == S.completed[i] > 0 \/ i \in S.cut

(* The elements whose queue holds the call i. *)
Waits(S, i) == { e \in Elements : \E k \in DOMAIN Waiting(S, e) : Waiting(S, e)[k].id = i }

(* The animations that will call the callback of i at their end. *)
Calls(S, i) ==
    { j \in DOMAIN S.timers :
        S.timers[j].id = i /\ S.timers[j].part = 0 /\ ~S.timers[j].settled }

(* The elements with a timeout of the delay i. *)
Sleeps(S, i) == { e \in Elements : <<e, i>> \in S.timeouts }

(* i is the second effect of highlightBox, still to come. *)
Second(S, i) == S.loop.do = "effect" /\ S.loop.id = i

(* The call i is in no place. *)
Fresh(S, i) ==
    ~Over(S, i) /\ Waits(S, i) = {} /\ Calls(S, i) = {} /\ Sleeps(S, i) = {} /\ ~Second(S, i)

(* A call is in one place. *)
InOnePlace(S, i) ==
    /\ S.completed[i] <= 1
    /\ i \in S.cut => S.completed[i] = 0
    /\ Over(S, i) => Waits(S, i) = {} /\ Calls(S, i) = {} /\ Sleeps(S, i) = {} /\ ~Second(S, i)
    /\ Waits(S, i) # {} => Calls(S, i) = {} /\ Sleeps(S, i) = {} /\ ~Second(S, i)
    /\ Calls(S, i) # {} => Sleeps(S, i) = {} /\ ~Second(S, i)
    /\ Sleeps(S, i) # {} => ~Second(S, i)
    /\ \A x, y \in Waits(S, i) : x = y
    /\ \A x, y \in Calls(S, i) : x = y
    /\ \A x, y \in Sleeps(S, i) : x = y

(* Every call is. *)
Placed(S) == \A i \in Ids : InOnePlace(S, i)

(* A number above c was not given to a call yet. *)
NoneToCome(S, c) ==
    /\ \A i \in Ids : i > c => Fresh(S, i)
    /\ \A e \in Elements : \A m \in DOMAIN S.begun[e] : S.begun[e][m] <= c
    /\ S.loop.do = "effect" =>
         /\ \A m \in DOMAIN S.begun[box] : S.begun[box][m] <= S.loop.id
         /\ \A k \in DOMAIN S.queue[box] : S.queue[box][k].id < S.loop.id

-----------------------------------------------------------------------------
(* Sequences. *)

(* What RemoveAt leaves. *)
LEMMA Removed ==
    ASSUME NEW T, NEW s \in Seq(T), NEW i \in 1..Len(s)
    PROVE  /\ RemoveAt(s, i) \in Seq(T)
           /\ Len(RemoveAt(s, i)) = Len(s) - 1
           /\ \A j \in 1..(Len(s) - 1) :
                 RemoveAt(s, i)[j] = IF j < i THEN s[j] ELSE s[j + 1]
<1>. DEFINE f == SubSeq(s, 1, i - 1)
            g == SubSeq(s, i + 1, Len(s))
<1>1. /\ Len(s) \in Nat /\ Len(s) >= 1 /\ i \in Nat /\ i # 0
      /\ \A j \in 1..Len(s) : s[j] \in T
  BY LenProperties
<1>2. RemoveAt(s, i) = f \o g
  BY DEF RemoveAt
<1>3. /\ f \in Seq(T) /\ Len(f) = i - 1
      /\ \A j \in 1..(i - 1) : f[j] = s[j]
  <2>1. /\ f \in Seq(T)
        /\ Len(f) = IF 1 <= i - 1 THEN (i - 1) - 1 + 1 ELSE 0
        /\ \A j \in 1..((i - 1) - 1 + 1) : f[j] = s[1 + j - 1]
    BY <1>1, SubSeqProperties
  <2>. QED BY <1>1, <2>1
<1>4. /\ g \in Seq(T) /\ Len(g) = Len(s) - i
      /\ \A j \in 1..(Len(s) - i) : g[j] = s[j + i]
  <2>1. /\ g \in Seq(T)
        /\ Len(g) = IF i + 1 <= Len(s) THEN Len(s) - (i + 1) + 1 ELSE 0
        /\ \A j \in 1..(Len(s) - (i + 1) + 1) : g[j] = s[(i + 1) + j - 1]
    BY <1>1, SubSeqProperties
  <2>. QED BY <1>1, <2>1
<1>. HIDE DEF f, g
<1>5. /\ f \o g \in Seq(T) /\ Len(f \o g) = Len(f) + Len(g)
      /\ \A j \in 1..(Len(f) + Len(g)) :
            (f \o g)[j] = IF j <= Len(f) THEN f[j] ELSE g[j - Len(f)]
  BY <1>3, <1>4, ConcatProperties
<1>6. ASSUME NEW j \in 1..(Len(s) - 1)
      PROVE  (f \o g)[j] = IF j < i THEN s[j] ELSE s[j + 1]
  <2>1. CASE j < i
    BY <1>1, <1>3, <1>4, <1>5, <2>1
  <2>2. CASE ~(j < i)
    <3>1. /\ j - Len(f) \in 1..(Len(s) - i) /\ ~(j <= Len(f))
          /\ (j - Len(f)) + i = j + 1
      BY <1>1, <1>3, <2>2
    <3>2. (f \o g)[j] = g[j - Len(f)]
      BY <1>1, <1>3, <1>4, <1>5, <3>1
    <3>3. g[j - Len(f)] = s[j + 1]
      BY <1>4, <3>1
    <3>. QED BY <2>2, <3>2, <3>3
  <2>. QED BY <2>1, <2>2
<1>. QED BY <1>1, <1>2, <1>3, <1>4, <1>5, <1>6

(* A sequence after one of its elements was put in front of it. *)
LEMMA InFront ==
    ASSUME NEW T, NEW s \in Seq(T), NEW x \in T
    PROVE  /\ <<x>> \o s \in Seq(T)
           /\ Len(<<x>> \o s) = Len(s) + 1
           /\ (<<x>> \o s)[1] = x
           /\ \A k \in 2..(Len(s) + 1) : (<<x>> \o s)[k] = s[k - 1]
           /\ <<x>> \o s # << >>
<1>1. <<x>> \in Seq(T) /\ Len(<<x>>) = 1 /\ <<x>>[1] = x
  OBVIOUS
<1>2. Len(s) \in Nat
  OBVIOUS
<1>. DEFINE c == <<x>>
<1>. HIDE DEF c
<1>3. /\ c \o s \in Seq(T)
      /\ Len(c \o s) = Len(c) + Len(s)
      /\ \A i \in 1..(Len(c) + Len(s)) : (c \o s)[i] = IF i <= Len(c) THEN c[i] ELSE s[i - Len(c)]
  BY <1>1, ConcatProperties DEF c
<1>4. Len(c) = 1 /\ c[1] = x
  BY <1>1 DEF c
<1>5. /\ Len(c \o s) = Len(s) + 1 /\ (c \o s)[1] = x
      /\ \A k \in 2..(Len(s) + 1) : (c \o s)[k] = s[k - 1]
  BY <1>2, <1>3, <1>4
<1>6. c \o s # << >>
  BY <1>2, <1>3, <1>5, EmptySeq
<1>. QED BY <1>3, <1>5, <1>6 DEF c

(* The elements of the tail. *)
LEMMA InTail ==
    ASSUME NEW T, NEW s \in Seq(T), s # << >>
    PROVE  /\ Head(s) = s[1] /\ s[1] \in T /\ Tail(s) \in Seq(T)
           /\ Len(s) \in Nat /\ Len(s) > 0 /\ Len(Tail(s)) = Len(s) - 1
           /\ \A k \in 1..(Len(s) - 1) : Tail(s)[k] = s[k + 1]
<1>1. /\ Head(s) \in T /\ Tail(s) \in Seq(T) /\ Len(Tail(s)) = Len(s) - 1
      /\ \A i \in 1..Len(Tail(s)) : Tail(s)[i] = s[i + 1]
  BY HeadTailProperties
<1>2. Len(s) \in Nat /\ Len(s) > 0
  BY EmptySeq
<1>3. Head(s) = s[1]
  BY <1>2
<1>. QED BY <1>1, <1>2, <1>3

(* The elements of a sequence that one was appended to. *)
LEMMA AtEnd ==
    ASSUME NEW T, NEW s \in Seq(T), NEW x \in T
    PROVE  /\ Append(s, x) \in Seq(T) /\ Append(s, x) # << >>
           /\ Len(s) \in Nat /\ Len(Append(s, x)) = Len(s) + 1
           /\ Append(s, x)[Len(s) + 1] = x
           /\ \A k \in 1..Len(s) : Append(s, x)[k] = s[k]
BY AppendProperties, LenProperties

-----------------------------------------------------------------------------
(* Timers.  The lemmas say which animations are at work, and which will    *)
(* call back, after a change of jQuery.timers.                             *)

(* jQuery.timers is a sequence of timers. *)
LEMMA TimersType ==
    ASSUME NEW S \in State
    PROVE  /\ S.timers \in Seq(Timer) /\ Len(S.timers) \in Nat
           /\ DOMAIN S.timers = 1..Len(S.timers)
           /\ \A j \in DOMAIN S.timers : S.timers[j] \in Timer
BY LenProperties, ElementOfSeq DEF State

(* An animation joins that has not been settled. *)
LEMMA TimerJoins ==
    ASSUME NEW S \in State, NEW R, NEW a \in Timer, ~a.settled,
           R.timers = Append(S.timers, a)
    PROVE  /\ R.timers \in Seq(Timer) /\ Len(R.timers) = Len(S.timers) + 1
           /\ \A e \in Elements : AtWork(R, e) = AtWork(S, e) \cup
                 (IF a.dequeues /\ e = a.elem THEN {Len(R.timers)} ELSE {})
           /\ \A i \in Ids : Calls(R, i) = Calls(S, i) \cup
                 (IF a.part = 0 /\ i = a.id THEN {Len(R.timers)} ELSE {})
<1>1. /\ DOMAIN S.timers = 1..Len(S.timers) /\ Len(S.timers) \in Nat
      /\ R.timers \in Seq(Timer) /\ Len(R.timers) = Len(S.timers) + 1
      /\ R.timers[Len(S.timers) + 1] = a
      /\ \A k \in 1..Len(S.timers) : R.timers[k] = S.timers[k]
  BY TimersType, AtEnd
<1>2. DOMAIN R.timers = DOMAIN S.timers \cup {Len(R.timers)}
  BY <1>1, LenProperties
<1>. QED BY <1>1, <1>2 DEF AtWork, Calls

(* Timers that differ in the time that is left, or by settled ones. *)
LEMMA SameLive ==
    ASSUME NEW S \in State, NEW R \in State,
           \A j \in DOMAIN S.timers \cup DOMAIN R.timers :
               \/ /\ j \in DOMAIN S.timers /\ j \in DOMAIN R.timers
                  /\ R.timers[j].elem = S.timers[j].elem
                  /\ R.timers[j].id = S.timers[j].id
                  /\ R.timers[j].part = S.timers[j].part
                  /\ R.timers[j].dequeues = S.timers[j].dequeues
                  /\ R.timers[j].settled = S.timers[j].settled
               \/ /\ j \in DOMAIN S.timers => S.timers[j].settled
                  /\ j \in DOMAIN R.timers => R.timers[j].settled
    PROVE  /\ \A e \in Elements : AtWork(R, e) = AtWork(S, e)
           /\ \A i \in Ids : Calls(R, i) = Calls(S, i)
BY DEF AtWork, Calls

(* The timer at a position is settled. *)
Settle(S, i) == [S.timers EXCEPT ![i].settled = TRUE]

(* The animation at i is settled: it no longer dequeues nor calls back. *)
LEMMA TimerSettles ==
    ASSUME NEW S \in State, NEW R, NEW i \in DOMAIN S.timers,
           R.timers = Settle(S, i)
    PROVE  /\ R.timers \in Seq(Timer) /\ Len(R.timers) = Len(S.timers)
           /\ DOMAIN R.timers = DOMAIN S.timers
           /\ \A j \in DOMAIN S.timers :
                 /\ j # i => R.timers[j] = S.timers[j]
                 /\ R.timers[j].elem = S.timers[j].elem /\ R.timers[j].id = S.timers[j].id
                 /\ R.timers[j].part = S.timers[j].part
                 /\ R.timers[j].queued = S.timers[j].queued
                 /\ R.timers[j].dequeues = S.timers[j].dequeues
                 /\ S.timers[j].settled => R.timers[j].settled
           /\ R.timers[i].settled
           /\ \A e \in Elements : AtWork(R, e) = AtWork(S, e) \ {i}
           /\ \A c \in Ids : Calls(R, c) = Calls(S, c) \ {i}
<1>. DEFINE b == [S.timers[i] EXCEPT !.settled = TRUE]
<1>1. S.timers \in Seq(Timer) /\ i \in 1..Len(S.timers) /\ S.timers[i] \in Timer
  BY TimersType
<1>2. /\ b \in Timer /\ b.settled /\ b.elem = S.timers[i].elem /\ b.id = S.timers[i].id
      /\ b.part = S.timers[i].part /\ b.queued = S.timers[i].queued
      /\ b.dequeues = S.timers[i].dequeues
  BY <1>1 DEF Timer
<1>3. R.timers = [S.timers EXCEPT ![i] = b]
  BY DEF Settle
<1>. HIDE DEF b
<1>4. /\ R.timers \in Seq(Timer) /\ Len(R.timers) = Len(S.timers)
      /\ \A j \in 1..Len(S.timers) : R.timers[j] = IF j = i THEN b ELSE S.timers[j]
  BY <1>1, <1>2, <1>3, ExceptSeq
<1>5. DOMAIN R.timers = DOMAIN S.timers /\ DOMAIN S.timers = 1..Len(S.timers)
  BY <1>4, TimersType, LenProperties
<1>6. /\ \A e \in Elements : AtWork(R, e) = AtWork(S, e) \ {i}
      /\ \A c \in Ids : Calls(R, c) = Calls(S, c) \ {i}
  BY <1>2, <1>4, <1>5 DEF AtWork, Calls
<1>. QED BY <1>1, <1>2, <1>4, <1>5, <1>6

(* A timer that is settled is removed; the later ones move up. *)
LEMMA TimerLeaves ==
    ASSUME NEW S \in State, NEW R, NEW i \in DOMAIN S.timers, S.timers[i].settled,
           R.timers = RemoveAt(S.timers, i)
    PROVE  /\ R.timers \in Seq(Timer) /\ Len(R.timers) = Len(S.timers) - 1
           /\ DOMAIN R.timers = 1..Len(R.timers)
           /\ \A j \in DOMAIN R.timers :
                 R.timers[j] = IF j < i THEN S.timers[j] ELSE S.timers[j + 1]
           /\ \A e \in Elements :
                 /\ AtWork(S, e) = {} => AtWork(R, e) = {}
                 /\ AtWork(R, e) = {} => AtWork(S, e) = {}
                 /\ \A j \in AtWork(R, e) : (IF j < i THEN j ELSE j + 1) \in AtWork(S, e)
           /\ \A c \in Ids :
                 /\ Calls(S, c) = {} => Calls(R, c) = {}
                 /\ \A j \in Calls(R, c) : (IF j < i THEN j ELSE j + 1) \in Calls(S, c)
<1>1. /\ S.timers \in Seq(Timer) /\ i \in 1..Len(S.timers) /\ Len(S.timers) \in Nat
      /\ DOMAIN S.timers = 1..Len(S.timers)
  BY TimersType
<1>2. /\ R.timers \in Seq(Timer) /\ Len(R.timers) = Len(S.timers) - 1
      /\ \A j \in 1..(Len(S.timers) - 1) :
            R.timers[j] = IF j < i THEN S.timers[j] ELSE S.timers[j + 1]
  <2>. DEFINE s == S.timers
  <2>1. s \in Seq(Timer) /\ i \in 1..Len(s)
    BY <1>1
  <2>. HIDE DEF s
  <2>2. /\ RemoveAt(s, i) \in Seq(Timer) /\ Len(RemoveAt(s, i)) = Len(s) - 1
        /\ \A j \in 1..(Len(s) - 1) : RemoveAt(s, i)[j] = IF j < i THEN s[j] ELSE s[j + 1]
    BY <2>1, Removed
  <2>. QED BY <2>2 DEF s
<1>3. DOMAIN R.timers = 1..(Len(S.timers) - 1)
  BY <1>2, LenProperties
<1>4. ASSUME NEW j \in DOMAIN R.timers
      PROVE  (IF j < i THEN j ELSE j + 1) \in DOMAIN S.timers
  BY <1>1, <1>3
<1>5. \A e \in Elements : \A j \in AtWork(R, e) :
         (IF j < i THEN j ELSE j + 1) \in AtWork(S, e)
  BY <1>2, <1>3, <1>4 DEF AtWork
<1>6. \A c \in Ids : \A j \in Calls(R, c) : (IF j < i THEN j ELSE j + 1) \in Calls(S, c)
  BY <1>2, <1>3, <1>4 DEF Calls
<1>7. ASSUME NEW e \in Elements, NEW k \in AtWork(S, e)
      PROVE  AtWork(R, e) # {}
  <2>1. k \in 1..Len(S.timers) /\ k # i
    BY <1>1 DEF AtWork
  <2>2. CASE k < i
    <3>1. k \in DOMAIN R.timers /\ R.timers[k] = S.timers[k]
      BY <1>1, <1>2, <1>3, <2>1, <2>2
    <3>. QED BY <3>1 DEF AtWork
  <2>3. CASE ~(k < i)
    <3>1. k - 1 \in DOMAIN R.timers /\ ~(k - 1 < i) /\ (k - 1) + 1 = k
      BY <1>1, <1>3, <2>1, <2>3
    <3>2. R.timers[k - 1] = S.timers[k]
      BY <1>2, <1>3, <3>1
    <3>. QED BY <3>1, <3>2 DEF AtWork
  <2>. QED BY <2>2, <2>3
<1>. QED BY <1>2, <1>3, <1>5, <1>6, <1>7

-----------------------------------------------------------------------------
(* The calls that are next. *)

(* No dequeue is due. *)
Quiet(S) == \A k \in DOMAIN S.todo : S.todo[k].do = "always"

(* What is called next is the dequeue of e, if d, or none; no other        *)
(* dequeue waits.                                                          *)
NextIs(S, d, e) ==
    /\ \A k \in DOMAIN S.todo : k > 1 => S.todo[k].do = "always"
    /\ \A f \in Elements : Due(S, f) <=> d /\ f = e

(* The dequeue of e is due, and no other one waits. *)
OnlyDue(S, e) ==
    /\ \A k \in DOMAIN S.todo : k > 1 => S.todo[k].do = "always"
    /\ \A f \in Elements : Due(S, f) <=> f = e

(* The calls of a turn are told apart by what they do and their element. *)
LEMMA FrameTypes ==
    ASSUME NEW e \in Elements
    PROVE  /\ toDequeue(e) \in Frame
           /\ toAlways(e) \in Frame
           /\ toDequeue(e).do = "dequeue" /\ toDequeue(e).elem = e
           /\ toAlways(e).do = "always"
           /\ \A f \in Elements : toDequeue(f) = toDequeue(e) <=> f = e
           /\ \A f \in Elements : toAlways(e) # toDequeue(f)
BY DEF toDequeue, toAlways, Frame

(* Nothing is put before the calls. *)
LEMMA NothingBefore ==
    ASSUME NEW S \in State, Quiet(S), NEW e
    PROVE  NextIs(S, FALSE, e)
<1>1. ASSUME NEW f \in Elements, Due(S, f) PROVE FALSE
  <2>1. 1 \in DOMAIN S.todo
    BY <1>1, EmptySeq, LenProperties DEF Due, State
  <2>. QED BY <1>1, <2>1, FrameTypes DEF Due, Quiet
<1>. QED BY <1>1 DEF NextIs, Quiet

(* The always handler of an animation outside of the queue is. *)
LEMMA AlwaysBefore ==
    ASSUME NEW S \in State, Quiet(S), NEW e \in Elements, NEW R,
           R.todo = <<toAlways(e)>> \o S.todo
    PROVE  R.todo \in Seq(Frame) /\ Quiet(R)
<1>. DEFINE f == toAlways(e)
<1>1. f \in Frame /\ f.do = "always" /\ S.todo \in Seq(Frame)
  BY FrameTypes DEF State
<1>2. R.todo = <<f>> \o S.todo
  OBVIOUS
<1>. HIDE DEF f
<1>3. /\ R.todo \in Seq(Frame) /\ Len(R.todo) = Len(S.todo) + 1
      /\ R.todo[1] = f /\ \A k \in 2..(Len(S.todo) + 1) : R.todo[k] = S.todo[k - 1]
  BY <1>1, <1>2, InFront
<1>4. DOMAIN R.todo = 1..(Len(S.todo) + 1) /\ DOMAIN S.todo = 1..Len(S.todo) /\ Len(S.todo) \in Nat
  BY <1>1, <1>3, LenProperties
<1>5. ASSUME NEW k \in DOMAIN R.todo PROVE R.todo[k].do = "always"
  <2>1. CASE k = 1
    BY <1>1, <1>3, <2>1
  <2>2. CASE k # 1
    <3>1. k \in 2..(Len(S.todo) + 1) /\ k - 1 \in DOMAIN S.todo
      BY <1>4, <2>2
    <3>. QED BY <1>3, <3>1 DEF Quiet
  <2>. QED BY <2>1, <2>2
<1>. QED BY <1>3, <1>5 DEF Quiet

(* The dequeue of e is. *)
LEMMA DequeueBefore ==
    ASSUME NEW S \in State, Quiet(S), NEW e \in Elements, NEW R,
           R.todo = <<toDequeue(e)>> \o S.todo
    PROVE  R.todo \in Seq(Frame) /\ OnlyDue(R, e)
<1>. DEFINE f == toDequeue(e)
<1>1. f \in Frame /\ S.todo \in Seq(Frame)
  BY FrameTypes DEF State
<1>2. R.todo = <<f>> \o S.todo
  OBVIOUS
<1>. HIDE DEF f
<1>3. /\ R.todo \in Seq(Frame) /\ Len(R.todo) = Len(S.todo) + 1 /\ R.todo # << >>
      /\ R.todo[1] = f /\ \A k \in 2..(Len(S.todo) + 1) : R.todo[k] = S.todo[k - 1]
  BY <1>1, <1>2, InFront
<1>4. DOMAIN R.todo = 1..(Len(S.todo) + 1) /\ DOMAIN S.todo = 1..Len(S.todo) /\ Len(S.todo) \in Nat
  BY <1>1, <1>3, LenProperties
<1>5. ASSUME NEW k \in DOMAIN R.todo, k > 1 PROVE R.todo[k].do = "always"
  <2>1. k \in 2..(Len(S.todo) + 1) /\ k - 1 \in DOMAIN S.todo
    BY <1>4, <1>5
  <2>. QED BY <1>3, <2>1 DEF Quiet
<1>6. \A g \in Elements : Due(R, g) <=> g = e
  <2>. TAKE g \in Elements
  <2>1. toDequeue(g) = toDequeue(e) <=> g = e
    BY FrameTypes
  <2>. QED BY <1>3, <2>1 DEF Due, f
<1>. QED BY <1>3, <1>5, <1>6 DEF OnlyDue

-----------------------------------------------------------------------------
(* What the operators do to the fields that the invariant speaks of. *)

(* The queues and what goes on in the turn are the same. *)
SameQueues(S, R) ==
    /\ R.queue = S.queue /\ R.stop = S.stop /\ R.finish = S.finish
    /\ R.loop = S.loop /\ R.removed = S.removed

(* Nothing has begun or come to its end. *)
SameCalls(S, R) ==
    R.begun = S.begun /\ R.completed = S.completed /\ R.cut = S.cut

(* The clock is the same. *)
SameClock(S, R) ==
    R.timers = S.timers /\ R.timerId = S.timerId /\ R.timeouts = S.timeouts

(* Before changes todo only. *)
LEMMA BeforeWay ==
    ASSUME NEW S \in State, NEW f \in Frame, NEW R, R = Before(S, f)
    PROVE  /\ R \in State /\ R.todo = <<f>> \o S.todo
           /\ SameQueues(S, R) /\ SameCalls(S, R) /\ SameClock(S, R)
<1>. DEFINE t == <<f>> \o S.todo
<1>1. t \in Seq(Frame)
  <2>1. S.todo \in Seq(Frame)
    BY DEF State
  <2>. QED BY <2>1, InFront
<1>2. R = [S EXCEPT !.todo = t]
  BY DEF Before
<1>3. t = <<f>> \o S.todo
  OBVIOUS
<1>. HIDE DEF t
<1>. QED BY <1>1, <1>2, <1>3 DEF State, SameQueues, SameCalls, SameClock

(* The fields of a timer. *)
LEMMA TimerFields ==
    ASSUME NEW a \in Timer
    PROVE  /\ a.elem \in Elements /\ a.id \in Ids /\ a.part \in 0..2 /\ a.left \in Nat
           /\ a.queued \in BOOLEAN /\ a.dequeues \in BOOLEAN /\ a.settled \in BOOLEAN
BY DEF Timer

(* The callbacks of an animation that has come to its end. *)
LEMMA CompleteWay ==
    ASSUME NEW S \in State, Quiet(S), NEW a \in Timer, NEW R, R = complete(S, a)
    PROVE  /\ R \in State /\ SameQueues(S, R) /\ SameClock(S, R)
           /\ R.begun = S.begun /\ R.cut = S.cut
           /\ R.completed = IF a.part = 0 THEN [S.completed EXCEPT ![a.id] = @ + 1]
                            ELSE S.completed
           /\ NextIs(R, a.dequeues, a.elem)
<1>. DEFINE N == IF a.part = 0 THEN Count(S, a.id) ELSE S
            C == settledAlways(N, a)
<1>1. a.elem \in Elements /\ a.id \in Ids /\ a.dequeues \in BOOLEAN
  BY TimerFields
<1>2. /\ N \in State /\ SameQueues(S, N) /\ SameClock(S, N) /\ N.todo = S.todo
      /\ N.begun = S.begun /\ N.cut = S.cut
      /\ N.completed = IF a.part = 0 THEN [S.completed EXCEPT ![a.id] = @ + 1]
                       ELSE S.completed
  <2>1. CASE a.part = 0
    <3>1. N = [S EXCEPT !.completed = [S.completed EXCEPT ![a.id] = @ + 1]]
      BY <2>1 DEF Count
    <3>2. [S.completed EXCEPT ![a.id] = @ + 1] \in [Ids -> Nat]
      BY <1>1 DEF State
    <3>. HIDE DEF N
    <3>. QED BY <2>1, <3>1, <3>2 DEF State, SameQueues, SameClock
  <2>2. CASE a.part # 0
    BY <2>2 DEF SameQueues, SameClock
  <2>. QED BY <2>1, <2>2
<1>3. R = IF a.dequeues THEN Before(C, toDequeue(a.elem)) ELSE C
  BY DEF complete
<1>4. Quiet(N)
  BY <1>2 DEF Quiet
<1>. HIDE DEF N
<1>5. /\ C \in State /\ SameQueues(N, C) /\ SameClock(N, C) /\ Quiet(C)
      /\ C.begun = N.begun /\ C.cut = N.cut /\ C.completed = N.completed
  <2>1. CASE a.queued
    BY <1>2, <1>4, <2>1 DEF settledAlways, SameQueues, SameClock
  <2>2. CASE ~a.queued
    <3>1. C = Before(N, toAlways(a.elem)) /\ toAlways(a.elem) \in Frame
      BY <1>1, <2>2, FrameTypes DEF settledAlways
    <3>. HIDE DEF C
    <3>2. /\ C \in State /\ C.todo = <<toAlways(a.elem)>> \o N.todo
          /\ SameQueues(N, C) /\ SameCalls(N, C) /\ SameClock(N, C)
      BY <1>2, <3>1, BeforeWay
    <3>3. Quiet(C)
      BY <1>1, <1>2, <1>4, <3>2, AlwaysBefore
    <3>. QED BY <3>2, <3>3 DEF SameCalls
  <2>. QED BY <2>1, <2>2
<1>. HIDE DEF C
<1>6. CASE a.dequeues
  <2>1. R = Before(C, toDequeue(a.elem)) /\ toDequeue(a.elem) \in Frame
    BY <1>1, <1>3, <1>6, FrameTypes
  <2>2. /\ R \in State /\ R.todo = <<toDequeue(a.elem)>> \o C.todo
        /\ SameQueues(C, R) /\ SameCalls(C, R) /\ SameClock(C, R)
    BY <1>5, <2>1, BeforeWay
  <2>3. OnlyDue(R, a.elem)
    BY <1>1, <1>5, <2>2, DequeueBefore
  <2>4. R.begun = C.begun /\ R.cut = C.cut /\ R.completed = C.completed
    BY <2>2 DEF SameCalls
  <2>5. SameQueues(S, R) /\ SameClock(S, R)
    BY <1>2, <1>5, <2>2 DEF SameQueues, SameClock
  <2>6. a.dequeues = TRUE
    BY <1>1, <1>6
  <2>7. NextIs(R, a.dequeues, a.elem)
    BY <2>3, <2>6 DEF OnlyDue, NextIs
  <2>. QED BY <1>2, <1>5, <2>2, <2>4, <2>5, <2>7
<1>7. CASE ~a.dequeues
  <2>1. R = C /\ a.dequeues = FALSE
    BY <1>1, <1>3, <1>7
  <2>2. NextIs(R, FALSE, a.elem)
    BY <1>5, <2>1, NothingBefore
  <2>3. SameQueues(S, R) /\ SameClock(S, R)
    BY <1>2, <1>5, <2>1 DEF SameQueues, SameClock
  <2>. QED BY <1>2, <1>5, <2>1, <2>2, <2>3
<1>. QED BY <1>6, <1>7

(* The animation at a position is settled. *)
Settled(S, i) == [S EXCEPT !.timers[i].settled = TRUE]

(* Only the timers differ after that. *)
LEMMA SettledWay ==
    ASSUME NEW S \in State, NEW i \in DOMAIN S.timers, NEW T, T = Settled(S, i)
    PROVE  /\ T \in State /\ SameQueues(S, T) /\ SameCalls(S, T) /\ T.todo = S.todo
           /\ T.timers = Settle(S, i) /\ T.timerId = S.timerId /\ T.timeouts = S.timeouts
<1>1. T = [S EXCEPT !.timers = Settle(S, i)]
  BY DEF Settle, Settled
<1>2. Settle(S, i) \in Seq(Timer)
  <2>. DEFINE Q == [timers |-> Settle(S, i)]
  <2>1. Q.timers = Settle(S, i)
    OBVIOUS
  <2>. HIDE DEF Q
  <2>2. Q.timers \in Seq(Timer)
    BY <2>1, TimerSettles
  <2>. QED BY <2>1, <2>2
<1>. QED BY <1>1, <1>2 DEF State, SameQueues, SameCalls

(* An animation comes to its end, by the clock or by gotoEnd ... *)
LEMMA EndsWay ==
    ASSUME NEW S \in State, Quiet(S), NEW i \in DOMAIN S.timers,
           NEW R, R = complete(Settled(S, i), S.timers[i])
    PROVE  /\ R \in State /\ SameQueues(S, R) /\ R.begun = S.begun /\ R.cut = S.cut
           /\ R.timers = Settle(S, i) /\ R.timerId = S.timerId /\ R.timeouts = S.timeouts
           /\ R.completed = IF S.timers[i].part = 0
                            THEN [S.completed EXCEPT ![S.timers[i].id] = @ + 1]
                            ELSE S.completed
           /\ NextIs(R, S.timers[i].dequeues, S.timers[i].elem)
<1>. DEFINE a == S.timers[i]
            T == Settled(S, i)
<1>1. a \in Timer /\ R = complete(T, a)
  BY TimersType
<1>2. /\ T \in State /\ SameQueues(S, T) /\ SameCalls(S, T) /\ T.todo = S.todo
      /\ T.timers = Settle(S, i) /\ T.timerId = S.timerId /\ T.timeouts = S.timeouts
  BY SettledWay
<1>3. Quiet(T)
  BY <1>2 DEF Quiet
<1>. HIDE DEF a, T
<1>4. /\ R \in State /\ SameQueues(T, R) /\ SameClock(T, R)
      /\ R.begun = T.begun /\ R.cut = T.cut
      /\ R.completed = IF a.part = 0 THEN [T.completed EXCEPT ![a.id] = @ + 1] ELSE T.completed
      /\ NextIs(R, a.dequeues, a.elem)
  BY <1>1, <1>2, <1>3, CompleteWay
<1>5. SameQueues(S, R)
  BY <1>2, <1>4 DEF SameQueues
<1>. QED BY <1>2, <1>4, <1>5 DEF SameClock, SameCalls, a

(* ... or is stopped short. *)
LEMMA CutShortWay ==
    ASSUME NEW S \in State, Quiet(S), NEW i \in DOMAIN S.timers, NEW R,
           R = settledAlways([Settled(S, i) EXCEPT !.cut = @ \cup {S.timers[i].id}], S.timers[i])
    PROVE  /\ R \in State /\ SameQueues(S, R)
           /\ R.begun = S.begun /\ R.cut = S.cut \cup {S.timers[i].id}
           /\ R.timers = Settle(S, i) /\ R.timerId = S.timerId /\ R.timeouts = S.timeouts
           /\ R.completed = S.completed
           /\ Quiet(R)
<1>. DEFINE a == S.timers[i]
            T == Settled(S, i)
            U == [T EXCEPT !.cut = @ \cup {a.id}]
<1>1. a \in Timer /\ a.elem \in Elements /\ a.id \in Ids /\ R = settledAlways(U, a)
  BY TimersType, TimerFields
<1>2. /\ T \in State /\ SameQueues(S, T) /\ SameCalls(S, T) /\ T.todo = S.todo
      /\ T.timers = Settle(S, i) /\ T.timerId = S.timerId /\ T.timeouts = S.timeouts
  BY SettledWay
<1>. HIDE DEF a, T
<1>3. /\ U \in State /\ SameQueues(S, U) /\ U.begun = S.begun /\ U.completed = S.completed
      /\ U.timers = Settle(S, i) /\ U.timerId = S.timerId /\ U.timeouts = S.timeouts
      /\ U.cut = S.cut \cup {a.id} /\ U.todo = S.todo
  BY <1>1, <1>2 DEF State, SameQueues, SameCalls
<1>4. Quiet(U)
  BY <1>3 DEF Quiet
<1>. HIDE DEF U
<1>5. /\ R \in State /\ SameQueues(U, R) /\ SameCalls(U, R) /\ SameClock(U, R) /\ Quiet(R)
  <2>1. CASE a.queued
    BY <1>1, <1>3, <1>4, <2>1 DEF settledAlways, SameQueues, SameCalls, SameClock
  <2>2. CASE ~a.queued
    <3>1. R = Before(U, toAlways(a.elem)) /\ toAlways(a.elem) \in Frame
      BY <1>1, <2>2, FrameTypes DEF settledAlways
    <3>2. /\ R \in State /\ R.todo = <<toAlways(a.elem)>> \o U.todo
          /\ SameQueues(U, R) /\ SameCalls(U, R) /\ SameClock(U, R)
      BY <1>3, <3>1, BeforeWay
    <3>3. Quiet(R)
      BY <1>1, <1>3, <1>4, <3>2, AlwaysBefore
    <3>. QED BY <3>2, <3>3
  <2>. QED BY <2>1, <2>2
<1>6. SameQueues(S, R)
  BY <1>3, <1>5 DEF SameQueues
<1>. QED BY <1>3, <1>5, <1>6 DEF SameClock, SameCalls, a

(* The timers are those of before, and perhaps one of a's kind. *)
Longer(S, R, a) ==
    /\ Len(S.timers) <= Len(R.timers)
    /\ \A j \in DOMAIN S.timers : j \in DOMAIN R.timers /\ R.timers[j] = S.timers[j]
    /\ \A j \in DOMAIN R.timers : j \notin DOMAIN S.timers =>
          /\ R.timers[j].elem = a.elem /\ R.timers[j].part = a.part
          /\ R.timers[j].queued = a.queued /\ R.timers[j].dequeues = a.dequeues

(* An animation begins and ends at once ... *)
Flashes(S, R, a) ==
    /\ R.completed = IF a.part = 0 THEN [S.completed EXCEPT ![a.id] = @ + 1] ELSE S.completed
    /\ \A e \in Elements : AtWork(R, e) = AtWork(S, e)
    /\ \A i \in Ids : Calls(R, i) = Calls(S, i)
    /\ NextIs(R, a.dequeues, a.elem)

(* ... or joins the timers. *)
Joins(S, R, a) ==
    /\ R.completed = S.completed /\ R.todo = S.todo
    /\ Len(R.timers) \notin DOMAIN S.timers
    /\ \A e \in Elements : AtWork(R, e) = AtWork(S, e) \cup
          (IF a.dequeues /\ e = a.elem THEN {Len(R.timers)} ELSE {})
    /\ \A i \in Ids : Calls(R, i) = Calls(S, i) \cup
          (IF a.part = 0 /\ i = a.id THEN {Len(R.timers)} ELSE {})

(* An animation that joins while finish runs is stopped at once. *)
LEMMA JoinsAndEnds ==
    ASSUME NEW S \in State, NEW M \in State, Quiet(M), NEW a \in Timer, ~a.settled,
           NEW n \in DOMAIN M.timers, n \notin DOMAIN S.timers, M.timers[n] = a,
           \A k \in DOMAIN S.timers : k \in DOMAIN M.timers /\ M.timers[k] = S.timers[k],
           \A k \in DOMAIN M.timers : k \in DOMAIN S.timers \/ k = n,
           Len(S.timers) <= Len(M.timers),
           \A e \in Elements : AtWork(M, e) = AtWork(S, e) \cup
                (IF a.dequeues /\ e = a.elem THEN {n} ELSE {}),
           \A i \in Ids : Calls(M, i) = Calls(S, i) \cup
                (IF a.part = 0 /\ i = a.id THEN {n} ELSE {}),
           M.completed = S.completed, NEW R, R = complete(Settled(M, n), M.timers[n])
    PROVE  /\ R \in State /\ SameQueues(M, R) /\ R.begun = M.begun
           /\ R.timerId = M.timerId /\ R.timeouts = M.timeouts /\ R.cut = M.cut
           /\ Longer(S, R, a) /\ Flashes(S, R, a)
<1>5. /\ R \in State /\ SameQueues(M, R) /\ R.begun = M.begun /\ R.cut = M.cut
      /\ R.timers = Settle(M, n) /\ R.timerId = M.timerId /\ R.timeouts = M.timeouts
      /\ R.completed = IF M.timers[n].part = 0
                       THEN [M.completed EXCEPT ![M.timers[n].id] = @ + 1]
                       ELSE M.completed
      /\ NextIs(R, M.timers[n].dequeues, M.timers[n].elem)
  BY EndsWay
<1>7. NextIs(R, a.dequeues, a.elem)
  BY <1>5
<1>8. /\ Len(R.timers) = Len(M.timers) /\ DOMAIN R.timers = DOMAIN M.timers
      /\ \A j \in DOMAIN M.timers :
            /\ j # n => R.timers[j] = M.timers[j]
            /\ R.timers[j].elem = M.timers[j].elem /\ R.timers[j].part = M.timers[j].part
            /\ R.timers[j].queued = M.timers[j].queued
            /\ R.timers[j].dequeues = M.timers[j].dequeues
      /\ \A e \in Elements : AtWork(R, e) = AtWork(M, e) \ {n}
      /\ \A c \in Ids : Calls(R, c) = Calls(M, c) \ {n}
  BY SMTT(30), <1>5, TimerSettles
<1>10. Longer(S, R, a)
  BY <1>8 DEF Longer
<1>11. Flashes(S, R, a)
  <2>1. \A e \in Elements : AtWork(R, e) = AtWork(S, e)
    BY <1>8 DEF AtWork
  <2>2. \A i \in Ids : Calls(R, i) = Calls(S, i)
    BY <1>8 DEF Calls
  <2>3. R.completed = IF a.part = 0 THEN [S.completed EXCEPT ![a.id] = @ + 1] ELSE S.completed
    BY <1>5
  <2>. QED BY <1>7, <2>1, <2>2, <2>3 DEF Flashes
<1>. QED BY <1>5, <1>10, <1>11

(* Animation starts an animation that joins jQuery.timers, or one that     *)
(* ends at once: when it has no length, or finish runs on the element.     *)
LEMMA AnimationWay ==
    ASSUME NEW S \in State, Quiet(S), NEW a \in Timer, ~a.settled,
           NEW R, R = Animation(S, a)
    PROVE  /\ R \in State /\ SameQueues(S, R)
           /\ R.timeouts = S.timeouts /\ R.cut = S.cut
           /\ (S.timers # << >> => S.timerId) => (R.timers # << >> => R.timerId)
           /\ R.begun = IF a.dequeues THEN [S.begun EXCEPT ![a.elem] = Append(@, a.id)]
                        ELSE S.begun
           /\ Longer(S, R, a)
           /\ IF a.left = 0 \/ S.finish[a.elem] THEN Flashes(S, R, a) ELSE Joins(S, R, a)
<1>. DEFINE G == [S.begun EXCEPT ![a.elem] = IF a.dequeues THEN Append(@, a.id) ELSE @]
            V == [S.unqueued EXCEPT ![a.elem] = IF a.queued THEN @ ELSE @ + 1]
            B == [S EXCEPT !.begun[a.elem] = IF a.dequeues THEN Append(@, a.id) ELSE @,
                           !.unqueued[a.elem] = IF a.queued THEN @ ELSE @ + 1]
            M == timer(B, a)
<1>1. a.elem \in Elements /\ a.id \in Ids
  BY TimerFields
<1>2. G \in [Elements -> Seq(Ids)]
  <2>1. S.begun \in [Elements -> Seq(Ids)] /\ S.begun[a.elem] \in Seq(Ids)
    BY <1>1 DEF State
  <2>2. Append(S.begun[a.elem], a.id) \in Seq(Ids)
    BY <1>1, <2>1, AppendProperties
  <2>. QED BY <2>1, <2>2
<1>3. V \in [Elements -> Nat]
  <2>1. S.unqueued \in [Elements -> Nat] /\ S.unqueued[a.elem] \in Nat
    BY <1>1 DEF State
  <2>. DEFINE u == IF a.queued THEN S.unqueued[a.elem] ELSE S.unqueued[a.elem] + 1
  <2>2. u \in Nat
    BY <2>1
  <2>3. V = [S.unqueued EXCEPT ![a.elem] = u]
    OBVIOUS
  <2>. HIDE DEF u, V
  <2>. QED BY <2>1, <2>2, <2>3
<1>4. B = [S EXCEPT !.begun = G, !.unqueued = V]
  BY DEF State
<1>5. G = IF a.dequeues THEN [S.begun EXCEPT ![a.elem] = Append(@, a.id)] ELSE S.begun
  BY DEF State
<1>. HIDE DEF G, V
<1>. HIDE DEF B
<1>6. /\ B \in State /\ SameQueues(S, B) /\ SameClock(S, B) /\ B.todo = S.todo
      /\ B.begun = G /\ B.cut = S.cut /\ B.completed = S.completed
  BY <1>2, <1>3, <1>4 DEF State, SameQueues, SameClock
<1>7. Quiet(B)
  BY <1>6 DEF Quiet
<1>8. R = IF a.left = 0 THEN complete(B, a)
          ELSE IF S.finish[a.elem] THEN stopAnimation(M, Len(M.timers), TRUE) ELSE M
  BY DEF Animation, B
<1>9. /\ \A e \in Elements : AtWork(B, e) = AtWork(S, e)
      /\ \A i \in Ids : Calls(B, i) = Calls(S, i)
  BY <1>6 DEF SameClock, AtWork, Calls
<1>10. /\ DOMAIN S.timers = 1..Len(S.timers) /\ Len(S.timers) \in Nat
       /\ DOMAIN B.timers = DOMAIN S.timers /\ B.timers = S.timers
  BY <1>6, TimersType DEF SameClock
<1>11. CASE a.left = 0
  <2>1. R = complete(B, a)
    BY <1>8, <1>11
  <2>2. /\ R \in State /\ SameQueues(B, R) /\ SameClock(B, R)
        /\ R.begun = B.begun /\ R.cut = B.cut
        /\ R.completed = IF a.part = 0 THEN [B.completed EXCEPT ![a.id] = @ + 1] ELSE B.completed
        /\ NextIs(R, a.dequeues, a.elem)
    BY <1>6, <1>7, <2>1, CompleteWay
  <2>3. SameQueues(S, R) /\ SameClock(S, R)
    BY <1>6, <2>2 DEF SameQueues, SameClock
  <2>4. Longer(S, R, a)
    BY <1>10, <2>3 DEF Longer, SameClock
  <2>5. Flashes(S, R, a)
    BY <1>6, <2>2, <2>3 DEF Flashes, SameClock, AtWork, Calls
  <2>. QED BY <1>5, <1>6, <1>11, <2>2, <2>3, <2>4, <2>5 DEF SameClock
<1>12. CASE a.left # 0
  <2>1. M = [B EXCEPT !.timers = Append(B.timers, a), !.timerId = TRUE]
    BY DEF timer
  <2>2. Append(B.timers, a) \in Seq(Timer)
    BY <1>6, TimersType, AtEnd
  <2>. HIDE DEF M
  <2>3. /\ M \in State /\ SameQueues(S, M) /\ M.timeouts = S.timeouts /\ M.todo = S.todo
        /\ M.begun = G /\ M.cut = S.cut /\ M.completed = S.completed /\ M.timerId
        /\ M.timers = Append(B.timers, a)
    BY <1>6, <2>1, <2>2 DEF State, SameQueues, SameClock
  <2>4. /\ Len(M.timers) = Len(S.timers) + 1
        /\ \A e \in Elements : AtWork(M, e) = AtWork(S, e) \cup
              (IF a.dequeues /\ e = a.elem THEN {Len(M.timers)} ELSE {})
        /\ \A i \in Ids : Calls(M, i) = Calls(S, i) \cup
              (IF a.part = 0 /\ i = a.id THEN {Len(M.timers)} ELSE {})
    <3>1. M.timers = Append(S.timers, a)
      BY <1>10, <2>3
    <3>. QED BY <3>1, TimerJoins
  <2>5. /\ M.timers[Len(S.timers) + 1] = a
        /\ \A k \in DOMAIN S.timers : M.timers[k] = S.timers[k]
    BY <1>10, <2>3, TimersType, AtEnd
  <2>6. DOMAIN M.timers = 1..(Len(S.timers) + 1)
    BY <2>3, <2>4, TimersType
  <2>7. Longer(S, M, a) /\ Len(M.timers) \notin DOMAIN S.timers
    BY <1>10, <2>4, <2>5, <2>6 DEF Longer
  <2>8. CASE ~S.finish[a.elem]
    <3>1. R = M
      BY <1>8, <1>12, <2>8
    <3>2. Joins(S, R, a)
      BY <2>3, <2>4, <2>7, <3>1 DEF Joins
    <3>. QED BY <1>5, <1>12, <2>3, <2>7, <2>8, <3>1, <3>2
  <2>9. CASE S.finish[a.elem]
    <3>. DEFINE n == Len(M.timers)
    <3>1. R = complete(Settled(M, n), M.timers[n])
      <4>1. ~M.timers[n].settled
        BY <1>10, <2>4, <2>5
      <4>. QED BY <1>8, <1>12, <2>9, <4>1 DEF stopAnimation, Settled
    <3>2. Quiet(M)
      BY <2>3 DEF Quiet
    <3>4. /\ n \in DOMAIN M.timers /\ n \notin DOMAIN S.timers /\ M.timers[n] = a
          /\ \A k \in DOMAIN S.timers : k \in DOMAIN M.timers /\ M.timers[k] = S.timers[k]
          /\ \A k \in DOMAIN M.timers : k \in DOMAIN S.timers \/ k = n
          /\ Len(S.timers) <= Len(M.timers)
      BY <1>10, <2>4, <2>5, <2>6
    <3>6. /\ \A e \in Elements : AtWork(M, e) = AtWork(S, e) \cup
                (IF a.dequeues /\ e = a.elem THEN {n} ELSE {})
          /\ \A i \in Ids : Calls(M, i) = Calls(S, i) \cup
                (IF a.part = 0 /\ i = a.id THEN {n} ELSE {})
      BY <2>4
    <3>7. M \in State /\ M.completed = S.completed
      BY <2>3
    <3>. HIDE DEF n
    <3>3. /\ R \in State /\ SameQueues(M, R) /\ R.begun = M.begun
          /\ R.timerId = M.timerId /\ R.timeouts = M.timeouts /\ R.cut = M.cut
          /\ Longer(S, R, a) /\ Flashes(S, R, a)
      BY <3>1, <3>2, <3>4, <3>6, <3>7, JoinsAndEnds
    <3>5. SameQueues(S, R)
      BY <2>3, <3>3 DEF SameQueues
    <3>. QED BY <1>5, <2>3, <2>9, <3>3, <3>5
  <2>. QED BY <2>8, <2>9
<1>. QED BY <1>11, <1>12

(* What the turn and the box are about is the same. *)
SameTurn(S, R) == R.finish = S.finish /\ R.loop = S.loop /\ R.removed = S.removed

(* The hooks of an element go, or not. *)
LEMMA DropHooksWay ==
    ASSUME NEW S \in State, NEW e \in Elements, NEW R, R = dropHooks(S, e)
    PROVE  /\ R \in State /\ R.queue = S.queue /\ R.todo = S.todo
           /\ SameTurn(S, R) /\ SameCalls(S, R) /\ SameClock(S, R)
<1>. DEFINE C == [S.cur EXCEPT ![e] = null]
            P == [S.stop EXCEPT ![e] = 0]
            V == [S.unqueued EXCEPT ![e] = 0]
<1>1. C \in [Elements -> Item \cup {null}] /\ P \in [Elements -> Nat] /\ V \in [Elements -> Nat]
  BY DEF State
<1>2. R = [S EXCEPT !.cur = C, !.stop = P, !.unqueued = V]
  BY DEF dropHooks
<1>. HIDE DEF C, P, V
<1>. QED BY ZenonT(60), <1>1, <1>2 DEF State, SameTurn, SameCalls, SameClock

(* hooks.empty.fire leaves the queues, the calls and the clock alone. *)
LEMMA EmptyFireWay ==
    ASSUME NEW S \in State, NEW e \in Elements, NEW R, R = emptyFire(S, e)
    PROVE  /\ R \in State /\ R.queue = S.queue /\ R.todo = S.todo
           /\ SameTurn(S, R) /\ SameCalls(S, R) /\ SameClock(S, R)
<1>1. CASE S.unqueued[e] = 0
  <2>. QED BY <1>1, DropHooksWay DEF emptyFire
<1>2. CASE S.unqueued[e] # 0
  <2>1. R = S
    BY <1>2 DEF emptyFire
  <2>. QED BY <2>1 DEF SameTurn, SameCalls, SameClock
<1>. QED BY <1>1, <1>2

(* dequeue of a queue without functions. *)
LEMMA EmptiedWay ==
    ASSUME NEW S \in State, NEW e \in Elements, NEW R, R = emptied(S, e)
    PROVE  /\ R \in State /\ R.queue = [S.queue EXCEPT ![e] = << >>] /\ R.todo = S.todo
           /\ SameTurn(S, R) /\ SameCalls(S, R) /\ SameClock(S, R)
<1>. DEFINE Q == [S.queue EXCEPT ![e] = << >>]
            C == [S.cur EXCEPT ![e] = null]
            E == [S EXCEPT !.queue[e] = << >>, !.cur[e] = null]
<1>1. Q \in [Elements -> Seq(Item)] /\ C \in [Elements -> Item \cup {null}]
  BY DEF State
<1>2. E = [S EXCEPT !.queue = Q, !.cur = C]
  OBVIOUS
<1>3. R = emptyFire(E, e)
  BY DEF emptied
<1>. HIDE DEF E
<1>6. Q = [S.queue EXCEPT ![e] = << >>]
  OBVIOUS
<1>. HIDE DEF Q, C
<1>4. /\ E \in State /\ E.queue = Q /\ E.todo = S.todo
      /\ SameTurn(S, E) /\ SameCalls(S, E) /\ SameClock(S, E)
  BY <1>1, <1>2 DEF State, SameTurn, SameCalls, SameClock
<1>5. /\ R \in State /\ R.queue = E.queue /\ R.todo = E.todo
      /\ SameTurn(E, R) /\ SameCalls(E, R) /\ SameClock(E, R)
  BY <1>3, <1>4, EmptyFireWay
<1>. QED BY <1>4, <1>5, <1>6 DEF SameTurn, SameCalls, SameClock

(* The always handler of an animation outside of the queue. *)
LEMMA AlwaysWay ==
    ASSUME NEW S \in State, NEW e \in Elements, NEW R, R = always(S, e)
    PROVE  /\ R \in State /\ R.queue = S.queue /\ R.todo = S.todo
           /\ SameTurn(S, R) /\ SameCalls(S, R) /\ SameClock(S, R)
<1>. DEFINE u == IF S.unqueued[e] = 0 THEN 0 ELSE S.unqueued[e] - 1
            V == [S.unqueued EXCEPT ![e] = u]
            U == [S EXCEPT !.unqueued[e] = IF @ = 0 THEN 0 ELSE @ - 1]
<1>1. S.unqueued \in [Elements -> Nat] /\ S.unqueued[e] \in Nat
  BY DEF State
<1>2. u \in Nat
  BY <1>1
<1>3. U = [S EXCEPT !.unqueued = V]
  OBVIOUS
<1>4. R = IF U.queue[e] = << >> THEN emptyFire(U, e) ELSE U
  BY DEF always
<1>. HIDE DEF u
<1>5. V \in [Elements -> Nat]
  BY <1>1, <1>2
<1>. HIDE DEF U, V
<1>6. /\ U \in State /\ U.queue = S.queue /\ U.todo = S.todo
      /\ SameTurn(S, U) /\ SameCalls(S, U) /\ SameClock(S, U)
  BY <1>3, <1>5 DEF State, SameTurn, SameCalls, SameClock
<1>7. CASE U.queue[e] = << >>
  <2>1. /\ R \in State /\ R.queue = U.queue /\ R.todo = U.todo
        /\ SameTurn(U, R) /\ SameCalls(U, R) /\ SameClock(U, R)
    BY <1>4, <1>6, <1>7, EmptyFireWay
  <2>. QED BY <1>6, <2>1 DEF SameTurn, SameCalls, SameClock
<1>8. CASE U.queue[e] # << >>
  BY <1>4, <1>6, <1>8
<1>. QED BY <1>7, <1>8

(* The sentinel is told apart from the functions, and has no number. *)
LEMMA ItemTypes ==
    /\ Job \subseteq Item /\ inprogress \in Item /\ inprogress \notin Job
    /\ \A it \in Job : /\ it.id \in Ids /\ it.id > 0 /\ it.part \in 0..2 /\ it.left \in Nat
                       /\ it.op \in {"animate", "delay", "highlight", "bounce", "bounced"}
    /\ inprogress.id = 0 /\ inprogress.part = 0 /\ inprogress.op = "inprogress"
<1>1. \A it \in Job : /\ it.id \in Ids /\ it.part \in 0..2 /\ it.left \in Nat
                      /\ it.op \in {"animate", "delay", "highlight", "bounce", "bounced"}
  BY DEF Job
<1>2. \A i \in Ids : i > 0
  BY EffectsAssumption DEF Ids
<1>3. inprogress.id = 0 /\ inprogress.part = 0 /\ inprogress.op = "inprogress"
  BY DEF inprogress
<1>. QED BY <1>1, <1>2, <1>3 DEF Item

(* A queue of the state. *)
LEMMA QueueType ==
    ASSUME NEW S \in State, NEW e \in Elements
    PROVE  /\ S.queue \in [Elements -> Seq(Item)]
           /\ S.queue[e] \in Seq(Item) /\ Len(S.queue[e]) \in Nat
           /\ DOMAIN S.queue[e] = 1..Len(S.queue[e])
           /\ \A k \in DOMAIN S.queue[e] : S.queue[e][k] \in Item
           /\ S.queue[e] # << >> <=> 1 \in DOMAIN S.queue[e]
<1>1. S.queue \in [Elements -> Seq(Item)] /\ S.queue[e] \in Seq(Item)
  BY DEF State
<1>. DEFINE q == S.queue[e]
<1>2. q \in Seq(Item)
  BY <1>1
<1>. HIDE DEF q
<1>3. /\ Len(q) \in Nat /\ DOMAIN q = 1..Len(q)
      /\ \A k \in DOMAIN q : q[k] \in Item
  BY <1>2, LenProperties, ElementOfSeq
<1>4. q # << >> <=> 1 \in DOMAIN q
  BY <1>2, <1>3, EmptySeq
<1>. QED BY <1>1, <1>3, <1>4 DEF q

(* A queue that is written. *)
Put(S, e, q) == [S EXCEPT !.queue[e] = q]

(* Only the queue differs after that. *)
LEMMA QueueSet ==
    ASSUME NEW S \in State, NEW e \in Elements, NEW q \in Seq(Item), NEW R,
           R = Put(S, e, q)
    PROVE  /\ R \in State /\ R.queue = [S.queue EXCEPT ![e] = q] /\ R.queue[e] = q
           /\ R.stop = S.stop /\ R.todo = S.todo
           /\ SameTurn(S, R) /\ SameCalls(S, R) /\ SameClock(S, R)
<1>. DEFINE Q == [S.queue EXCEPT ![e] = q]
<1>1. Q \in [Elements -> Seq(Item)] /\ Q[e] = q
  BY DEF State
<1>2. R = [S EXCEPT !.queue = Q]
  BY DEF Put
<1>3. Q = [S.queue EXCEPT ![e] = q]
  OBVIOUS
<1>. HIDE DEF Q
<1>. QED BY <1>1, <1>2, <1>3 DEF State, SameTurn, SameCalls, SameClock

(* fn.queue *)
LEMMA QueueWay ==
    ASSUME NEW S \in State, Quiet(S), NEW e \in Elements, NEW it \in Job,
           NEW R, R = queue(S, e, it)
    PROVE  /\ R \in State /\ R.queue = [S.queue EXCEPT ![e] = Append(@, it)]
           /\ R.stop = S.stop
           /\ SameTurn(S, R) /\ SameCalls(S, R) /\ SameClock(S, R)
           /\ IF S.queue[e] # << >> /\ S.queue[e][1] = inprogress
              THEN R.todo = S.todo ELSE OnlyDue(R, e)
<1>. DEFINE q == S.queue[e]
            p == Append(q, it)
            Q == [S EXCEPT !.queue[e] = Append(@, it)]
<1>1. /\ q \in Seq(Item) /\ Len(q) \in Nat /\ it \in Item /\ it # inprogress
      /\ q # << >> <=> 1 \in DOMAIN q
      /\ DOMAIN q = 1..Len(q)
  BY QueueType, ItemTypes
<1>. HIDE DEF q
<1>2. /\ p \in Seq(Item) /\ p # << >> /\ Len(p) = Len(q) + 1
      /\ p[Len(q) + 1] = it /\ \A k \in 1..Len(q) : p[k] = q[k]
  BY <1>1, AtEnd
<1>10. Head(p) = p[1]
  BY <1>2, InTail
<1>11. p = Append(S.queue[e], it)
  BY DEF q
<1>12. R = IF Head(Q.queue[e]) = inprogress THEN Q ELSE Before(Q, toDequeue(e))
  BY DEF queue
<1>. HIDE DEF p
<1>3. Q = Put(S, e, p)
  BY <1>11 DEF Put
<1>. HIDE DEF Q
<1>4. /\ Q \in State /\ Q.queue = [S.queue EXCEPT ![e] = p] /\ Q.queue[e] = p
      /\ Q.stop = S.stop /\ Q.todo = S.todo
      /\ SameTurn(S, Q) /\ SameCalls(S, Q) /\ SameClock(S, Q)
  BY <1>2, <1>3, QueueSet
<1>5. Head(Q.queue[e]) = inprogress <=> q # << >> /\ q[1] = inprogress
  <2>1. CASE q # << >>
    BY <1>1, <1>2, <1>4, <1>10, <2>1
  <2>2. CASE q = << >>
    <3>1. Len(q) = 0
      BY <2>2
    <3>. QED BY <1>1, <1>2, <1>4, <1>10, <2>2, <3>1
  <2>. QED BY <2>1, <2>2
<1>6. CASE q # << >> /\ q[1] = inprogress
  <2>1. R = Q
    BY <1>5, <1>6, <1>12
  <2>. QED BY <1>4, <1>6, <1>11, <2>1 DEF q
<1>7. CASE ~(q # << >> /\ q[1] = inprogress)
  <2>1. R = Before(Q, toDequeue(e)) /\ toDequeue(e) \in Frame /\ Quiet(Q)
    BY <1>4, <1>5, <1>7, <1>12, FrameTypes DEF Quiet
  <2>2. /\ R \in State /\ R.todo = <<toDequeue(e)>> \o Q.todo
        /\ SameQueues(Q, R) /\ SameCalls(Q, R) /\ SameClock(Q, R)
    BY <1>4, <2>1, BeforeWay
  <2>3. OnlyDue(R, e)
    BY <1>4, <2>1, <2>2, DequeueBefore
  <2>4. R.queue = Q.queue /\ R.stop = Q.stop /\ SameTurn(Q, R)
    BY <2>2 DEF SameQueues, SameTurn
  <2>5. SameTurn(S, R) /\ SameCalls(S, R) /\ SameClock(S, R)
    BY <1>4, <2>2, <2>4 DEF SameTurn, SameCalls, SameClock
  <2>. QED BY <1>4, <1>7, <1>11, <2>2, <2>3, <2>4, <2>5 DEF q
<1>. QED BY <1>6, <1>7

-----------------------------------------------------------------------------
(* dequeue.  It puts the sentinel in front of what is left of the queue,   *)
(* and begins the first function of it.                                    *)

(* How many items dequeue skips: the sentinel. *)
Skip(S, e) == IF S.queue[e] # << >> /\ S.queue[e][1] = inprogress THEN 1 ELSE 0

(* What is left of the queue without it. *)
Rest(S, e) == IF S.queue[e] # << >> /\ Head(S.queue[e]) = inprogress
              THEN Tail(S.queue[e]) ELSE S.queue[e]

(* The first function of the rest is taken out, and the sentinel put in    *)
(* front.                                                                  *)
Popped(S, e) ==
    [S EXCEPT !.queue[e] = << inprogress >> \o Tail(Rest(S, e)),
              !.cur[e] = Head(Rest(S, e)), !.stop[e] = 0]

(* The sentinel is nowhere but at the head of a queue in order. *)
LEMMA SentinelFirst ==
    ASSUME NEW q \in Seq(Item), Ordered(q), NEW k \in DOMAIN q, k # 1
    PROVE  q[k] \in Job
<1>1. /\ DOMAIN q = 1..Len(q) /\ Len(q) \in Nat
      /\ \A j \in DOMAIN q : q[j] \in Item
  BY LenProperties, ElementOfSeq
<1>2. 1 \in DOMAIN q /\ 1 < k
  BY <1>1
<1>3. q[1].id <= q[k].id /\ (q[1].part = 0 => q[1].id < q[k].id)
  BY <1>2 DEF Ordered
<1>4. q[1] \in Job \/ q[1] = inprogress
  BY <1>1, <1>2 DEF Item
<1>5. q[k] \in Job \/ q[k] = inprogress
  BY <1>1 DEF Item
<1>6. ASSUME q[k] = inprogress PROVE FALSE
  <2>1. q[k].id = 0
    BY <1>6, ItemTypes
  <2>2. CASE q[1] \in Job
    <3>1. q[1].id > 0 /\ q[1].id \in Ids
      BY <2>2, ItemTypes
    <3>. QED BY <1>3, <2>1, <3>1 DEF Ids
  <2>3. CASE q[1] = inprogress
    <3>1. q[1].id = 0 /\ q[1].part = 0
      BY <2>3, ItemTypes
    <3>. QED BY <1>3, <2>1, <3>1
  <2>. QED BY <1>4, <2>2, <2>3
<1>. QED BY <1>5, <1>6

(* What is left of a queue. *)
LEMMA RestIs ==
    ASSUME NEW S \in State, NEW e \in Elements, Ordered(S.queue[e])
    PROVE  /\ Rest(S, e) \in Seq(Item) /\ Skip(S, e) \in {0, 1}
           /\ Len(Rest(S, e)) \in Nat /\ DOMAIN Rest(S, e) = 1..Len(Rest(S, e))
           /\ Rest(S, e) = << >> <=> Len(Rest(S, e)) = 0
           /\ Len(S.queue[e]) = Len(Rest(S, e)) + Skip(S, e)
           /\ \A k \in DOMAIN Rest(S, e) :
                 /\ Rest(S, e)[k] \in Job
                 /\ k + Skip(S, e) \in DOMAIN S.queue[e]
                 /\ Rest(S, e)[k] = S.queue[e][k + Skip(S, e)]
           /\ \A m \in DOMAIN S.queue[e] :
                 \/ m = 1 /\ S.queue[e][m] = inprogress
                 \/ /\ m - Skip(S, e) \in DOMAIN Rest(S, e)
                    /\ S.queue[e][m] = Rest(S, e)[m - Skip(S, e)]
           /\ S.queue[e] # << >> /\ S.queue[e][1] # inprogress => Rest(S, e) = S.queue[e]
<1>. DEFINE q == S.queue[e]
<1>1. /\ q \in Seq(Item) /\ Len(q) \in Nat /\ DOMAIN q = 1..Len(q)
      /\ \A k \in DOMAIN q : q[k] \in Item
      /\ q # << >> <=> 1 \in DOMAIN q
  BY QueueType
<1>. HIDE DEF q
<1>2. Ordered(q)
  BY DEF q
<1>3. CASE q # << >> /\ q[1] = inprogress
  <2>1. Head(q) = q[1] /\ Tail(q) \in Seq(Item) /\ Len(Tail(q)) = Len(q) - 1 /\ Len(q) > 0
    BY <1>1, <1>3, InTail
  <2>2. \A k \in 1..(Len(q) - 1) : Tail(q)[k] = q[k + 1]
    BY <1>1, <1>3, InTail
  <2>3. Rest(S, e) = Tail(q) /\ Skip(S, e) = 1
    BY <1>3, <2>1 DEF Rest, Skip, q
  <2>. DEFINE t == Tail(q)
  <2>4. /\ t \in Seq(Item) /\ Len(t) = Len(q) - 1 /\ DOMAIN t = 1..(Len(q) - 1)
        /\ \A k \in 1..(Len(q) - 1) : t[k] = q[k + 1]
        /\ t = << >> <=> Len(t) = 0
    BY <1>1, <2>1, <2>2, LenProperties, EmptySeq
  <2>. HIDE DEF t
  <2>5. \A k \in DOMAIN t : t[k] \in Job /\ k + 1 \in DOMAIN q /\ t[k] = q[k + 1]
    <3>. TAKE k \in DOMAIN t
    <3>1. k + 1 \in DOMAIN q /\ k + 1 # 1 /\ t[k] = q[k + 1]
      BY <1>1, <2>4
    <3>2. q[k + 1] \in Job
      BY <1>1, <1>2, <3>1, SentinelFirst
    <3>. QED BY <3>1, <3>2
  <2>6. \A m \in DOMAIN q : m = 1 \/ (m - 1 \in DOMAIN t /\ q[m] = t[m - 1])
    <3>. TAKE m \in DOMAIN q
    <3>1. m = 1 \/ m - 1 \in 1..(Len(q) - 1)
      BY <1>1
    <3>2. (m - 1) + 1 = m
      BY <1>1
    <3>. QED BY <2>4, <3>1, <3>2
  <2>7. Rest(S, e) = t
    BY <2>3 DEF t
  <2>8. /\ Len(t) \in Nat /\ DOMAIN t = 1..Len(t) /\ Len(q) = Len(t) + 1
        /\ \A m \in DOMAIN q : \/ m = 1 /\ q[m] = inprogress
                               \/ m - 1 \in DOMAIN t /\ q[m] = t[m - 1]
    BY <1>1, <1>3, <2>1, <2>4, <2>6
  <2>9. Skip(S, e) = 1 /\ q = S.queue[e]
    BY <2>3 DEF q
  <2>. QED BY <1>3, <2>4, <2>5, <2>7, <2>8, <2>9
<1>4. CASE ~(q # << >> /\ q[1] = inprogress)
  <2>1. Rest(S, e) = q /\ Skip(S, e) = 0
    <3>1. CASE q = << >>
      BY <3>1 DEF Rest, Skip, q
    <3>2. CASE q # << >>
      <4>1. Head(q) = q[1]
        BY <1>1, <3>2, InTail
      <4>. QED BY <1>4, <3>2, <4>1 DEF Rest, Skip, q
    <3>. QED BY <3>1, <3>2
  <2>2. \A k \in DOMAIN q : q[k] \in Job
    <3>. TAKE k \in DOMAIN q
    <3>1. CASE k = 1
      <4>1. q # << >>
        BY <1>1, <3>1
      <4>. QED BY <1>1, <1>4, <3>1, <4>1 DEF Item
    <3>2. CASE k # 1
      BY <1>1, <1>2, <3>2, SentinelFirst
    <3>. QED BY <3>1, <3>2
  <2>3. q = << >> <=> Len(q) = 0
    BY <1>1, EmptySeq
  <2>. QED BY <1>1, <2>1, <2>2, <2>3 DEF q
<1>. QED BY <1>3, <1>4

(* The queue behind the sentinel has the other functions, at the places    *)
(* they had before.                                                        *)
LEMMA PoppedWay ==
    ASSUME NEW S \in State, NEW e \in Elements, Ordered(S.queue[e]),
           Rest(S, e) # << >>, NEW R, R = Popped(S, e)
    PROVE  /\ R \in State /\ R.todo = S.todo
           /\ SameTurn(S, R) /\ SameCalls(S, R) /\ SameClock(S, R)
           /\ R.stop[e] = 0
           /\ \A f \in Elements : f # e => R.queue[f] = S.queue[f]
           /\ Head(Rest(S, e)) = Rest(S, e)[1] /\ 1 \in DOMAIN Rest(S, e)
           /\ R.queue[e] # << >> /\ R.queue[e][1] = inprogress
           /\ DOMAIN R.queue[e] = DOMAIN Rest(S, e)
           /\ \A k \in DOMAIN R.queue[e] : k # 1 => R.queue[e][k] = Rest(S, e)[k]
<1>. DEFINE r == Rest(S, e)
            t == Tail(r)
            x == inprogress
            p == <<x>> \o t
            Q == [S.queue EXCEPT ![e] = p]
            C == [S.cur EXCEPT ![e] = Head(r)]
            P == [S.stop EXCEPT ![e] = 0]
<1>1. /\ r \in Seq(Item) /\ Len(r) \in Nat /\ DOMAIN r = 1..Len(r)
      /\ r # << >> /\ inprogress \in Item
  BY RestIs, ItemTypes
<1>2. R = [S EXCEPT !.queue = Q, !.cur = C, !.stop = P]
  BY DEF Popped
<1>. HIDE DEF r
<1>3. /\ Head(r) = r[1] /\ r[1] \in Item /\ t \in Seq(Item)
      /\ Len(r) > 0 /\ Len(t) = Len(r) - 1
      /\ \A k \in 1..(Len(r) - 1) : t[k] = r[k + 1]
  BY <1>1, InTail
<1>. HIDE DEF t
<1>4. /\ p \in Seq(Item) /\ Len(p) = Len(t) + 1 /\ p[1] = x /\ p # << >>
      /\ \A k \in 2..(Len(t) + 1) : p[k] = t[k - 1]
  <2>1. x \in Item
    BY <1>1
  <2>. HIDE DEF x
  <2>. QED BY <1>3, <2>1, InFront
<1>5. x = inprogress
  OBVIOUS
<1>. HIDE DEF p, x
<1>6. Q \in [Elements -> Seq(Item)] /\ Q[e] = p /\ \A f \in Elements : f # e => Q[f] = S.queue[f]
  BY <1>4 DEF State
<1>7. C \in [Elements -> Item \cup {null}] /\ P \in [Elements -> Nat] /\ P[e] = 0
  BY <1>3 DEF State
<1>. HIDE DEF Q, C, P
<1>8. /\ R \in State /\ R.todo = S.todo /\ R.queue = Q /\ R.stop = P
      /\ SameTurn(S, R) /\ SameCalls(S, R) /\ SameClock(S, R)
  BY ZenonT(60), <1>2, <1>6, <1>7 DEF State, SameTurn, SameCalls, SameClock
<1>9. DOMAIN p = 1..Len(r)
  BY <1>1, <1>3, <1>4, LenProperties
<1>10. ASSUME NEW k \in DOMAIN p, k # 1 PROVE p[k] = r[k]
  <2>1. k \in 2..(Len(t) + 1) /\ k - 1 \in 1..(Len(r) - 1) /\ (k - 1) + 1 = k
    BY <1>1, <1>3, <1>9, <1>10
  <2>. QED BY <1>3, <1>4, <2>1
<1>11. 1 \in DOMAIN r
  BY <1>1, <1>3
<1>. QED BY <1>1, <1>3, <1>4, <1>5, <1>6, <1>7, <1>8, <1>9, <1>10, <1>11 DEF r

(* A delay. *)
LEMMA DelayWay ==
    ASSUME NEW S \in State, NEW e \in Elements, NEW it \in Job,
           NEW R, R = delayBegins(S, e, it)
    PROVE  /\ R \in State /\ R.queue = S.queue /\ R.todo = S.todo /\ SameTurn(S, R)
           /\ R.timers = S.timers /\ R.timerId = S.timerId
           /\ R.timeouts = S.timeouts \cup {<<e, it.id>>}
           /\ R.begun = [S.begun EXCEPT ![e] = Append(@, it.id)]
           /\ R.completed = S.completed /\ R.cut = S.cut
<1>. DEFINE G == [S.begun EXCEPT ![e] = Append(S.begun[e], it.id)]
            P == [S.stop EXCEPT ![e] = it.id]
            O == S.timeouts \cup {<<e, it.id>>}
<1>1. it.id \in Ids /\ it.id \in Nat
  BY ItemTypes DEF Ids
<1>2. G \in [Elements -> Seq(Ids)]
  <2>1. S.begun \in [Elements -> Seq(Ids)] /\ S.begun[e] \in Seq(Ids)
    BY DEF State
  <2>2. Append(S.begun[e], it.id) \in Seq(Ids)
    BY <1>1, <2>1, AppendProperties
  <2>. QED BY <2>1, <2>2
<1>3. P \in [Elements -> Nat]
  BY <1>1 DEF State
<1>4. O \in SUBSET (Elements \X Ids)
  BY <1>1 DEF State
<1>5. R = [S EXCEPT !.timeouts = O, !.stop = P, !.begun = G]
  BY DEF delayBegins
<1>6. G = [S.begun EXCEPT ![e] = Append(@, it.id)]
  OBVIOUS
<1>7. O = S.timeouts \cup {<<e, it.id>>}
  OBVIOUS
<1>. HIDE DEF G, P, O
<1>. QED BY ZenonT(60), <1>2, <1>3, <1>4, <1>5, <1>6, <1>7 DEF State, SameTurn

(* The end of a bounce. *)
LEMMA BouncedWay ==
    ASSUME NEW S \in State, Quiet(S), NEW e \in Elements, NEW it \in Job,
           NEW R, R = effectBounced(S, e, it)
    PROVE  /\ R \in State /\ R.queue = S.queue /\ SameTurn(S, R) /\ SameClock(S, R)
           /\ R.begun = S.begun /\ R.cut = S.cut
           /\ R.completed = [S.completed EXCEPT ![it.id] = @ + 1]
           /\ OnlyDue(R, e)
<1>. DEFINE K == [S.completed EXCEPT ![it.id] = @ + 1]
            C == [Count(S, it.id) EXCEPT !.highlightLock = FALSE]
<1>1. K \in [Ids -> Nat]
  BY ItemTypes DEF State
<1>2. C = [S EXCEPT !.completed = K, !.highlightLock = FALSE]
  BY DEF Count
<1>3. R = Before(C, toDequeue(e)) /\ toDequeue(e) \in Frame
  BY FrameTypes DEF effectBounced
<1>4. K = [S.completed EXCEPT ![it.id] = @ + 1]
  OBVIOUS
<1>. HIDE DEF C, K
<1>5. /\ C \in State /\ C.queue = S.queue /\ C.todo = S.todo /\ SameTurn(S, C) /\ SameClock(S, C)
      /\ C.begun = S.begun /\ C.cut = S.cut /\ C.completed = K
  BY <1>1, <1>2 DEF State, SameTurn, SameClock
<1>6. Quiet(C)
  BY <1>5 DEF Quiet
<1>7. /\ R \in State /\ R.todo = <<toDequeue(e)>> \o C.todo
      /\ SameQueues(C, R) /\ SameCalls(C, R) /\ SameClock(C, R)
  BY <1>3, <1>5, BeforeWay
<1>8. OnlyDue(R, e)
  BY <1>5, <1>6, <1>7, DequeueBefore
<1>. QED BY <1>4, <1>5, <1>7, <1>8 DEF SameQueues, SameCalls, SameClock, SameTurn

(* The functions that a bounce puts into the queue. *)
LEMMA BounceParts ==
    ASSUME NEW it \in Job, NEW y, NEW z, NEW b,
           y = [op |-> "animate", id |-> it.id, part |-> 1, left |-> it.left],
           z = [op |-> "animate", id |-> it.id, part |-> 2, left |-> it.left],
           b = [it EXCEPT !.op = "bounced"]
    PROVE  /\ y \in Job /\ y.op = "animate" /\ y.part = 1 /\ y.id = it.id
           /\ z \in Job /\ z.op = "animate" /\ z.part = 2 /\ z.id = it.id
           /\ b \in Job /\ b.op = "bounced" /\ b.part = it.part /\ b.id = it.id
<1>1. it.id \in Ids /\ it.part \in 0..2 /\ it.left \in Nat
  BY DEF Job
<1>2. y \in Job /\ z \in Job
  BY <1>1 DEF Job
<1>3. b \in Job /\ b.op = "bounced" /\ b.part = it.part /\ b.id = it.id
  BY DEF Job
<1>. QED BY <1>2, <1>3

(* A bounce: the queue p becomes q. *)
Bounced(p, q, it) ==
    /\ Len(q) = Len(p) + 3 /\ q # << >> /\ q[1] = inprogress
    /\ \A k \in 2..4 : q[k] \in Job /\ q[k].id = it.id
    /\ q[2].op = "animate" /\ q[2].part = 1
    /\ q[3].op = "animate" /\ q[3].part = 2
    /\ q[4].op = "bounced" /\ q[4].part = it.part
    /\ \A k \in 5..(Len(p) + 3) : q[k] = p[k - 3]

(* effectBounce changes the queue so, and the element is dequeued next. *)
LEMMA BounceWay ==
    ASSUME NEW S \in State, Quiet(S), NEW e \in Elements, NEW it \in Job,
           S.queue[e] # << >>, NEW R, R = effectBounce(S, e, it)
    PROVE  /\ R \in State /\ R.stop = S.stop
           /\ SameTurn(S, R) /\ SameCalls(S, R) /\ SameClock(S, R)
           /\ \A f \in Elements : f # e => R.queue[f] = S.queue[f]
           /\ Bounced(S.queue[e], R.queue[e], it)
           /\ OnlyDue(R, e)
<1>. DEFINE q == S.queue[e]
            t == Tail(q)
            x == inprogress
            y == [op |-> "animate", id |-> it.id, part |-> 1, left |-> it.left]
            z == [op |-> "animate", id |-> it.id, part |-> 2, left |-> it.left]
            b == [it EXCEPT !.op = "bounced"]
            w == <<x, y, z, b>>
            p == w \o t
            P == Put(S, e, p)
<1>1. /\ q \in Seq(Item) /\ Len(q) \in Nat /\ DOMAIN q = 1..Len(q) /\ q # << >>
  BY QueueType
<1>2. /\ y \in Job /\ y.op = "animate" /\ y.part = 1 /\ y.id = it.id
      /\ z \in Job /\ z.op = "animate" /\ z.part = 2 /\ z.id = it.id
      /\ b \in Job /\ b.op = "bounced" /\ b.part = it.part /\ b.id = it.id
  BY BounceParts
<1>3. R = Before(P, toDequeue(e)) /\ toDequeue(e) \in Frame
  BY FrameTypes DEF effectBounce, Put
<1>4. q = S.queue[e] /\ x = inprogress
  OBVIOUS
<1>. HIDE DEF P
<1>5. x \in Item /\ y \in Item /\ z \in Item /\ b \in Item
  BY <1>2, ItemTypes
<1>. HIDE DEF q
<1>6. /\ t \in Seq(Item) /\ Len(t) = Len(q) - 1 /\ Len(q) > 0
      /\ \A k \in 1..(Len(q) - 1) : t[k] = q[k + 1]
  BY <1>1, InTail
<1>. HIDE DEF t, x, y, z, b
<1>7. w \in Seq(Item) /\ Len(w) = 4 /\ w[1] = x /\ w[2] = y /\ w[3] = z /\ w[4] = b
  BY <1>5
<1>. HIDE DEF w
<1>8. /\ p \in Seq(Item) /\ Len(p) = Len(w) + Len(t)
      /\ \A i \in 1..(Len(w) + Len(t)) : p[i] = IF i <= Len(w) THEN w[i] ELSE t[i - Len(w)]
  BY <1>6, <1>7, ConcatProperties
<1>. HIDE DEF p
<1>9. /\ Len(p) = Len(q) + 3 /\ p[1] = x /\ p[2] = y /\ p[3] = z /\ p[4] = b
  BY <1>1, <1>6, <1>7, <1>8
<1>10. ASSUME NEW k \in 5..(Len(q) + 3) PROVE p[k] = q[k - 3]
  <2>1. /\ k \in 1..(Len(w) + Len(t)) /\ ~(k <= Len(w)) /\ k - Len(w) \in 1..(Len(q) - 1)
        /\ (k - Len(w)) + 1 = k - 3
    BY <1>1, <1>6, <1>7
  <2>. QED BY <1>6, <1>8, <2>1
<1>11. p # << >>
  BY <1>1, <1>8, <1>9, EmptySeq
<1>12. /\ P \in State /\ P.queue = [S.queue EXCEPT ![e] = p] /\ P.queue[e] = p
       /\ P.stop = S.stop /\ P.todo = S.todo
       /\ SameTurn(S, P) /\ SameCalls(S, P) /\ SameClock(S, P)
  BY <1>8, QueueSet DEF P
<1>13. Quiet(P)
  BY <1>12 DEF Quiet
<1>14. /\ R \in State /\ R.todo = <<toDequeue(e)>> \o P.todo
       /\ SameQueues(P, R) /\ SameCalls(P, R) /\ SameClock(P, R)
  BY <1>3, <1>12, BeforeWay
<1>15. OnlyDue(R, e)
  BY <1>12, <1>13, <1>14, DequeueBefore
<1>16. /\ R.queue[e] = p /\ R.stop = S.stop /\ SameTurn(S, R) /\ SameCalls(S, R)
       /\ SameClock(S, R)
  BY <1>12, <1>14 DEF SameQueues, SameCalls, SameClock, SameTurn
<1>17. \A f \in Elements : f # e => R.queue[f] = S.queue[f]
  BY <1>12, <1>14 DEF SameQueues, State
<1>18. \A k \in 2..4 : p[k] \in Job /\ p[k].id = it.id
  BY <1>2, <1>9
<1>19. /\ p[2].op = "animate" /\ p[2].part = 1 /\ p[3].op = "animate" /\ p[3].part = 2
       /\ p[4].op = "bounced" /\ p[4].part = it.part
  BY <1>2, <1>9
<1>20. Bounced(q, p, it)
  BY <1>4, <1>9, <1>10, <1>11, <1>18, <1>19 DEF Bounced
<1>. QED BY <1>4, <1>14, <1>15, <1>16, <1>17, <1>20

(* What the end of a turn, and the start of one, do to the calls: the      *)
(* first is taken out, and no dequeue waits behind it.                     *)
LEMMA CallTaken ==
    ASSUME NEW S \in State, S.todo # << >>,
           \A k \in DOMAIN S.todo : k > 1 => S.todo[k].do = "always",
           NEW R, R = [S EXCEPT !.todo = Tail(@)]
    PROVE  /\ R \in State /\ Quiet(R) /\ Head(S.todo) \in Frame
           /\ SameQueues(S, R) /\ SameCalls(S, R) /\ SameClock(S, R)
           /\ \A e \in Elements : Due(S, e) <=>
                 Head(S.todo).do = "dequeue" /\ Head(S.todo).elem = e
<1>. DEFINE s == S.todo
            t == Tail(s)
<1>1. s \in Seq(Frame) /\ s # << >>
  BY DEF State
<1>2. R = [S EXCEPT !.todo = t]
  OBVIOUS
<1>9. s = S.todo
  OBVIOUS
<1>. HIDE DEF s
<1>3. /\ Head(s) = s[1] /\ s[1] \in Frame /\ t \in Seq(Frame)
      /\ Len(s) \in Nat /\ Len(s) > 0 /\ Len(t) = Len(s) - 1
      /\ \A k \in 1..(Len(s) - 1) : t[k] = s[k + 1]
  BY <1>1, InTail
<1>. HIDE DEF t
<1>4. /\ R \in State /\ R.todo = t
      /\ SameQueues(S, R) /\ SameCalls(S, R) /\ SameClock(S, R)
  BY <1>2, <1>3 DEF State, SameQueues, SameCalls, SameClock
<1>5. DOMAIN t = 1..(Len(s) - 1) /\ DOMAIN s = 1..Len(s)
  BY <1>1, <1>3, LenProperties
<1>6. Quiet(R)
  <2>1. ASSUME NEW k \in DOMAIN t PROVE t[k].do = "always"
    <3>1. k + 1 \in DOMAIN s /\ k + 1 > 1 /\ t[k] = s[k + 1]
      BY <1>3, <1>5
    <3>. QED BY <1>9, <3>1
  <2>. QED BY <1>4, <2>1 DEF Quiet
<1>7. \A e \in Elements : s[1] = toDequeue(e) <=> s[1].do = "dequeue" /\ s[1].elem = e
  BY <1>3 DEF Frame, toDequeue
<1>. QED BY <1>1, <1>3, <1>4, <1>6, <1>7, <1>9 DEF Due

-----------------------------------------------------------------------------
(* The invariant, of a state of the effects after c calls, with the        *)
(* elements that have a forgotten delay and those that were stranded.      *)

(* The types, with the finishing flag of the element that finish runs on. *)
Typed(S) ==
    /\ S \in State
    /\ \A e \in Elements : S.finish[e] = (S.loop.do = "finish" /\ S.loop.elem = e)

(* The invariant of a state of the effects. *)
Sound(S, c, lost, left) ==
    /\ Typed(S) /\ Shape(S) /\ Swept(S)
    /\ \A e \in Elements \ lost : OneAtWork(S, e)
    /\ Headed(S)
    /\ \A e \in Elements \ left : Attended(S, e)
    /\ InOrder(S)
    /\ Placed(S) /\ NoneToCome(S, c)

(* The elements with a forgotten delay, those of R added. *)
Lost(lost, R) == lost \cup { e \in Elements : Forgetting(R, e) }

(* The hooks of the other elements know their delays. *)
LEMMA NotLost ==
    ASSUME NEW R, NEW lost, NEW e \in Elements \ Lost(lost, R)
    PROVE  e \notin lost /\ \A t \in Delayed(R, e) : R.stop[e] = t[2]
BY DEF Lost, Forgetting, Delayed

(* No dequeue is due when only handlers wait to be called. *)
LEMMA QuietDue ==
    ASSUME NEW S \in State, Quiet(S)
    PROVE  /\ \A e \in Elements : ~Due(S, e)
           /\ \A k \in DOMAIN S.todo : k > 1 => S.todo[k].do = "always"
<1>1. NextIs(S, FALSE, 0)
  BY NothingBefore
<1>. QED BY <1>1 DEF NextIs

(* Whatever waits, waits as before. *)
LEMMA SameWaiting ==
    ASSUME NEW S, NEW R, R.queue = S.queue, R.loop = S.loop
    PROVE  /\ \A e \in Elements : Waiting(R, e) = Waiting(S, e)
           /\ \A i \in Ids : Waits(R, i) = Waits(S, i) /\ (Second(R, i) <=> Second(S, i))
BY DEF Waiting, Waits, Second

(* With the same timers the same animations are at work. *)
LEMMA SameTimers ==
    ASSUME NEW S, NEW R, R.timers = S.timers
    PROVE  /\ \A e \in Elements : AtWork(R, e) = AtWork(S, e) /\ (HasTimer(R, e) <=> HasTimer(S, e))
           /\ \A i \in Ids : Calls(R, i) = Calls(S, i)
BY DEF AtWork, HasTimer, Of, Calls

(* With the same timeouts the same delays are. *)
LEMMA SameTimeouts ==
    ASSUME NEW S, NEW R, R.timeouts = S.timeouts
    PROVE  /\ \A e \in Elements : Delayed(R, e) = Delayed(S, e)
           /\ \A i \in Ids : Sleeps(R, i) = Sleeps(S, i)
BY DEF Delayed, Sleeps

(* A call that has left a place is in one place still. *)
LEMMA FewerPlaces ==
    ASSUME NEW S, NEW R, NEW i \in Ids,
           R.completed[i] = S.completed[i], i \in R.cut <=> i \in S.cut,
           Waits(R, i) \subseteq Waits(S, i), Calls(R, i) \subseteq Calls(S, i),
           Sleeps(R, i) \subseteq Sleeps(S, i), Second(R, i) => Second(S, i)
    PROVE  /\ InOnePlace(S, i) => InOnePlace(R, i)
           /\ Fresh(S, i) => Fresh(R, i)
<1>1. Over(R, i) <=> Over(S, i)
  BY DEF Over
<1>. QED BY <1>1 DEF InOnePlace, Fresh

(* Nothing has begun, and nothing changed its place. *)
LEMMA StillPlaced ==
    ASSUME NEW S, NEW R, NEW c, SameCalls(S, R), R.queue = S.queue, R.loop = S.loop,
           \A i \in Ids : Calls(R, i) \subseteq Calls(S, i),
           \A i \in Ids : Sleeps(R, i) \subseteq Sleeps(S, i)
    PROVE  /\ InOrder(S) => InOrder(R)
           /\ Placed(S) => Placed(R)
           /\ NoneToCome(S, c) => NoneToCome(R, c)
<1>1. /\ \A e \in Elements : Waiting(R, e) = Waiting(S, e)
      /\ \A i \in Ids : Waits(R, i) = Waits(S, i) /\ (Second(R, i) <=> Second(S, i))
  BY SameWaiting
<1>2. ASSUME NEW i \in Ids
      PROVE  (InOnePlace(S, i) => InOnePlace(R, i)) /\ (Fresh(S, i) => Fresh(R, i))
  BY <1>1, FewerPlaces DEF SameCalls
<1>3. InOrder(S) => InOrder(R)
  BY <1>1 DEF InOrder, SameCalls
<1>4. NoneToCome(S, c) => NoneToCome(R, c)
  BY <1>2 DEF NoneToCome, SameCalls
<1>. QED BY <1>2, <1>3, <1>4 DEF Placed

(* Nothing has happened at an element. *)
LEMMA StillAtWork ==
    ASSUME NEW S, NEW R, NEW e \in Elements, OneAtWork(S, e),
           \A t \in Delayed(R, e) : R.stop[e] = t[2],
           AtWork(R, e) \subseteq AtWork(S, e), Delayed(R, e) \subseteq Delayed(S, e),
           Due(R, e) => Due(S, e),
           R.queue[e] = S.queue[e], R.removed = S.removed, R.loop = S.loop
    PROVE  OneAtWork(R, e)
BY DEF OneAtWork, Claimed

(* The loop of finish is only about elements that the page animates. *)
LEMMA OwnQueue ==
    ASSUME NEW S \in State, NEW e
    PROVE  S.loop.do # "finish" \/ S.loop.elem # e => Waiting(S, e) = S.queue[e]
BY DEF Waiting

(* The fields of a loop. *)
LEMMA LoopTypes ==
    ASSUME NEW S \in State
    PROVE  /\ S.loop.do \in {"stop", "finish", "tick", "effect", "none"}
           /\ S.loop.do = "stop" => /\ S.loop.elem \in Widgets /\ S.loop.at \in Nat
                                    /\ S.loop.gotoEnd \in BOOLEAN /\ S.loop.dequeue \in BOOLEAN
           /\ S.loop.do = "finish" => /\ S.loop.elem \in Widgets /\ S.loop.at \in Nat
                                      /\ S.loop.rest \in Seq(Item)
           /\ S.loop.do = "tick" => S.loop.at \in Nat
           /\ S.loop.do = "effect" => S.loop.id \in Ids
           /\ S.loop.do = "none" <=> S.loop = NoLoop
<1>1. S.loop \in Loop
  BY DEF State
<1>. QED BY <1>1 DEF Loop, NoLoop

(* The always handler of an animation outside of the queue changes nothing *)
(* that this is about.                                                     *)
LEMMA AlwaysStep ==
    ASSUME NEW S, NEW c \in Nat, NEW lost, NEW left, Sound(S, c, lost, left),
           S.todo # << >>, Head(S.todo).do = "always",
           NEW T, T = [S EXCEPT !.todo = Tail(@)],
           NEW R, R = always(T, Head(S.todo).elem)
    PROVE  Sound(R, c, Lost(lost, R), left)
<1>1. /\ T \in State /\ Quiet(T) /\ Head(S.todo) \in Frame
      /\ SameQueues(S, T) /\ SameCalls(S, T) /\ SameClock(S, T)
      /\ \A e \in Elements : ~Due(S, e)
  BY CallTaken DEF Sound, Typed, Shape
<1>2. Head(S.todo).elem \in Elements
  BY <1>1 DEF Frame
<1>3. /\ R \in State /\ R.queue = T.queue /\ R.todo = T.todo
      /\ SameTurn(T, R) /\ SameCalls(T, R) /\ SameClock(T, R)
  BY ZenonT(60), <1>1, <1>2, AlwaysWay
<1>4. /\ R.queue = S.queue /\ SameTurn(S, R) /\ SameCalls(S, R) /\ SameClock(S, R)
  BY <1>1, <1>3 DEF SameQueues, SameTurn, SameCalls, SameClock
<1>5. Quiet(R)
  BY <1>1, <1>3 DEF Quiet
<1>6. /\ \A e \in Elements : ~Due(R, e)
      /\ \A k \in DOMAIN R.todo : k > 1 => R.todo[k].do = "always"
  BY <1>3, <1>5, QuietDue
<1>7. /\ \A e \in Elements : AtWork(R, e) = AtWork(S, e) /\ (HasTimer(R, e) <=> HasTimer(S, e))
      /\ \A i \in Ids : Calls(R, i) = Calls(S, i)
      /\ \A e \in Elements : Delayed(R, e) = Delayed(S, e)
      /\ \A i \in Ids : Sleeps(R, i) = Sleeps(S, i)
  BY <1>4, SameTimers, SameTimeouts DEF SameClock
<1>8. Typed(R)
  BY ZenonT(60), <1>3, <1>4 DEF Sound, Typed, SameTurn
<1>9. Shape(R)
  BY ZenonT(60), <1>4, <1>6 DEF Sound, Shape, SameTurn, SameClock
<1>10. Swept(R)
  BY ZenonT(60), <1>4, <1>6 DEF Sound, Swept, WillDequeue, SameTurn, SameClock
<1>11. \A e \in Elements \ Lost(lost, R) : OneAtWork(R, e)
  <2>. TAKE e \in Elements \ Lost(lost, R)
  <2>1. e \notin lost /\ \A t \in Delayed(R, e) : R.stop[e] = t[2]
    BY NotLost
  <2>2. OneAtWork(S, e)
    BY <2>1 DEF Sound
  <2>3. /\ AtWork(R, e) \subseteq AtWork(S, e) /\ Delayed(R, e) \subseteq Delayed(S, e)
        /\ Due(R, e) => Due(S, e)
        /\ R.queue[e] = S.queue[e] /\ R.removed = S.removed /\ R.loop = S.loop
    BY <1>4, <1>6, <1>7 DEF SameTurn
  <2>. QED BY ZenonT(60), <2>1, <2>2, <2>3, StillAtWork
<1>12. Headed(R) /\ \A e \in Elements \ left : Attended(R, e)
  BY ZenonT(60), <1>1, <1>4, <1>7 DEF Sound, Headed, Attended, SameTurn
<1>13. InOrder(R) /\ Placed(R) /\ NoneToCome(R, c)
  BY <1>4, <1>7, StillPlaced DEF Sound, SameTurn
<1>. QED BY <1>8, <1>9, <1>10, <1>11, <1>12, <1>13 DEF Sound

-----------------------------------------------------------------------------
(* The start of a function of a queue.  It was taken out, and is in no     *)
(* place; nothing else is at work for the element.                         *)

(* A function that comes after those that have begun and before those that *)
(* wait.                                                                   *)
Ahead(S, e, it) ==
    /\ \A m \in DOMAIN S.begun[e] : S.begun[e][m] <= it.id
    /\ \A k \in DOMAIN Waiting(S, e) : Waiting(S, e)[k] # inprogress =>
          /\ it.id <= Waiting(S, e)[k].id
          /\ it.part = 0 => it.id < Waiting(S, e)[k].id

(* The state in which dequeue, or finish, begins the function it took out. *)
InHand(S, c, lost, left, e, it) ==
    /\ Typed(S) /\ Shape(S) /\ Quiet(S) /\ ~WillDequeue(S)
    /\ \A f \in Elements \ lost : IF f = e THEN AtWork(S, f) = {} ELSE OneAtWork(S, f)
    /\ Headed(S)
    /\ \A f \in Elements \ left : f # e => Attended(S, f)
    /\ \/ S.finish[e]
       \/ S.queue[e] # << >> /\ S.queue[e][1] = inprogress /\ S.stop[e] = 0
    /\ InOrder(S) /\ Ahead(S, e, it)
    /\ Placed(S) /\ NoneToCome(S, c)
    /\ it.part = 0 => Fresh(S, it.id)
    /\ it.id <= c
    /\ S.loop.do = "effect" /\ e = box => it.id < S.loop.id
    /\ Fits(e, it)

(* The calls that have begun. *)
LEMMA BegunType ==
    ASSUME NEW S \in State, NEW e \in Elements
    PROVE  /\ S.begun \in [Elements -> Seq(Ids)] /\ S.begun[e] \in Seq(Ids)
           /\ Len(S.begun[e]) \in Nat /\ DOMAIN S.begun[e] = 1..Len(S.begun[e])
           /\ \A m \in DOMAIN S.begun[e] : S.begun[e][m] \in Ids
<1>1. S.begun \in [Elements -> Seq(Ids)] /\ S.begun[e] \in Seq(Ids)
  BY DEF State
<1>. QED BY <1>1, LenProperties, ElementOfSeq

(* The call id is the last that has begun in the queue of e. *)
LEMMA Begins ==
    ASSUME NEW S \in State, NEW R, NEW e \in Elements, NEW id \in Ids,
           R.begun = [S.begun EXCEPT ![e] = Append(@, id)]
    PROVE  /\ \A f \in Elements : f # e => R.begun[f] = S.begun[f]
           /\ DOMAIN R.begun[e] = DOMAIN S.begun[e] \cup {Len(S.begun[e]) + 1}
           /\ \A m \in DOMAIN S.begun[e] :
                 R.begun[e][m] = S.begun[e][m] /\ m < Len(S.begun[e]) + 1
           /\ R.begun[e][Len(S.begun[e]) + 1] = id
<1>. DEFINE b == S.begun[e]
            g == Append(b, id)
<1>1. /\ S.begun \in [Elements -> Seq(Ids)] /\ b \in Seq(Ids)
      /\ Len(b) \in Nat /\ DOMAIN b = 1..Len(b)
  BY BegunType
<1>2. R.begun = [S.begun EXCEPT ![e] = g]
  OBVIOUS
<1>. HIDE DEF b
<1>3. /\ g \in Seq(Ids) /\ Len(g) = Len(b) + 1 /\ g[Len(b) + 1] = id
      /\ \A k \in 1..Len(b) : g[k] = b[k]
  BY <1>1, AtEnd
<1>. HIDE DEF g
<1>4. DOMAIN g = 1..(Len(b) + 1)
  BY <1>1, <1>3, LenProperties
<1>5. R.begun[e] = g /\ \A f \in Elements : f # e => R.begun[f] = S.begun[f]
  BY <1>1, <1>2
<1>6. /\ DOMAIN g = DOMAIN b \cup {Len(b) + 1}
      /\ \A m \in DOMAIN b : g[m] = b[m] /\ m < Len(b) + 1
  BY <1>1, <1>3, <1>4
<1>. QED BY <1>3, <1>5, <1>6 DEF b

(* What begins is not before what has begun, and not after what waits. *)
LEMMA BeginsInOrder ==
    ASSUME NEW S \in State, NEW R \in State, NEW e \in Elements, NEW it \in Job, NEW c,
           R.begun = [S.begun EXCEPT ![e] = Append(@, it.id)],
           R.queue = S.queue, R.loop = S.loop,
           InOrder(S), Ahead(S, e, it), it.id <= c,
           S.loop.do = "effect" /\ e = box => it.id <= S.loop.id
    PROVE  /\ InOrder(R)
           /\ (\A f \in Elements : \A m \in DOMAIN S.begun[f] : S.begun[f][m] <= c) =>
              (\A f \in Elements : \A m \in DOMAIN R.begun[f] : R.begun[f][m] <= c)
           /\ (S.loop.do = "effect" =>
                  \A m \in DOMAIN S.begun[box] : S.begun[box][m] <= S.loop.id) =>
              (R.loop.do = "effect" =>
                  \A m \in DOMAIN R.begun[box] : R.begun[box][m] <= R.loop.id)
<1>. DEFINE n == Len(S.begun[e]) + 1
<1>1. /\ \A f \in Elements : f # e => R.begun[f] = S.begun[f]
      /\ DOMAIN R.begun[e] = DOMAIN S.begun[e] \cup {n}
      /\ \A m \in DOMAIN S.begun[e] : R.begun[e][m] = S.begun[e][m] /\ m < n
      /\ R.begun[e][n] = it.id
  BY ItemTypes, Begins
<1>2. /\ Len(S.begun[e]) \in Nat /\ DOMAIN S.begun[e] = 1..Len(S.begun[e])
      /\ it.id \in Nat
  BY BegunType, ItemTypes DEF Ids
<1>3. n \in Nat /\ n \notin DOMAIN S.begun[e] /\ \A m \in DOMAIN S.begun[e] : ~(n <= m)
  BY <1>2
<1>. HIDE DEF n
<1>4. \A f \in Elements : Waiting(R, f) = Waiting(S, f)
  BY SameWaiting
<1>5. \A f \in Elements : Ordered(Waiting(R, f))
  BY <1>4 DEF InOrder
<1>6. ASSUME NEW f \in Elements, NEW p \in DOMAIN R.begun[f], NEW q \in DOMAIN R.begun[f], p <= q
      PROVE  R.begun[f][p] <= R.begun[f][q]
  <2>1. CASE f # e
    BY <1>1, <1>6, <2>1 DEF InOrder
  <2>2. CASE f = e /\ q = n
    <3>1. p = n \/ p \in DOMAIN S.begun[e]
      BY <1>1, <2>2
    <3>. QED BY <1>1, <1>2, <2>2, <3>1 DEF Ahead
  <2>3. CASE f = e /\ q # n
    <3>1. q \in DOMAIN S.begun[e] /\ p \in DOMAIN S.begun[e]
      BY <1>1, <1>3, <1>6, <2>3
    <3>. QED BY <1>1, <1>6, <2>3, <3>1 DEF InOrder
  <2>. QED BY <2>1, <2>2, <2>3
<1>7. ASSUME NEW f \in Elements, NEW p \in DOMAIN R.begun[f], NEW k \in DOMAIN Waiting(R, f),
             Waiting(R, f)[k] # inprogress
      PROVE  R.begun[f][p] <= Waiting(R, f)[k].id
  <2>1. CASE f = e /\ p = n
    BY <1>1, <1>4, <1>7, <2>1 DEF Ahead
  <2>2. CASE ~(f = e /\ p = n)
    <3>1. p \in DOMAIN S.begun[f] /\ R.begun[f][p] = S.begun[f][p]
      BY <1>1, <2>2
    <3>. QED BY <1>4, <1>7, <3>1 DEF InOrder
  <2>. QED BY <2>1, <2>2
<1>8. InOrder(R)
  BY <1>5, <1>6, <1>7 DEF InOrder
<1>. QED BY <1>1, <1>8

(* An animation of a queue begins, and is at work or ends at once. *)
LEMMA AnimationStep ==
    ASSUME NEW S, NEW c \in Nat, NEW lost, NEW left, NEW e \in Elements, NEW it \in Job,
           InHand(S, c, lost, left, e, it),
           NEW a \in Timer, a.elem = e, a.id = it.id, a.part = it.part, a.dequeues,
           ~a.settled, e \in Widgets => a.queued,
           NEW R, R = Animation(S, a)
    PROVE  Sound(R, c, Lost(lost, R), left)
<1>1. S \in State /\ Quiet(S)
  BY DEF InHand, Typed
<1>2. /\ R \in State /\ SameQueues(S, R) /\ R.timeouts = S.timeouts /\ R.cut = S.cut
      /\ (S.timers # << >> => S.timerId) => (R.timers # << >> => R.timerId)
      /\ R.begun = [S.begun EXCEPT ![e] = Append(@, it.id)]
      /\ Longer(S, R, a)
      /\ IF a.left = 0 \/ S.finish[e] THEN Flashes(S, R, a) ELSE Joins(S, R, a)
  BY SMTT(30), <1>1, AnimationWay
<1>3. R.queue = S.queue /\ R.stop = S.stop /\ R.loop = S.loop /\ R.removed = S.removed
  BY <1>2 DEF SameQueues
<1>. DEFINE flash == a.left = 0 \/ S.finish[e]
<1>4. /\ flash => Flashes(S, R, a)
      /\ ~flash => Joins(S, R, a)
  BY <1>2
<1>5. ~flash => S.queue[e] # << >> /\ S.queue[e][1] = inprogress /\ S.stop[e] = 0
  BY DEF InHand
<1>. HIDE DEF flash
<1>6. a.dequeues = TRUE
  BY TimerFields
<1>7. /\ \A k \in DOMAIN R.todo : k > 1 => R.todo[k].do = "always"
      /\ \A f \in Elements : Due(R, f) <=> flash /\ f = e
  <2>1. CASE flash
    BY <1>4, <1>6, <2>1 DEF Flashes, NextIs
  <2>2. CASE ~flash
    <3>1. Quiet(R)
      BY <1>1, <1>4, <2>2 DEF Joins, Quiet
    <3>. QED BY <1>2, <2>2, <3>1, QuietDue
  <2>. QED BY <2>1, <2>2
<1>8. /\ \A f \in Elements : f # e => AtWork(R, f) = AtWork(S, f)
      /\ flash => AtWork(R, e) = AtWork(S, e)
      /\ ~flash => AtWork(R, e) = AtWork(S, e) \cup {Len(R.timers)}
  <2>1. CASE flash
    <3>1. \A f \in Elements : AtWork(R, f) = AtWork(S, f)
      BY <1>4, <2>1 DEF Flashes
    <3>. QED BY <2>1, <3>1
  <2>2. CASE ~flash
    <3>1. \A f \in Elements : AtWork(R, f) = AtWork(S, f) \cup
             (IF a.dequeues /\ f = e THEN {Len(R.timers)} ELSE {})
      BY <1>4, <2>2 DEF Joins
    <3>2. \A f \in Elements : f # e => AtWork(R, f) = AtWork(S, f)
      BY <3>1
    <3>3. AtWork(R, e) = AtWork(S, e) \cup {Len(R.timers)}
      BY <3>1
    <3>. QED BY <2>2, <3>2, <3>3
  <2>. QED BY <2>1, <2>2
<1>9. /\ \A f \in Elements : Delayed(R, f) = Delayed(S, f)
      /\ \A i \in Ids : Sleeps(R, i) = Sleeps(S, i)
  BY <1>2, SameTimeouts
<1>10. Typed(R)
  BY <1>2 DEF InHand, Typed, SameQueues
<1>11. Shape(R)
  <2>1. \A j \in DOMAIN R.timers : R.timers[j].elem \in Widgets =>
            R.timers[j].part = 0 /\ (R.timers[j].dequeues => R.timers[j].queued)
    <3>1. a.elem \in Widgets => a.part = 0 /\ (a.dequeues => a.queued)
      BY ItemTypes DEF InHand, Fits
    <3>. TAKE j \in DOMAIN R.timers
    <3>2. CASE j \in DOMAIN S.timers
      <4>1. R.timers[j] = S.timers[j]
        BY <1>2, <3>2 DEF Longer
      <4>. QED BY <3>2, <4>1 DEF InHand, Shape
    <3>3. CASE j \notin DOMAIN S.timers
      <4>1. /\ R.timers[j].elem = a.elem /\ R.timers[j].part = a.part
            /\ R.timers[j].queued = a.queued /\ R.timers[j].dequeues = a.dequeues
        BY <1>2, <3>3 DEF Longer
      <4>. QED BY <3>1, <4>1
    <3>. QED BY <3>2, <3>3
  <2>2. R.loop.do \in {"stop", "finish"} => R.loop.at <= Len(R.timers)
    <3>1. Len(S.timers) \in Nat /\ Len(R.timers) \in Nat
      BY <1>1, <1>2, TimersType
    <3>2. S.loop.do \in {"stop", "finish"} => S.loop.at \in Nat
      BY <1>1 DEF State, Loop, NoLoop
    <3>. QED BY <1>2, <1>3, <3>1, <3>2 DEF Longer, InHand, Shape
  <2>. QED BY <1>2, <1>3, <1>7, <2>1, <2>2 DEF InHand, Shape
<1>12. Swept(R)
  BY <1>3 DEF InHand, Swept, WillDequeue
<1>13. \A f \in Elements \ Lost(lost, R) : OneAtWork(R, f)
  <2>. TAKE f \in Elements \ Lost(lost, R)
  <2>1. f \notin lost /\ \A t \in Delayed(R, f) : R.stop[f] = t[2]
    BY NotLost
  <2>2. CASE f # e
    <3>1. OneAtWork(S, f)
      BY <2>1, <2>2 DEF InHand
    <3>2. AtWork(R, f) = AtWork(S, f) /\ Delayed(R, f) = Delayed(S, f) /\ ~Due(R, f)
      BY <1>7, <1>8, <1>9, <2>2
    <3>. QED BY <1>3, <2>1, <3>1, <3>2, StillAtWork
  <2>3. CASE f = e
    <3>1. AtWork(S, e) = {}
      BY <2>1, <2>3 DEF InHand
    <3>2. CASE flash
      <4>1. AtWork(R, e) = {}
        BY <1>8, <3>1, <3>2
      <4>. QED BY <2>1, <2>3, <4>1 DEF OneAtWork, Claimed
    <3>3. CASE ~flash
      <4>1. AtWork(R, e) = {Len(R.timers)}
        BY <1>8, <3>1, <3>3
      <4>2. Delayed(R, e) = {}
        <5>1. R.stop[e] = 0
          BY <1>3, <1>5, <3>3
        <5>2. \A t \in Delayed(R, e) : t[2] \in Ids /\ t[2] # 0
          <6>1. R.timeouts \subseteq Elements \X Ids
            BY <1>2 DEF State
          <6>2. \A i \in Ids : i # 0
            BY EffectsAssumption DEF Ids
          <6>. QED BY <6>1, <6>2 DEF Delayed
        <5>. QED BY <2>1, <2>3, <5>1, <5>2
      <4>3. ~Due(R, e)
        BY <1>7, <3>3
      <4>4. Claimed(R, e)
        BY <1>3, <1>5, <3>3 DEF Claimed
      <4>. QED BY <2>3, <4>1, <4>2, <4>3, <4>4 DEF OneAtWork
    <3>. QED BY <3>2, <3>3
  <2>. QED BY <2>2, <2>3
<1>14. Headed(R)
  <2>1. \A f \in Elements : S.queue[f] # << >> => S.queue[f][1] = inprogress
    BY <1>1, QuietDue DEF InHand, Headed
  <2>. QED BY <1>3, <2>1 DEF Headed
<1>15. \A f \in Elements \ left : Attended(R, f)
  <2>. TAKE f \in Elements \ left
  <2>1. CASE f # e
    <3>1. Attended(S, f) /\ ~Due(S, f)
      BY <1>1, <2>1, QuietDue DEF InHand
    <3>2. AtWork(R, f) = AtWork(S, f) /\ Delayed(R, f) = Delayed(S, f)
      BY <1>8, <1>9, <2>1
    <3>3. HasTimer(R, f) => HasTimer(S, f)
      BY ZenonT(60), <1>2, <2>1 DEF HasTimer, Of, Longer
    <3>. QED BY <1>3, <3>1, <3>2, <3>3 DEF Attended
  <2>2. CASE f = e
    <3>1. CASE flash
      BY <1>7, <2>2, <3>1 DEF Attended
    <3>2. CASE ~flash
      BY <1>8, <2>2, <3>2 DEF Attended
    <3>. QED BY <3>1, <3>2
  <2>. QED BY <2>1, <2>2
<1>30. S.loop.do = "effect" /\ e = box => it.id <= S.loop.id
  BY <1>1, ItemTypes, LoopTypes DEF InHand, Ids
<1>16. /\ InOrder(R)
       /\ \A f \in Elements : \A m \in DOMAIN R.begun[f] : R.begun[f][m] <= c
       /\ R.loop.do = "effect" => \A m \in DOMAIN R.begun[box] : R.begun[box][m] <= R.loop.id
  BY <1>1, <1>2, <1>3, <1>30, BeginsInOrder DEF InHand, NoneToCome
<1>17. ASSUME NEW i \in Ids
       PROVE  InOnePlace(R, i) /\ (Fresh(S, i) /\ i # it.id => Fresh(R, i))
  <2>1. /\ Waits(R, i) = Waits(S, i) /\ (Second(R, i) <=> Second(S, i))
        /\ Sleeps(R, i) = Sleeps(S, i)
    BY <1>3, <1>9, SameWaiting
  <2>2. InOnePlace(S, i)
    BY DEF InHand, Placed
  <2>3. CASE i # it.id \/ it.part # 0
    <3>1. Calls(R, i) = Calls(S, i) /\ R.completed[i] = S.completed[i]
      <4>1. CASE flash
        BY <1>1, <1>4, <2>3, <4>1, ItemTypes DEF Flashes, State
      <4>2. CASE ~flash
        BY ZenonT(60), <1>4, <2>3, <4>2 DEF Joins
      <4>. QED BY <4>1, <4>2
    <3>. QED BY <1>2, <2>1, <2>2, <3>1, FewerPlaces
  <2>4. CASE i = it.id /\ it.part = 0
    <3>1. Fresh(S, i)
      BY <2>4 DEF InHand
    <3>2. S.completed[i] = 0 /\ i \notin S.cut
      BY <1>1, <3>1 DEF Fresh, Over, State
    <3>3. CASE flash
      <4>1. Calls(R, i) = {} /\ R.completed[i] = 1 /\ i \notin R.cut
        BY SMTT(30), <1>1, <1>2, <1>4, <2>4, <3>1, <3>2, <3>3 DEF Flashes, Fresh, State
      <4>. QED BY <2>1, <2>4, <3>1, <4>1 DEF InOnePlace, Fresh
    <3>4. CASE ~flash
      <4>1. Calls(R, i) = {Len(R.timers)} /\ R.completed[i] = 0 /\ i \notin R.cut
        BY <1>2, <1>4, <2>4, <3>1, <3>2, <3>4 DEF Joins, Fresh
      <4>2. ~Over(R, i)
        BY <4>1 DEF Over
      <4>. QED BY <2>1, <2>4, <3>1, <4>1, <4>2 DEF InOnePlace, Fresh
    <3>. QED BY <3>3, <3>4
  <2>. QED BY <2>3, <2>4
<1>18. Placed(R)
  BY <1>17 DEF Placed
<1>19. NoneToCome(R, c)
  <2>1. ASSUME NEW i \in Ids, i > c PROVE Fresh(R, i)
    <3>1. Fresh(S, i)
      BY <2>1 DEF InHand, NoneToCome
    <3>2. i # it.id
      <4>1. it.id <= c
        BY DEF InHand
      <4>2. it.id \in Nat /\ i \in Nat
        BY ItemTypes DEF Ids
      <4>. QED BY <2>1, <4>1, <4>2
    <3>. QED BY <1>17, <3>1, <3>2
  <2>. QED BY <1>3, <1>16, <2>1 DEF InHand, NoneToCome
<1>. QED BY <1>10, <1>11, <1>12, <1>13, <1>14, <1>15, <1>16, <1>18, <1>19 DEF Sound

(* A delay begins. *)
LEMMA DelayStep ==
    ASSUME NEW S, NEW c \in Nat, NEW lost, NEW left, NEW e \in Elements, NEW it \in Job,
           InHand(S, c, lost, left, e, it), it.op = "delay",
           NEW R, R = delayBegins(S, e, it)
    PROVE  Sound(R, c, Lost(lost, R), left)
<1>1. S \in State /\ Quiet(S)
  BY DEF InHand, Typed
<1>2. /\ R \in State /\ R.queue = S.queue /\ R.todo = S.todo /\ SameTurn(S, R)
      /\ R.timers = S.timers /\ R.timerId = S.timerId
      /\ R.timeouts = S.timeouts \cup {<<e, it.id>>}
      /\ R.begun = [S.begun EXCEPT ![e] = Append(@, it.id)]
      /\ R.completed = S.completed /\ R.cut = S.cut
  BY <1>1, DelayWay
<1>3. R.loop = S.loop /\ R.removed = S.removed /\ R.finish = S.finish
  BY <1>2 DEF SameTurn
<1>4. Quiet(R)
  BY <1>1, <1>2 DEF Quiet
<1>5. /\ \A f \in Elements : ~Due(R, f) /\ ~Due(S, f)
      /\ \A k \in DOMAIN R.todo : k > 1 => R.todo[k].do = "always"
  BY <1>1, <1>2, <1>4, QuietDue
<1>6. /\ \A f \in Elements : AtWork(R, f) = AtWork(S, f) /\ (HasTimer(R, f) <=> HasTimer(S, f))
      /\ \A i \in Ids : Calls(R, i) = Calls(S, i)
  BY <1>2, SameTimers
<1>7. it.part = 0 /\ e \in Widgets /\ it.id \in Ids
  <2>1. it # inprogress
    BY ItemTypes
  <2>. QED BY <2>1, ItemTypes DEF InHand, Fits, Elements
<1>8. /\ \A f \in Elements : f # e => Delayed(R, f) = Delayed(S, f)
      /\ <<e, it.id>> \in Delayed(R, e)
  BY <1>2 DEF Delayed
<1>9. \A i \in Ids : IF i = it.id THEN Sleeps(R, i) = Sleeps(S, i) \cup {e}
                     ELSE Sleeps(R, i) = Sleeps(S, i)
  BY <1>2 DEF Sleeps
<1>10. Typed(R)
  BY <1>2, <1>3 DEF InHand, Typed
<1>11. Shape(R)
  <2>1. R.timeouts \subseteq Widgets \X Ids
    BY <1>2, <1>7 DEF InHand, Shape
  <2>. QED BY <1>2, <1>3, <1>5, <2>1 DEF InHand, Shape
<1>12. Swept(R)
  BY <1>3 DEF InHand, Swept, WillDequeue
<1>13. \A f \in Elements \ Lost(lost, R) : OneAtWork(R, f)
  <2>. TAKE f \in Elements \ Lost(lost, R)
  <2>1. f \notin lost /\ \A t \in Delayed(R, f) : R.stop[f] = t[2]
    BY NotLost
  <2>2. CASE f # e
    <3>1. OneAtWork(S, f)
      BY <2>1, <2>2 DEF InHand
    <3>2. /\ AtWork(R, f) = AtWork(S, f) /\ Delayed(R, f) = Delayed(S, f) /\ ~Due(R, f)
          /\ R.queue[f] = S.queue[f]
      BY <1>2, <1>5, <1>6, <1>8, <2>2
    <3>. QED BY <1>3, <2>1, <3>1, <3>2, StillAtWork
  <2>3. CASE f = e
    <3>1. AtWork(R, e) = {}
      BY <1>6, <2>1, <2>3 DEF InHand
    <3>. QED BY <2>1, <2>3, <3>1 DEF OneAtWork, Claimed
  <2>. QED BY <2>2, <2>3
<1>14. Headed(R)
  BY <1>2, <1>5 DEF InHand, Headed
<1>15. \A f \in Elements \ left : Attended(R, f)
  <2>. TAKE f \in Elements \ left
  <2>1. CASE f # e
    <3>1. Attended(S, f)
      BY <2>1 DEF InHand
    <3>. QED BY <1>2, <1>3, <1>5, <1>6, <1>8, <2>1, <3>1 DEF Attended
  <2>2. CASE f = e
    BY <1>8, <2>2 DEF Attended
  <2>. QED BY <2>1, <2>2
<1>30. S.loop.do = "effect" /\ e = box => it.id <= S.loop.id
  BY <1>1, ItemTypes, LoopTypes DEF InHand, Ids
<1>16. /\ InOrder(R)
       /\ \A f \in Elements : \A m \in DOMAIN R.begun[f] : R.begun[f][m] <= c
       /\ R.loop.do = "effect" => \A m \in DOMAIN R.begun[box] : R.begun[box][m] <= R.loop.id
  BY <1>1, <1>2, <1>3, <1>30, BeginsInOrder DEF InHand, NoneToCome
<1>17. ASSUME NEW i \in Ids
       PROVE  InOnePlace(R, i) /\ (Fresh(S, i) /\ i # it.id => Fresh(R, i))
  <2>1. /\ Waits(R, i) = Waits(S, i) /\ (Second(R, i) <=> Second(S, i))
        /\ Calls(R, i) = Calls(S, i) /\ R.completed[i] = S.completed[i]
        /\ (i \in R.cut <=> i \in S.cut) /\ (Over(R, i) <=> Over(S, i))
    BY <1>2, <1>3, <1>6, SameWaiting DEF Over
  <2>2. InOnePlace(S, i)
    BY DEF InHand, Placed
  <2>3. CASE i # it.id
    <3>1. Sleeps(R, i) = Sleeps(S, i)
      BY <1>9, <2>3
    <3>. QED BY <2>1, <2>2, <3>1, FewerPlaces
  <2>4. CASE i = it.id
    <3>1. Fresh(S, i)
      BY <1>7, <2>4 DEF InHand
    <3>2. Sleeps(R, i) = {e}
      BY <1>9, <2>4, <3>1 DEF Fresh
    <3>. QED BY <2>1, <2>2, <2>4, <3>1, <3>2 DEF InOnePlace, Fresh
  <2>. QED BY <2>3, <2>4
<1>18. NoneToCome(R, c)
  <2>1. ASSUME NEW i \in Ids, i > c PROVE Fresh(R, i)
    <3>1. Fresh(S, i)
      BY <2>1 DEF InHand, NoneToCome
    <3>2. i # it.id
      <4>1. it.id <= c
        BY DEF InHand
      <4>2. it.id \in Nat /\ i \in Nat
        BY ItemTypes DEF Ids
      <4>. QED BY <2>1, <4>1, <4>2
    <3>. QED BY <1>17, <3>1, <3>2
  <2>. QED BY <1>2, <1>3, <1>16, <2>1 DEF InHand, NoneToCome
<1>. QED BY <1>10, <1>11, <1>12, <1>13, <1>14, <1>15, <1>16, <1>17, <1>18 DEF Sound, Placed

(* The end of a bounce releases the lock and calls next. *)
LEMMA BouncedStep ==
    ASSUME NEW S, NEW c \in Nat, NEW lost, NEW left, NEW e \in Elements, NEW it \in Job,
           InHand(S, c, lost, left, e, it), it.op = "bounced",
           NEW R, R = effectBounced(S, e, it)
    PROVE  Sound(R, c, Lost(lost, R), left)
<1>1. S \in State /\ Quiet(S)
  BY DEF InHand, Typed
<1>2. /\ R \in State /\ R.queue = S.queue /\ SameTurn(S, R) /\ SameClock(S, R)
      /\ R.begun = S.begun /\ R.cut = S.cut
      /\ R.completed = [S.completed EXCEPT ![it.id] = @ + 1]
      /\ OnlyDue(R, e)
  BY <1>1, BouncedWay
<1>3. R.loop = S.loop /\ R.removed = S.removed /\ R.finish = S.finish
  BY <1>2 DEF SameTurn
<1>4. /\ \A f \in Elements : Due(R, f) <=> f = e
      /\ \A k \in DOMAIN R.todo : k > 1 => R.todo[k].do = "always"
      /\ \A f \in Elements : ~Due(S, f)
  BY <1>1, <1>2, QuietDue DEF OnlyDue
<1>5. /\ \A f \in Elements : AtWork(R, f) = AtWork(S, f) /\ (HasTimer(R, f) <=> HasTimer(S, f))
      /\ \A i \in Ids : Calls(R, i) = Calls(S, i)
      /\ \A f \in Elements : Delayed(R, f) = Delayed(S, f)
      /\ \A i \in Ids : Sleeps(R, i) = Sleeps(S, i)
  BY <1>2, SameTimers, SameTimeouts DEF SameClock
<1>6. it.part = 0
  <2>1. it # inprogress
    BY ItemTypes
  <2>. QED BY <2>1, ItemTypes DEF InHand, Fits, Elements
<1>7. Typed(R)
  BY <1>2, <1>3 DEF InHand, Typed
<1>8. Shape(R)
  BY <1>2, <1>3, <1>4 DEF InHand, Shape, SameClock
<1>9. Swept(R)
  BY <1>3 DEF InHand, Swept, WillDequeue
<1>10. \A f \in Elements \ Lost(lost, R) : OneAtWork(R, f)
  <2>. TAKE f \in Elements \ Lost(lost, R)
  <2>1. f \notin lost /\ \A t \in Delayed(R, f) : R.stop[f] = t[2]
    BY NotLost
  <2>2. CASE f # e
    <3>1. OneAtWork(S, f)
      BY <2>1, <2>2 DEF InHand
    <3>2. /\ AtWork(R, f) = AtWork(S, f) /\ Delayed(R, f) = Delayed(S, f) /\ ~Due(R, f)
          /\ R.queue[f] = S.queue[f]
      BY <1>2, <1>4, <1>5, <2>2
    <3>. QED BY <1>3, <2>1, <3>1, <3>2, StillAtWork
  <2>3. CASE f = e
    <3>1. AtWork(R, e) = {}
      BY <1>5, <2>1, <2>3 DEF InHand
    <3>. QED BY <2>1, <2>3, <3>1 DEF OneAtWork, Claimed
  <2>. QED BY <2>2, <2>3
<1>11. Headed(R)
  BY <1>2, <1>4 DEF InHand, Headed
<1>12. \A f \in Elements \ left : Attended(R, f)
  <2>. TAKE f \in Elements \ left
  <2>1. CASE f # e
    <3>1. Attended(S, f)
      BY <2>1 DEF InHand
    <3>. QED BY <1>2, <1>3, <1>4, <1>5, <2>1, <3>1 DEF Attended
  <2>2. CASE f = e
    BY <1>4, <2>2 DEF Attended
  <2>. QED BY <2>1, <2>2
<1>13. InOrder(R)
  <2>1. \A f \in Elements : Waiting(R, f) = Waiting(S, f)
    BY <1>2, <1>3, SameWaiting
  <2>. QED BY <1>2, <2>1 DEF InHand, InOrder
<1>14. ASSUME NEW i \in Ids
       PROVE  InOnePlace(R, i) /\ (Fresh(S, i) /\ i # it.id => Fresh(R, i))
  <2>1. /\ Waits(R, i) = Waits(S, i) /\ (Second(R, i) <=> Second(S, i))
        /\ Calls(R, i) = Calls(S, i) /\ Sleeps(R, i) = Sleeps(S, i)
        /\ (i \in R.cut <=> i \in S.cut)
    BY <1>2, <1>3, <1>5, SameWaiting
  <2>2. InOnePlace(S, i)
    BY DEF InHand, Placed
  <2>3. CASE i # it.id
    <3>1. R.completed[i] = S.completed[i]
      BY <1>1, <1>2, <2>3 DEF State
    <3>. QED BY <2>1, <2>2, <3>1, FewerPlaces
  <2>4. CASE i = it.id
    <3>1. Fresh(S, i)
      BY <1>6, <2>4 DEF InHand
    <3>2. S.completed[i] = 0 /\ i \notin S.cut
      BY <1>1, <3>1 DEF Fresh, Over, State
    <3>3. R.completed[i] = 1
      BY <1>1, <1>2, <2>4, <3>2 DEF State
    <3>. QED BY <2>1, <2>4, <3>1, <3>2, <3>3 DEF InOnePlace, Fresh
  <2>. QED BY <2>3, <2>4
<1>15. NoneToCome(R, c)
  <2>1. ASSUME NEW i \in Ids, i > c PROVE Fresh(R, i)
    <3>1. Fresh(S, i)
      BY <2>1 DEF InHand, NoneToCome
    <3>2. i # it.id
      <4>1. it.id <= c
        BY DEF InHand
      <4>2. it.id \in Nat /\ i \in Nat
        BY ItemTypes DEF Ids
      <4>. QED BY <2>1, <4>1, <4>2
    <3>. QED BY <1>14, <3>1, <3>2
  <2>. QED BY <1>2, <1>3, <2>1 DEF InHand, NoneToCome
<1>. QED BY <1>7, <1>8, <1>9, <1>10, <1>11, <1>12, <1>13, <1>14, <1>15 DEF Sound, Placed

(* A bounce puts its animations and its end behind the sentinel. *)
LEMMA BounceStep ==
    ASSUME NEW S, NEW c \in Nat, NEW lost, NEW left, NEW e \in Elements, NEW it \in Job,
           InHand(S, c, lost, left, e, it), it.op = "bounce", S.queue[e] # << >>,
           NEW R, R = effectBounce(S, e, it)
    PROVE  Sound(R, c, Lost(lost, R), left)
<1>1. S \in State /\ Quiet(S)
  BY DEF InHand, Typed
<1>0. /\ R \in State /\ R.stop = S.stop
      /\ SameTurn(S, R) /\ SameCalls(S, R) /\ SameClock(S, R)
      /\ \A f \in Elements : f # e => R.queue[f] = S.queue[f]
      /\ Bounced(S.queue[e], R.queue[e], it)
      /\ OnlyDue(R, e)
  BY <1>1, BounceWay
<1>. DEFINE q == S.queue[e]
            p == R.queue[e]
<1>2. /\ R \in State /\ R.stop = S.stop
      /\ SameTurn(S, R) /\ SameCalls(S, R) /\ SameClock(S, R)
      /\ \A f \in Elements : f # e => R.queue[f] = S.queue[f]
      /\ Len(p) = Len(q) + 3 /\ p[1] = inprogress /\ p # << >>
      /\ \A k \in 2..4 : p[k] \in Job /\ p[k].id = it.id
      /\ p[2].op = "animate" /\ p[2].part = 1 /\ p[3].op = "animate" /\ p[3].part = 2
      /\ p[4].op = "bounced" /\ p[4].part = it.part
      /\ \A k \in 5..(Len(q) + 3) : p[k] = q[k - 3]
      /\ OnlyDue(R, e)
  BY <1>0 DEF Bounced
<1>3. R.loop = S.loop /\ R.removed = S.removed /\ R.finish = S.finish
  BY <1>2 DEF SameTurn
<1>4. /\ \A f \in Elements : Due(R, f) <=> f = e
      /\ \A k \in DOMAIN R.todo : k > 1 => R.todo[k].do = "always"
      /\ \A f \in Elements : ~Due(S, f)
  BY <1>1, <1>2, QuietDue DEF OnlyDue
<1>5. /\ \A f \in Elements : AtWork(R, f) = AtWork(S, f) /\ (HasTimer(R, f) <=> HasTimer(S, f))
      /\ \A i \in Ids : Calls(R, i) = Calls(S, i)
      /\ \A f \in Elements : Delayed(R, f) = Delayed(S, f)
      /\ \A i \in Ids : Sleeps(R, i) = Sleeps(S, i)
  BY <1>2, SameTimers, SameTimeouts DEF SameClock
<1>6. it.part = 0 /\ e = box /\ e \notin Widgets /\ e # title
  <2>1. it # inprogress
    BY ItemTypes
  <2>2. e = box
    BY <2>1, ItemTypes DEF InHand, Fits, Elements
  <2>. QED BY <2>1, <2>2, EffectsAssumption DEF InHand, Fits
<1>7. S.loop.do = "finish" => S.loop.elem \in Widgets
  BY <1>1, LoopTypes
<1>8. Waiting(S, e) = q /\ Waiting(R, e) = p
  BY <1>3, <1>6, <1>7 DEF Waiting
<1>9. \A f \in Elements : f # e => Waiting(R, f) = Waiting(S, f)
  BY <1>2, <1>3 DEF Waiting
<1>10. /\ DOMAIN p = 1..(Len(q) + 3) /\ DOMAIN q = 1..Len(q) /\ Len(q) \in Nat
       /\ Len(q) > 0 /\ q \in Seq(Item)
  <2>1. q # << >> /\ Len(q) \in Nat /\ q \in Seq(Item) /\ DOMAIN q = 1..Len(q)
    BY <1>1, QueueType
  <2>2. DOMAIN p = 1..Len(p)
    BY <1>2, QueueType
  <2>3. 1 \in DOMAIN q
    BY <1>1, QueueType
  <2>. QED BY <1>2, <2>1, <2>2, <2>3
<1>11. Ordered(q)
  BY <1>8 DEF InHand, InOrder
<1>. HIDE DEF p, q
(* What stands behind the sentinel is the bounce's, or waited before. *)
<1>12. ASSUME NEW k \in DOMAIN p, k # 1
       PROVE  \/ k \in 2..4 /\ p[k] \in Job /\ p[k].id = it.id
              \/ /\ k \in 5..(Len(q) + 3) /\ k - 3 \in DOMAIN q /\ k - 3 # 1
                 /\ p[k] = q[k - 3] /\ p[k] \in Job /\ it.id < p[k].id
  <2>1. k \in 2..4 \/ (k \in 5..(Len(q) + 3) /\ k - 3 \in DOMAIN q /\ k - 3 # 1)
    BY <1>10, <1>12
  <2>2. CASE k \in 2..4
    BY <1>2, <2>2
  <2>3. CASE k \in 5..(Len(q) + 3) /\ k - 3 \in DOMAIN q /\ k - 3 # 1
    <3>1. p[k] = q[k - 3]
      BY <1>2, <2>3
    <3>2. q[k - 3] \in Job
      BY <1>10, <1>11, <2>3, SentinelFirst
    <3>3. q[k - 3] # inprogress
      BY <3>2, ItemTypes
    <3>4. it.id < q[k - 3].id
      BY <1>6, <1>8, <2>3, <3>3 DEF InHand, Ahead
    <3>. QED BY <2>3, <3>1, <3>2, <3>4
  <2>. QED BY <2>1, <2>2, <2>3
<1>13. it.id \in Nat /\ it.id > 0 /\ \A b \in Job : b.id \in Nat /\ b.id > 0
  BY ItemTypes DEF Ids
<1>14. Ordered(p)
  <2>1. ASSUME NEW j \in DOMAIN p, NEW k \in DOMAIN p, j < k
        PROVE  p[j].id <= p[k].id /\ (p[j].part = 0 => p[j].id < p[k].id)
    <3>1. k # 1 /\ j \in Nat /\ k \in Nat
      BY <1>10, <2>1
    <3>2. CASE j = 1
      <4>1. p[j].id = 0
        BY <1>2, <3>2, ItemTypes
      <4>2. p[k].id \in Nat /\ p[k].id > 0
        BY <1>12, <1>13, <3>1
      <4>. QED BY <4>1, <4>2
    <3>3. CASE j \in 2..4 /\ k \in 2..4
      <4>1. p[j].id = it.id /\ p[k].id = it.id
        BY <1>2, <3>3
      <4>2. p[j].part # 0
        BY <1>2, <2>1, <3>3
      <4>. QED BY <1>13, <4>1, <4>2
    <3>4. CASE j \in 2..4 /\ k \notin 2..4
      <4>1. p[j].id = it.id
        BY <1>2, <3>4
      <4>2. it.id < p[k].id /\ p[k].id \in Nat
        BY <1>12, <1>13, <3>1, <3>4
      <4>. QED BY <1>13, <4>1, <4>2
    <3>5. CASE j # 1 /\ j \notin 2..4
      <4>1. /\ j - 3 \in DOMAIN q /\ p[j] = q[j - 3]
            /\ k - 3 \in DOMAIN q /\ p[k] = q[k - 3] /\ j - 3 < k - 3
        BY <1>10, <1>12, <2>1, <3>1, <3>5
      <4>2. /\ q[j - 3].id <= q[k - 3].id
            /\ q[j - 3].part = 0 => q[j - 3].id < q[k - 3].id
        BY <1>11, <4>1 DEF Ordered
      <4>. QED BY <4>1, <4>2
    <3>. QED BY <3>2, <3>3, <3>4, <3>5
  <2>. QED BY <2>1 DEF Ordered
<1>15. Typed(R)
  BY <1>2, <1>3 DEF InHand, Typed
<1>16. Shape(R)
  <2>1. ASSUME NEW k \in DOMAIN p PROVE Fits(e, p[k])
    <3>1. CASE k = 1
      BY <1>2, <3>1 DEF Fits
    <3>2. CASE k \in 2..4
      BY <1>2, <1>6, <3>2 DEF Fits
    <3>3. CASE k # 1 /\ k \notin 2..4
      <4>1. k - 3 \in DOMAIN q /\ p[k] = q[k - 3]
        BY <1>12, <3>3
      <4>. QED BY <4>1 DEF InHand, Shape, q
    <3>. QED BY <3>1, <3>2, <3>3
  <2>2. \A f \in Elements : \A k \in DOMAIN R.queue[f] : Fits(f, R.queue[f][k])
    BY <1>2, <2>1 DEF InHand, Shape, p
  <2>3. S.loop.do = "finish" => R.queue[S.loop.elem] = S.queue[S.loop.elem]
    BY <1>2, <1>6, <1>7 DEF Elements
  <2>. QED BY <1>2, <1>3, <1>4, <2>2, <2>3 DEF InHand, Shape, SameClock
<1>17. Swept(R)
  BY <1>3 DEF InHand, Swept, WillDequeue
<1>18. \A f \in Elements \ Lost(lost, R) : OneAtWork(R, f)
  <2>. TAKE f \in Elements \ Lost(lost, R)
  <2>1. f \notin lost /\ \A t \in Delayed(R, f) : R.stop[f] = t[2]
    BY NotLost
  <2>2. CASE f # e
    <3>1. OneAtWork(S, f)
      BY <2>1, <2>2 DEF InHand
    <3>2. /\ AtWork(R, f) = AtWork(S, f) /\ Delayed(R, f) = Delayed(S, f) /\ ~Due(R, f)
          /\ R.queue[f] = S.queue[f]
      BY <1>2, <1>4, <1>5, <2>2
    <3>. QED BY <1>3, <2>1, <3>1, <3>2, StillAtWork
  <2>3. CASE f = e
    <3>1. AtWork(R, e) = {}
      BY <1>5, <2>1, <2>3 DEF InHand
    <3>. QED BY <2>1, <2>3, <3>1 DEF OneAtWork, Claimed
  <2>. QED BY <2>2, <2>3
<1>19. Headed(R)
  BY <1>2, <1>4 DEF InHand, Headed, p
<1>20. \A f \in Elements \ left : Attended(R, f)
  <2>. TAKE f \in Elements \ left
  <2>1. CASE f # e
    <3>1. Attended(S, f)
      BY <2>1 DEF InHand
    <3>. QED BY <1>2, <1>3, <1>4, <1>5, <2>1, <3>1 DEF Attended
  <2>2. CASE f = e
    BY <1>4, <2>2 DEF Attended
  <2>. QED BY <2>1, <2>2
<1>21. InOrder(R)
  <2>1. \A f \in Elements : Ordered(Waiting(R, f))
    BY <1>8, <1>9, <1>14 DEF InHand, InOrder
  <2>2. ASSUME NEW f \in Elements, NEW m \in DOMAIN R.begun[f], NEW k \in DOMAIN Waiting(R, f),
               Waiting(R, f)[k] # inprogress
        PROVE  R.begun[f][m] <= Waiting(R, f)[k].id
    <3>1. R.begun = S.begun
      BY <1>2 DEF SameCalls
    <3>2. CASE f # e
      BY <1>9, <2>2, <3>1, <3>2 DEF InHand, InOrder
    <3>3. CASE f = e
      <4>1. k \in DOMAIN p /\ p[k] # inprogress /\ k # 1
        BY <1>2, <1>8, <2>2, <3>3
      <4>2. S.begun[e][m] <= it.id /\ S.begun[e][m] \in Nat
        <5>1. S.begun[e][m] \in Ids
          BY <1>1, <2>2, <3>1, <3>3, BegunType
        <5>. QED BY <2>2, <3>1, <3>3, <5>1 DEF InHand, Ahead, Ids
      <4>3. it.id <= p[k].id /\ p[k].id \in Nat
        BY <1>12, <1>13, <4>1
      <4>. QED BY <1>8, <1>13, <3>1, <3>3, <4>2, <4>3
    <3>. QED BY <3>2, <3>3
  <2>. QED BY <1>2, <2>1, <2>2 DEF InHand, InOrder, SameCalls
<1>22. ASSUME NEW i \in Ids
       PROVE  InOnePlace(R, i) /\ (Fresh(S, i) /\ i # it.id => Fresh(R, i))
  <2>1. /\ (Second(R, i) <=> Second(S, i)) /\ Calls(R, i) = Calls(S, i)
        /\ Sleeps(R, i) = Sleeps(S, i) /\ R.completed[i] = S.completed[i]
        /\ (i \in R.cut <=> i \in S.cut) /\ (Over(R, i) <=> Over(S, i))
    BY <1>2, <1>3, <1>5 DEF SameCalls, Second, Over
  <2>2. InOnePlace(S, i)
    BY DEF InHand, Placed
  <2>3. \A f \in Elements : f # e => (f \in Waits(R, i) <=> f \in Waits(S, i))
    BY <1>9 DEF Waits
  <2>4. CASE i # it.id
    <3>1. e \in Waits(R, i) => e \in Waits(S, i)
      <4>1. ASSUME NEW k \in DOMAIN p, p[k].id = i PROVE e \in Waits(S, i)
        <5>1. k # 1
          BY <1>2, <4>1, ItemTypes, EffectsAssumption DEF Ids
        <5>2. k - 3 \in DOMAIN q /\ q[k - 3].id = i
          BY <1>12, <2>4, <4>1, <5>1
        <5>. QED BY <1>8, <5>2 DEF Waits
      <4>. QED BY <1>8, <4>1 DEF Waits
    <3>2. Waits(R, i) \subseteq Waits(S, i)
      BY <2>3, <3>1 DEF Waits
    <3>. QED BY <2>1, <2>2, <3>2, FewerPlaces
  <2>5. CASE i = it.id
    <3>1. Fresh(S, i)
      BY <1>6, <2>5 DEF InHand
    <3>2. Waits(R, i) \subseteq {e}
      BY <2>3, <3>1 DEF Waits, Fresh
    <3>. QED BY <2>1, <2>2, <2>5, <3>1, <3>2 DEF InOnePlace, Fresh
  <2>. QED BY <2>4, <2>5
<1>23. NoneToCome(R, c)
  <2>1. ASSUME NEW i \in Ids, i > c PROVE Fresh(R, i)
    <3>1. Fresh(S, i)
      BY <2>1 DEF InHand, NoneToCome
    <3>2. i # it.id
      <4>1. it.id <= c
        BY DEF InHand
      <4>2. it.id \in Nat /\ i \in Nat
        BY ItemTypes DEF Ids
      <4>. QED BY <2>1, <4>1, <4>2
    <3>. QED BY <1>22, <3>1, <3>2
  <2>2. ASSUME S.loop.do = "effect", NEW k \in DOMAIN p PROVE p[k].id < S.loop.id
    <3>1. S.loop.id \in Ids /\ S.loop.id \in Nat /\ S.loop.id > 0
      BY <1>1, <2>2, LoopTypes, EffectsAssumption DEF Ids
    <3>2. CASE k = 1
      BY <1>2, <3>1, <3>2, ItemTypes
    <3>3. CASE k \in 2..4
      BY <1>2, <1>6, <2>2, <3>3 DEF InHand
    <3>4. CASE k # 1 /\ k \notin 2..4
      <4>1. k - 3 \in DOMAIN q /\ p[k] = q[k - 3]
        BY <1>12, <3>4
      <4>. QED BY <1>6, <2>2, <4>1 DEF InHand, NoneToCome, q
    <3>. QED BY <3>2, <3>3, <3>4
  <2>3. R.begun = S.begun
    BY <1>2 DEF SameCalls
  <2>. QED BY <1>3, <1>6, <2>1, <2>2, <2>3 DEF InHand, NoneToCome, p
<1>. QED BY <1>15, <1>16, <1>17, <1>18, <1>19, <1>20, <1>21, <1>22, <1>23 DEF Sound, Placed

(* dequeue takes the next function out of the queue. *)
LEMMA PoppedStep ==
    ASSUME NEW S, NEW c \in Nat, NEW lost, NEW left, Sound(S, c, lost, left),
           NEW e \in Elements, Due(S, e),
           NEW T \in State, Quiet(T), SameQueues(S, T), SameCalls(S, T), SameClock(S, T),
           \A f \in Elements : Due(S, f) <=> f = e,
           Rest(T, e) # << >>, NEW D, D = Popped(T, e), NEW it, it = Head(Rest(T, e))
    PROVE  /\ it \in Job /\ InHand(D, c, lost, left, e, it)
           /\ D.queue[e] # << >> /\ ~D.finish[e]
<1>1. S \in State /\ T.queue = S.queue /\ T.loop = S.loop /\ T.finish = S.finish
  BY DEF Sound, Typed, SameQueues
<1>. DEFINE q == S.queue[e]
            r == Rest(T, e)
            s == Skip(T, e)
            p == D.queue[e]
<1>2. S.loop.do = "finish" => S.loop.elem # e
  <2>1. ASSUME S.loop.do = "finish", S.loop.elem = e PROVE FALSE
    <3>1. T.queue[e] = << >>
      BY <1>1, <2>1 DEF Sound, Shape
    <3>2. Rest(T, e) = << >>
      BY <3>1 DEF Rest
    <3>. QED BY <3>2
  <2>. QED BY <2>1
<1>3. \A f \in Elements : (S.loop.do = "finish" /\ S.loop.elem = f) \/ Waiting(S, f) = S.queue[f]
  BY DEF Waiting
<1>4. Waiting(S, e) = q /\ Ordered(q)
  BY <1>2, <1>3 DEF Sound, InOrder
<1>5. /\ r \in Seq(Item) /\ s \in {0, 1}
      /\ Len(r) \in Nat /\ DOMAIN r = 1..Len(r) /\ r # << >>
      /\ \A k \in DOMAIN r :
            r[k] \in Job /\ k + s \in DOMAIN q /\ r[k] = q[k + s]
  BY <1>1, <1>4, RestIs
<1>6. /\ D \in State /\ D.todo = T.todo
      /\ SameTurn(T, D) /\ SameCalls(T, D) /\ SameClock(T, D)
      /\ D.stop[e] = 0
      /\ \A f \in Elements : f # e => D.queue[f] = S.queue[f]
      /\ it = r[1] /\ 1 \in DOMAIN r
      /\ p # << >> /\ p[1] = inprogress
      /\ DOMAIN p = DOMAIN r
      /\ \A k \in DOMAIN p : k # 1 => p[k] = r[k]
  BY <1>1, <1>4, PoppedWay
<1>7. DOMAIN q = 1..Len(q) /\ Len(q) \in Nat
  BY <1>1, QueueType
<1>. HIDE DEF q, r, s, p
<1>8. /\ it \in Job /\ 1 + s \in DOMAIN q /\ it = q[1 + s] /\ it # inprogress
      /\ it.id \in Nat /\ it.id > 0 /\ it.id \in Ids
  BY <1>5, <1>6, ItemTypes DEF Ids
<1>9. ASSUME NEW k \in DOMAIN p, k # 1
      PROVE  /\ p[k] \in Job /\ k + s \in DOMAIN q /\ p[k] = q[k + s] /\ 1 + s < k + s
             /\ p[k].id \in Nat /\ p[k].id > 0
  <2>1. p[k] = r[k] /\ k \in 1..Len(r)
    BY <1>5, <1>6, <1>9
  <2>. QED BY <1>5, <1>6, <1>9, <2>1, ItemTypes DEF Ids
<1>10. D.loop = S.loop /\ D.removed = S.removed /\ D.finish = S.finish
  BY <1>1, <1>6 DEF SameTurn, SameQueues
<1>11. SameCalls(S, D) /\ SameClock(S, D)
  BY <1>6 DEF SameCalls, SameClock
<1>12. /\ \A f \in Elements : AtWork(D, f) = AtWork(S, f) /\ (HasTimer(D, f) <=> HasTimer(S, f))
       /\ \A i \in Ids : Calls(D, i) = Calls(S, i)
       /\ \A f \in Elements : Delayed(D, f) = Delayed(S, f)
       /\ \A i \in Ids : Sleeps(D, i) = Sleeps(S, i)
  BY <1>11, SameTimers, SameTimeouts DEF SameClock
<1>13. Quiet(D)
  BY <1>6 DEF Quiet
<1>14. \A f \in Elements : ~Due(D, f)
  BY <1>6, <1>13, QuietDue
<1>15. Typed(D) /\ ~D.finish[e]
  <2>1. Typed(D)
    BY <1>6, <1>10 DEF Sound, Typed
  <2>2. D.finish[e] = (D.loop.do = "finish" /\ D.loop.elem = e)
    BY <2>1 DEF Typed
  <2>3. ~(D.loop.do = "finish" /\ D.loop.elem = e)
    BY <1>2, <1>10
  <2>. QED BY <2>1, <2>2, <2>3
<1>16. Waiting(D, e) = p /\ \A f \in Elements : f # e => Waiting(D, f) = Waiting(S, f)
  BY <1>2, <1>6, <1>10 DEF Waiting, p
<1>17. Shape(D)
  <2>1. ASSUME NEW k \in DOMAIN p PROVE Fits(e, p[k])
    <3>1. CASE k = 1
      BY <1>6, <3>1 DEF Fits
    <3>2. CASE k # 1
      BY <1>9, <3>2 DEF Sound, Shape, q
    <3>. QED BY <3>1, <3>2
  <2>2. \A f \in Elements : \A k \in DOMAIN D.queue[f] : Fits(f, D.queue[f][k])
    BY <1>6, <2>1 DEF Sound, Shape, p
  <2>3. S.loop.do = "finish" => D.queue[S.loop.elem] = S.queue[S.loop.elem]
    BY <1>1, <1>2, <1>6, LoopTypes DEF Elements
  <2>4. \A k \in DOMAIN D.todo : k > 1 => D.todo[k].do = "always"
    BY <1>13 DEF Quiet
  <2>. QED BY <1>10, <1>11, <2>2, <2>3, <2>4 DEF Sound, Shape, SameClock
<1>18. ~WillDequeue(D)
  BY <1>10 DEF Sound, Swept, WillDequeue
<1>19. \A f \in Elements \ lost : IF f = e THEN AtWork(D, f) = {} ELSE OneAtWork(D, f)
  <2>. TAKE f \in Elements \ lost
  <2>1. OneAtWork(S, f)
    BY DEF Sound
  <2>2. CASE f = e
    BY <1>12, <2>1, <2>2 DEF OneAtWork
  <2>3. CASE f # e
    <3>1. AtWork(D, f) = AtWork(S, f) /\ Delayed(D, f) = Delayed(S, f) /\ ~Due(D, f)
          /\ D.queue[f] = S.queue[f] /\ D.stop[f] = S.stop[f]
      <4>1. D.stop[f] = S.stop[f]
        BY <2>3 DEF Popped, SameQueues, State
      <4>. QED BY <1>6, <1>12, <1>14, <2>3, <4>1
    <3>2. \A t \in Delayed(D, f) : D.stop[f] = t[2]
      BY <2>1, <3>1 DEF OneAtWork
    <3>3. OneAtWork(D, f)
      BY <1>10, <2>1, <3>1, <3>2, StillAtWork
    <3>. QED BY <2>3, <3>3
  <2>. QED BY <2>2, <2>3
<1>20. Headed(D)
  BY <1>6 DEF Sound, Headed, p
<1>21. \A f \in Elements \ left : f # e => Attended(D, f)
  <2>. TAKE f \in Elements \ left
  <2>1. HAVE f # e
  <2>2. Attended(S, f) /\ ~Due(S, f)
    BY <2>1 DEF Sound
  <2>. QED BY <1>6, <1>10, <1>12, <2>1, <2>2 DEF Attended
<1>22. Ordered(p)
  <2>1. ASSUME NEW j \in DOMAIN p, NEW k \in DOMAIN p, j < k
        PROVE  p[j].id <= p[k].id /\ (p[j].part = 0 => p[j].id < p[k].id)
    <3>1. k # 1 /\ j \in Nat /\ k \in Nat
      BY <1>5, <1>6, <2>1
    <3>2. CASE j = 1
      <4>1. p[j].id = 0
        BY <1>6, <3>2, ItemTypes
      <4>. QED BY <1>9, <3>1, <4>1
    <3>3. CASE j # 1
      <4>1. /\ j + s \in DOMAIN q /\ p[j] = q[j + s] /\ k + s \in DOMAIN q /\ p[k] = q[k + s]
            /\ j + s < k + s
        BY <1>5, <1>9, <2>1, <3>1, <3>3
      <4>. QED BY <1>4, <4>1 DEF Ordered
    <3>. QED BY <3>2, <3>3
  <2>. QED BY <2>1 DEF Ordered
<1>23. InOrder(D)
  <2>1. \A f \in Elements : Ordered(Waiting(D, f))
    BY <1>16, <1>22 DEF Sound, InOrder
  <2>2. ASSUME NEW f \in Elements, NEW m \in DOMAIN D.begun[f], NEW k \in DOMAIN Waiting(D, f),
               Waiting(D, f)[k] # inprogress
        PROVE  D.begun[f][m] <= Waiting(D, f)[k].id
    <3>1. D.begun = S.begun
      BY <1>11 DEF SameCalls
    <3>2. CASE f # e
      BY <1>16, <2>2, <3>1, <3>2 DEF Sound, InOrder
    <3>3. CASE f = e
      <4>1. k \in DOMAIN p /\ k # 1
        BY <1>6, <1>16, <2>2, <3>3
      <4>2. k + s \in DOMAIN q /\ p[k] = q[k + s] /\ q[k + s] # inprogress
        BY <1>9, <4>1, ItemTypes
      <4>. QED BY <1>4, <1>16, <2>2, <3>1, <3>3, <4>2 DEF Sound, InOrder
    <3>. QED BY <3>2, <3>3
  <2>. QED BY <1>11, <2>1, <2>2 DEF Sound, InOrder, SameCalls
<1>24. Ahead(D, e, it)
  <2>1. \A m \in DOMAIN D.begun[e] : D.begun[e][m] <= it.id
    BY <1>4, <1>8, <1>11 DEF Sound, InOrder, SameCalls
  <2>2. ASSUME NEW k \in DOMAIN p, p[k] # inprogress
        PROVE  it.id <= p[k].id /\ (it.part = 0 => it.id < p[k].id)
    <3>1. k # 1
      BY <1>6, <2>2
    <3>. QED BY <1>4, <1>8, <1>9, <3>1 DEF Ordered
  <2>. QED BY <1>16, <2>1, <2>2 DEF Ahead
<1>25. \A i \in Ids : Waits(D, i) \subseteq Waits(S, i)
  <2>. TAKE i \in Ids
  <2>1. ASSUME NEW k \in DOMAIN p, p[k].id = i PROVE e \in Waits(S, i)
    <3>1. k # 1
      BY <1>6, <2>1, ItemTypes, EffectsAssumption DEF Ids
    <3>. QED BY <1>4, <1>9, <2>1, <3>1 DEF Waits
  <2>. QED BY <1>16, <2>1 DEF Waits
<1>26. ASSUME NEW i \in Ids
       PROVE  (InOnePlace(S, i) => InOnePlace(D, i)) /\ (Fresh(S, i) => Fresh(D, i))
  <2>1. Second(D, i) <=> Second(S, i)
    BY <1>10 DEF Second
  <2>. QED BY <1>11, <1>12, <1>25, <2>1, FewerPlaces DEF SameCalls
<1>27. Placed(D)
  BY <1>26 DEF Sound, Placed
<1>28. e \in Waits(S, it.id)
  BY <1>4, <1>8 DEF Waits
<1>29. it.part = 0 => Fresh(D, it.id)
  <2>. SUFFICES ASSUME it.part = 0 PROVE Fresh(D, it.id)
    OBVIOUS
  <2>1. InOnePlace(S, it.id)
    BY <1>8 DEF Sound, Placed
  <2>2. /\ ~Over(S, it.id) /\ Calls(S, it.id) = {} /\ Sleeps(S, it.id) = {}
        /\ ~Second(S, it.id) /\ \A x \in Waits(S, it.id) : x = e
    BY <1>28, <2>1 DEF InOnePlace
  <2>3. e \notin Waits(D, it.id)
    <3>1. ASSUME NEW k \in DOMAIN p, p[k].id = it.id PROVE FALSE
      <4>1. CASE k = 1
        BY <1>6, <1>8, <3>1, <4>1, ItemTypes
      <4>2. CASE k # 1
        <5>1. p[k] # inprogress
          BY <1>9, <4>2, ItemTypes
        <5>2. it.id < p[k].id
          BY <1>16, <1>24, <5>1 DEF Ahead
        <5>. QED BY <1>8, <3>1, <5>2
      <4>. QED BY <4>1, <4>2
    <3>. QED BY <1>16, <3>1 DEF Waits
  <2>4. Waits(D, it.id) = {}
    BY <1>8, <1>25, <2>2, <2>3
  <2>5. Calls(D, it.id) = {} /\ Sleeps(D, it.id) = {} /\ ~Second(D, it.id) /\ ~Over(D, it.id)
    BY <1>8, <1>10, <1>11, <1>12, <2>2 DEF SameCalls, Over, Second
  <2>. QED BY <2>4, <2>5 DEF Fresh
<1>30. it.id <= c
  <2>1. ASSUME it.id > c PROVE FALSE
    BY <1>8, <1>28, <2>1 DEF Sound, NoneToCome, Fresh
  <2>. QED BY <1>8, <2>1
<1>31. S.loop.do = "effect" /\ e = box => it.id < S.loop.id
  BY <1>8 DEF Sound, NoneToCome, q
<1>32. Fits(e, it)
  BY <1>8 DEF Sound, Shape, q
<1>33. NoneToCome(D, c)
  <2>1. ASSUME S.loop.do = "effect", NEW k \in DOMAIN D.queue[box]
        PROVE  D.queue[box][k].id < S.loop.id
    <3>1. CASE box # e
      BY <1>6, <2>1, <3>1 DEF Sound, NoneToCome, Elements
    <3>2. CASE box = e /\ k = 1
      <4>1. D.queue[box][k].id = 0
        BY <1>6, <3>2, ItemTypes DEF p
      <4>2. S.loop.id \in Nat /\ S.loop.id > 0
        BY <1>1, <2>1, LoopTypes, EffectsAssumption DEF Ids
      <4>. QED BY <4>1, <4>2
    <3>3. CASE box = e /\ k # 1
      BY <1>9, <2>1, <3>3 DEF Sound, NoneToCome, p, q
    <3>. QED BY <3>1, <3>2, <3>3
  <2>. QED BY <1>10, <1>11, <1>26, <2>1 DEF Sound, NoneToCome, SameCalls
<1>34. D.queue[e] # << >> /\ D.queue[e][1] = inprogress
  BY <1>6 DEF p
<1>. QED BY <1>6, <1>8, <1>10, <1>13, <1>15, <1>17, <1>18, <1>19, <1>20, <1>21, <1>23, <1>24,
            <1>27, <1>29, <1>30, <1>31, <1>32, <1>33, <1>34 DEF InHand

(* An animation of the queue ... *)
LEMMA DoAnimationStep ==
    ASSUME NEW S, NEW c \in Nat, NEW lost, NEW left, NEW e \in Elements, NEW it \in Job,
           InHand(S, c, lost, left, e, it), NEW R, R = doAnimation(S, e, it)
    PROVE  Sound(R, c, Lost(lost, R), left)
<1>. DEFINE a == [elem |-> e, id |-> it.id, part |-> it.part, left |-> it.left,
                  queued |-> TRUE, dequeues |-> TRUE, settled |-> FALSE]
<1>1. /\ a \in Timer /\ a.elem = e /\ a.id = it.id /\ a.part = it.part
      /\ a.dequeues /\ ~a.settled /\ a.queued
  BY ItemTypes DEF Timer
<1>2. R = Animation(S, a)
  BY DEF doAnimation
<1>. HIDE DEF a
<1>. QED BY <1>1, <1>2, AnimationStep

(* ... and the highlight, which animates outside of it. *)
LEMMA HighlightStep ==
    ASSUME NEW S, NEW c \in Nat, NEW lost, NEW left, NEW e \in Elements, NEW it \in Job,
           InHand(S, c, lost, left, e, it), it.op = "highlight",
           NEW R, R = effectHighlight(S, e, it)
    PROVE  Sound(R, c, Lost(lost, R), left)
<1>. DEFINE a == [elem |-> e, id |-> it.id, part |-> 0, left |-> it.left,
                  queued |-> FALSE, dequeues |-> TRUE, settled |-> FALSE]
<1>1. e \notin Widgets /\ it.part = 0
  <2>1. it # inprogress
    BY ItemTypes
  <2>2. e = title /\ it.part = 0
    BY <2>1, ItemTypes DEF InHand, Fits, Elements
  <2>. QED BY <2>2, EffectsAssumption
<1>2. /\ a \in Timer /\ a.elem = e /\ a.id = it.id /\ a.part = it.part
      /\ a.dequeues /\ ~a.settled
  BY <1>1, ItemTypes DEF Timer
<1>3. R = Animation(S, a)
  BY DEF effectHighlight
<1>. HIDE DEF a
<1>. QED BY <1>1, <1>2, <1>3, AnimationStep

(* A queue without functions is gone with the sentinel. *)
LEMMA EmptiedStep ==
    ASSUME NEW S, NEW c \in Nat, NEW lost, NEW left, Sound(S, c, lost, left),
           NEW e \in Elements, Due(S, e),
           NEW T \in State, Quiet(T), SameQueues(S, T), SameCalls(S, T), SameClock(S, T),
           \A f \in Elements : Due(S, f) <=> f = e,
           NEW R, R = emptied(T, e), Rest(T, e) = << >>
    PROVE  Sound(R, c, Lost(lost, R), left)
<1>1. S \in State /\ T.queue = S.queue /\ T.loop = S.loop /\ T.finish = S.finish
  BY DEF Sound, Typed, SameQueues
<1>2. /\ R \in State /\ R.queue = [T.queue EXCEPT ![e] = << >>] /\ R.todo = T.todo
      /\ SameTurn(T, R) /\ SameCalls(T, R) /\ SameClock(T, R)
  BY EmptiedWay
<1>3. R.loop = S.loop /\ R.removed = S.removed /\ R.finish = S.finish
  BY <1>1, <1>2 DEF SameTurn, SameQueues
<1>4. SameCalls(S, R) /\ SameClock(S, R)
  BY <1>2 DEF SameCalls, SameClock
<1>5. /\ R.queue[e] = << >>
      /\ \A f \in Elements : f # e => R.queue[f] = S.queue[f]
  BY <1>1, <1>2, QueueType
<1>6. /\ \A f \in Elements : AtWork(R, f) = AtWork(S, f) /\ (HasTimer(R, f) <=> HasTimer(S, f))
      /\ \A i \in Ids : Calls(R, i) = Calls(S, i)
      /\ \A f \in Elements : Delayed(R, f) = Delayed(S, f)
      /\ \A i \in Ids : Sleeps(R, i) = Sleeps(S, i)
  BY <1>4, SameTimers, SameTimeouts DEF SameClock
<1>7. Quiet(R)
  BY <1>2 DEF Quiet
<1>8. /\ \A f \in Elements : ~Due(R, f)
      /\ \A k \in DOMAIN R.todo : k > 1 => R.todo[k].do = "always"
  BY <1>2, <1>7, QuietDue
<1>9. \A f \in Elements : \A k \in DOMAIN R.queue[f] : k \in DOMAIN S.queue[f] /\ R.queue[f][k] = S.queue[f][k]
  BY <1>5
<1>10. /\ \A f \in Elements : f # e => Waiting(R, f) = Waiting(S, f)
       /\ Waiting(R, e) = Waiting(S, e) \/ Waiting(R, e) = << >>
  BY <1>3, <1>5 DEF Waiting
<1>11. Typed(R)
  BY <1>2, <1>3 DEF Sound, Typed
<1>12. Shape(R)
  <2>1. \A f \in Elements : \A k \in DOMAIN R.queue[f] : Fits(f, R.queue[f][k])
    BY <1>9 DEF Sound, Shape
  <2>2. R.loop.do = "finish" => R.queue[R.loop.elem] = << >>
    BY <1>1, <1>3, <1>5, LoopTypes DEF Elements, Sound, Shape
  <2>. QED BY <1>3, <1>4, <1>8, <2>1, <2>2 DEF Sound, Shape, SameClock
<1>13. ~WillDequeue(S)
  BY DEF Sound, Swept
<1>14. Swept(R)
  BY <1>3, <1>13 DEF Swept, WillDequeue
<1>15. \A f \in Elements \ Lost(lost, R) : OneAtWork(R, f)
  <2>. TAKE f \in Elements \ Lost(lost, R)
  <2>1. f \notin lost /\ \A t \in Delayed(R, f) : R.stop[f] = t[2]
    BY NotLost
  <2>2. OneAtWork(S, f)
    BY <2>1 DEF Sound
  <2>3. CASE f # e
    BY <1>3, <1>5, <1>6, <1>8, <2>1, <2>2, <2>3, StillAtWork
  <2>4. CASE f = e
    <3>1. AtWork(R, f) = {}
      BY <1>6, <2>2, <2>4 DEF OneAtWork
    <3>. QED BY <2>1, <3>1 DEF OneAtWork, Claimed
  <2>. QED BY <2>3, <2>4
<1>16. Headed(R)
  BY <1>5 DEF Sound, Headed
<1>17. \A f \in Elements \ left : Attended(R, f)
  <2>. TAKE f \in Elements \ left
  <2>1. CASE f # e
    <3>1. Attended(S, f) /\ ~Due(S, f)
      BY <2>1 DEF Sound
    <3>. QED BY <1>3, <1>5, <1>6, <2>1, <3>1 DEF Attended
  <2>2. CASE f = e
    BY <1>5, <2>2 DEF Attended
  <2>. QED BY <2>1, <2>2
<1>18. /\ \A f \in Elements : \A k \in DOMAIN Waiting(R, f) :
            k \in DOMAIN Waiting(S, f) /\ Waiting(R, f)[k] = Waiting(S, f)[k]
  BY <1>10
<1>19. InOrder(R)
  BY <1>4, <1>18 DEF Sound, InOrder, Ordered, SameCalls
<1>20. ASSUME NEW i \in Ids
       PROVE  (InOnePlace(S, i) => InOnePlace(R, i)) /\ (Fresh(S, i) => Fresh(R, i))
  <2>1. Waits(R, i) \subseteq Waits(S, i)
    BY <1>18 DEF Waits
  <2>2. Second(R, i) <=> Second(S, i)
    BY <1>3 DEF Second
  <2>. QED BY <1>4, <1>6, <2>1, <2>2, FewerPlaces DEF SameCalls
<1>21. Placed(R) /\ NoneToCome(R, c)
  <2>1. \A k \in DOMAIN R.queue[box] : k \in DOMAIN S.queue[box] /\ R.queue[box][k] = S.queue[box][k]
    BY <1>9 DEF Elements
  <2>. QED BY <1>3, <1>4, <1>20, <2>1 DEF Sound, Placed, NoneToCome, SameCalls
<1>. QED BY <1>11, <1>12, <1>14, <1>15, <1>16, <1>17, <1>19, <1>21 DEF Sound

(* dequeue *)
LEMMA DequeueStep ==
    ASSUME NEW S, NEW c \in Nat, NEW lost, NEW left, Sound(S, c, lost, left),
           S.todo # << >>, Head(S.todo).do = "dequeue",
           NEW T, T = [S EXCEPT !.todo = Tail(@)],
           NEW R, R = dequeue(T, Head(S.todo).elem)
    PROVE  Sound(R, c, Lost(lost, R), left)
<1>. DEFINE e == Head(S.todo).elem
            D == Popped(T, e)
            it == Head(Rest(T, e))
<1>1. /\ T \in State /\ Quiet(T) /\ Head(S.todo) \in Frame
      /\ SameQueues(S, T) /\ SameCalls(S, T) /\ SameClock(S, T)
      /\ \A f \in Elements : Due(S, f) <=> f = e
  BY SMTT(30), CallTaken DEF Sound, Typed, Shape
<1>2. e \in Elements
  BY <1>1 DEF Frame
<1>3. Rest(T, e) = << >> => R = emptied(T, e)
  BY ZenonT(60) DEF dequeue, Rest
<1>4. Rest(T, e) # << >> =>
        R = CASE it.op = "animate" -> doAnimation(D, e, it)
              [] it.op = "delay" -> delayBegins(D, e, it)
              [] it.op = "highlight" -> effectHighlight(D, e, it)
              [] it.op = "bounce" -> effectBounce(D, e, it)
              [] it.op = "bounced" -> effectBounced(D, e, it)
  BY ZenonT(60) DEF dequeue, Rest, Popped
<1>. HIDE DEF e
<1>5. CASE Rest(T, e) = << >>
  <2>1. Due(S, e)
    BY <1>1, <1>2
  <2>. QED BY <1>1, <1>2, <1>3, <1>5, <2>1, EmptiedStep
<1>6. CASE Rest(T, e) # << >>
  <2>1. Due(S, e)
    BY <1>1, <1>2
  <2>2. /\ it \in Job /\ InHand(D, c, lost, left, e, it)
        /\ D.queue[e] # << >> /\ ~D.finish[e]
    BY <1>1, <1>2, <1>6, <2>1, PoppedStep
  <2>3. it.op \in {"animate", "delay", "highlight", "bounce", "bounced"}
    BY <2>2, ItemTypes
  <2>4. /\ it.op = "animate" => R = doAnimation(D, e, it)
        /\ it.op = "delay" => R = delayBegins(D, e, it)
        /\ it.op = "highlight" => R = effectHighlight(D, e, it)
        /\ it.op = "bounce" => R = effectBounce(D, e, it)
        /\ it.op = "bounced" => R = effectBounced(D, e, it)
    BY <1>4, <1>6
  <2>. HIDE DEF D, it
  <2>5. CASE it.op = "animate"
    <3>1. R = doAnimation(D, e, it)
      BY <2>4, <2>5
    <3>. QED BY <1>2, <2>2, <3>1, DoAnimationStep
  <2>6. CASE it.op = "delay"
    <3>1. R = delayBegins(D, e, it)
      BY <2>4, <2>6
    <3>. QED BY <1>2, <2>2, <2>6, <3>1, DelayStep
  <2>7. CASE it.op = "highlight"
    <3>1. R = effectHighlight(D, e, it)
      BY <2>4, <2>7
    <3>. QED BY <1>2, <2>2, <2>7, <3>1, HighlightStep
  <2>8. CASE it.op = "bounce"
    <3>1. R = effectBounce(D, e, it)
      BY <2>4, <2>8
    <3>. QED BY <1>2, <2>2, <2>8, <3>1, BounceStep
  <2>9. CASE it.op = "bounced"
    <3>1. R = effectBounced(D, e, it)
      BY <2>4, <2>9
    <3>. QED BY <1>2, <2>2, <2>9, <3>1, BouncedStep
  <2>. QED BY <2>3, <2>5, <2>6, <2>7, <2>8, <2>9
<1>. QED BY <1>5, <1>6

-----------------------------------------------------------------------------
(* The loops.  A round of a loop that does not end an animation leaves the *)
(* queues and the calls alone; the timers are those of before, but perhaps *)
(* a settled one has gone.                                                 *)

(* A set of positions that has no two. *)
AtMostOne(A) == \A j, k \in A : j = k

(* The timers of R are those of S, perhaps without settled ones. *)
Kept(S, R) ==
    /\ \A j \in DOMAIN R.timers : \E k \in DOMAIN S.timers :
          /\ R.timers[j].elem = S.timers[k].elem /\ R.timers[j].part = S.timers[k].part
          /\ R.timers[j].queued = S.timers[k].queued
          /\ R.timers[j].dequeues = S.timers[k].dequeues
    /\ \A e \in Elements : /\ AtWork(R, e) = {} <=> AtWork(S, e) = {}
                           /\ AtMostOne(AtWork(S, e)) => AtMostOne(AtWork(R, e))
    /\ \A i \in Ids : /\ Calls(S, i) = {} => Calls(R, i) = {}
                      /\ AtMostOne(Calls(S, i)) => AtMostOne(Calls(R, i))

(* They are kept when the list is the same, ... *)
LEMMA KeptSame ==
    ASSUME NEW S, NEW R, R.timers = S.timers
    PROVE  Kept(S, R)
<1>1. /\ \A e \in Elements : AtWork(R, e) = AtWork(S, e)
      /\ \A i \in Ids : Calls(R, i) = Calls(S, i)
  BY SameTimers
<1>. QED BY <1>1 DEF Kept

(* ... when a settled one is removed, ... *)
LEMMA KeptLeaves ==
    ASSUME NEW S \in State, NEW R, NEW i \in DOMAIN S.timers, S.timers[i].settled,
           R.timers = RemoveAt(S.timers, i)
    PROVE  Kept(S, R)
<1>. DEFINE was(j) == IF j < i THEN j ELSE j + 1
<1>9. /\ R.timers \in Seq(Timer) /\ Len(R.timers) = Len(S.timers) - 1
      /\ DOMAIN R.timers = 1..Len(R.timers)
      /\ \A j \in DOMAIN R.timers :
            R.timers[j] = IF j < i THEN S.timers[j] ELSE S.timers[j + 1]
      /\ \A e \in Elements :
            /\ AtWork(S, e) = {} => AtWork(R, e) = {}
            /\ AtWork(R, e) = {} => AtWork(S, e) = {}
            /\ \A j \in AtWork(R, e) : (IF j < i THEN j ELSE j + 1) \in AtWork(S, e)
      /\ \A c \in Ids :
            /\ Calls(S, c) = {} => Calls(R, c) = {}
            /\ \A j \in Calls(R, c) : (IF j < i THEN j ELSE j + 1) \in Calls(S, c)
  BY TimerLeaves
<1>1. /\ R.timers \in Seq(Timer) /\ Len(R.timers) = Len(S.timers) - 1
      /\ DOMAIN R.timers = 1..Len(R.timers)
      /\ \A j \in DOMAIN R.timers : R.timers[j] = S.timers[was(j)]
      /\ \A e \in Elements :
            /\ AtWork(R, e) = {} <=> AtWork(S, e) = {}
            /\ \A j \in AtWork(R, e) : was(j) \in AtWork(S, e)
      /\ \A c \in Ids :
            /\ Calls(S, c) = {} => Calls(R, c) = {}
            /\ \A j \in Calls(R, c) : was(j) \in Calls(S, c)
  BY <1>9
<1>2. /\ DOMAIN S.timers = 1..Len(S.timers) /\ Len(S.timers) \in Nat
  BY TimersType
<1>3. \A j \in DOMAIN R.timers : was(j) \in DOMAIN S.timers
  BY <1>1, <1>2
<1>4. \A j, k \in DOMAIN R.timers : was(j) = was(k) => j = k
  BY <1>1, <1>2
<1>. HIDE DEF was
<1>5. /\ \A e \in Elements : AtWork(R, e) \subseteq DOMAIN R.timers
      /\ \A c \in Ids : Calls(R, c) \subseteq DOMAIN R.timers
  BY DEF AtWork, Calls
<1>6. \A e \in Elements : AtMostOne(AtWork(S, e)) => AtMostOne(AtWork(R, e))
  BY <1>1, <1>4, <1>5 DEF AtMostOne
<1>7. \A c \in Ids : AtMostOne(Calls(S, c)) => AtMostOne(Calls(R, c))
  BY <1>1, <1>4, <1>5 DEF AtMostOne
<1>8. \A j \in DOMAIN R.timers : \E k \in DOMAIN S.timers : R.timers[j] = S.timers[k]
  BY <1>1, <1>3
<1>. QED BY <1>1, <1>6, <1>7, <1>8 DEF Kept

(* The same about the removal, with a name. *)
Leaves(S, R, i) ==
    /\ R.timers \in Seq(Timer) /\ Len(R.timers) = Len(S.timers) - 1
    /\ DOMAIN R.timers = 1..Len(R.timers)
    /\ \A j \in DOMAIN R.timers :
          R.timers[j] = IF j < i THEN S.timers[j] ELSE S.timers[j + 1]
    /\ \A e \in Elements :
          /\ AtWork(S, e) = {} => AtWork(R, e) = {}
          /\ AtWork(R, e) = {} => AtWork(S, e) = {}
          /\ \A j \in AtWork(R, e) : (IF j < i THEN j ELSE j + 1) \in AtWork(S, e)

(* A settled timer that is removed leaves the others as they are. *)
LEMMA TimerGone ==
    ASSUME NEW S \in State, NEW R, NEW i \in DOMAIN S.timers, S.timers[i].settled,
           R.timers = RemoveAt(S.timers, i)
    PROVE  Leaves(S, R, i)
<1>1. /\ R.timers \in Seq(Timer) /\ Len(R.timers) = Len(S.timers) - 1
      /\ DOMAIN R.timers = 1..Len(R.timers)
      /\ \A j \in DOMAIN R.timers :
            R.timers[j] = IF j < i THEN S.timers[j] ELSE S.timers[j + 1]
      /\ \A e \in Elements :
            /\ AtWork(S, e) = {} => AtWork(R, e) = {}
            /\ AtWork(R, e) = {} => AtWork(S, e) = {}
            /\ \A j \in AtWork(R, e) : (IF j < i THEN j ELSE j + 1) \in AtWork(S, e)
      /\ \A c \in Ids :
            /\ Calls(S, c) = {} => Calls(R, c) = {}
            /\ \A j \in Calls(R, c) : (IF j < i THEN j ELSE j + 1) \in Calls(S, c)
  BY TimerLeaves
<1>. QED BY <1>1 DEF Leaves

(* ... and when time passes. *)
LEMMA KeptTicks ==
    ASSUME NEW S \in State, NEW R \in State, DOMAIN R.timers = DOMAIN S.timers,
           \A j \in DOMAIN S.timers :
               /\ R.timers[j].elem = S.timers[j].elem /\ R.timers[j].id = S.timers[j].id
               /\ R.timers[j].part = S.timers[j].part
               /\ R.timers[j].queued = S.timers[j].queued
               /\ R.timers[j].dequeues = S.timers[j].dequeues
               /\ R.timers[j].settled = S.timers[j].settled
    PROVE  Kept(S, R)
<1>1. /\ \A e \in Elements : AtWork(R, e) = AtWork(S, e)
      /\ \A i \in Ids : Calls(R, i) = Calls(S, i)
  BY SameLive
<1>. QED BY <1>1 DEF Kept

(* A round that ends no animation keeps the invariant, if the loop it      *)
(* leaves stays within the timers and still claims and attends what it     *)
(* did.                                                                    *)
LEMMA RoundStep ==
    ASSUME NEW S, NEW c \in Nat, NEW lost, NEW left, Sound(S, c, lost, left),
           NEW R, Typed(R), R.todo = S.todo, R.queue = S.queue, R.removed = S.removed,
           R.timeouts = S.timeouts, SameCalls(S, R),
           S.loop.do # "effect", R.loop.do # "effect",
           \A e \in Elements : Waiting(R, e) = Waiting(S, e),
           R.loop.do = "finish" => /\ S.loop.do = "finish" /\ R.loop.elem = S.loop.elem
                                   /\ R.loop.rest = S.loop.rest,
           R.loop.do \in {"stop", "finish"} => R.loop.at <= Len(R.timers),
           R.loop.do = "tick" => R.loop.at > 0,
           R.timers # << >> => R.timerId,
           Kept(S, R), Swept(R),
           \A e \in Elements \ lost : Claimed(S, e) => Claimed(R, e),
           \A e \in Elements \ left : Attended(S, e) => Attended(R, e)
    PROVE  Sound(R, c, Lost(lost, R), left)
<1>1. S \in State /\ R \in State
  BY DEF Sound, Typed
<1>3. /\ \A e \in Elements : Due(R, e) <=> Due(S, e)
      /\ \A k \in DOMAIN R.todo : k > 1 => R.todo[k].do = "always"
  BY DEF Due, Sound, Shape
<1>4. /\ \A e \in Elements : Delayed(R, e) = Delayed(S, e)
      /\ \A i \in Ids : Sleeps(R, i) = Sleeps(S, i)
  BY SameTimeouts
<1>5. Shape(R)
  <2>1. \A j \in DOMAIN R.timers : R.timers[j].elem \in Widgets =>
            R.timers[j].part = 0 /\ (R.timers[j].dequeues => R.timers[j].queued)
    BY DEF Kept, Sound, Shape
  <2>. QED BY <1>3, <2>1 DEF Sound, Shape
<1>6. \A e \in Elements \ Lost(lost, R) : OneAtWork(R, e)
  <2>. TAKE e \in Elements \ Lost(lost, R)
  <2>1. e \notin lost /\ \A t \in Delayed(R, e) : R.stop[e] = t[2]
    BY NotLost
  <2>2. OneAtWork(S, e)
    BY <2>1 DEF Sound
  <2>3. /\ AtWork(R, e) = {} <=> AtWork(S, e) = {}
        /\ AtMostOne(AtWork(S, e)) => AtMostOne(AtWork(R, e))
    BY DEF Kept
  <2>4. Claimed(R, e)
    BY <2>1, <2>2 DEF OneAtWork
  <2>5. \A j, k \in AtWork(R, e) : j = k
    BY <2>2, <2>3 DEF OneAtWork, AtMostOne
  <2>6. Delayed(R, e) # {} \/ Due(R, e) => AtWork(R, e) = {}
    BY <1>3, <1>4, <2>2, <2>3 DEF OneAtWork
  <2>. QED BY <2>1, <2>4, <2>5, <2>6 DEF OneAtWork
<1>7. Headed(R)
  BY <1>3 DEF Sound, Headed
<1>8. \A e \in Elements \ left : Attended(R, e)
  BY DEF Sound
<1>9. InOrder(R)
  BY DEF Sound, InOrder, SameCalls
<1>10. ASSUME NEW i \in Ids
       PROVE  InOnePlace(R, i) /\ (Fresh(S, i) => Fresh(R, i))
  <2>1. Waits(R, i) = Waits(S, i) /\ ~Second(R, i) /\ ~Second(S, i)
    BY DEF Waits, Second
  <2>2. /\ Calls(S, i) = {} => Calls(R, i) = {}
        /\ AtMostOne(Calls(S, i)) => AtMostOne(Calls(R, i))
    BY DEF Kept
  <2>3. Over(R, i) <=> Over(S, i)
    BY DEF Over, SameCalls
  <2>4. InOnePlace(S, i)
    BY DEF Sound, Placed
  <2>5. \A x, y \in Calls(R, i) : x = y
    BY <2>2, <2>4 DEF InOnePlace, AtMostOne
  <2>. QED BY <1>4, <2>1, <2>2, <2>3, <2>4, <2>5 DEF InOnePlace, Fresh, SameCalls
<1>11. Placed(R) /\ NoneToCome(R, c)
  BY <1>10 DEF Sound, Placed, NoneToCome, SameCalls
<1>. QED BY <1>5, <1>6, <1>7, <1>8, <1>9, <1>11 DEF Sound

(* An animation comes to its end, in a round of a loop. *)
LEMMA EndsStep ==
    ASSUME NEW S, NEW c \in Nat, NEW lost, NEW left, Sound(S, c, lost, left), Quiet(S),
           ~WillDequeue(S), NEW i \in DOMAIN S.timers, ~S.timers[i].settled,
           NEW R, R = complete(Settled(S, i), S.timers[i])
    PROVE  Sound(R, c, Lost(lost, R), left)
<1>. DEFINE a == S.timers[i]
<1>1. S \in State /\ a \in Timer /\ a.elem \in Elements /\ a.id \in Ids /\ a.dequeues \in BOOLEAN
  <2>1. S \in State
    BY DEF Sound, Typed
  <2>2. a \in Timer
    BY <2>1, TimersType
  <2>. QED BY <2>1, <2>2, TimerFields
<1>2. /\ R \in State /\ SameQueues(S, R) /\ R.begun = S.begun /\ R.cut = S.cut
      /\ R.timers = Settle(S, i) /\ R.timerId = S.timerId /\ R.timeouts = S.timeouts
      /\ R.completed = IF a.part = 0 THEN [S.completed EXCEPT ![a.id] = @ + 1] ELSE S.completed
      /\ NextIs(R, a.dequeues, a.elem)
  BY <1>1, EndsWay
<1>3. /\ R.queue = S.queue /\ R.loop = S.loop /\ R.removed = S.removed /\ R.finish = S.finish
  BY <1>2 DEF SameQueues
<1>4. /\ Len(R.timers) = Len(S.timers) /\ DOMAIN R.timers = DOMAIN S.timers
      /\ \A j \in DOMAIN S.timers :
            /\ R.timers[j].elem = S.timers[j].elem /\ R.timers[j].part = S.timers[j].part
            /\ R.timers[j].queued = S.timers[j].queued
            /\ R.timers[j].dequeues = S.timers[j].dequeues
            /\ S.timers[j].settled => R.timers[j].settled
      /\ \A e \in Elements : AtWork(R, e) = AtWork(S, e) \ {i}
      /\ \A k \in Ids : Calls(R, k) = Calls(S, k) \ {i}
  <2>1. S \in State /\ R.timers = Settle(S, i)
    BY <1>1, <1>2
  <2>. QED BY <2>1, TimerSettles
<1>5. /\ \A e \in Elements : Delayed(R, e) = Delayed(S, e)
      /\ \A k \in Ids : Sleeps(R, k) = Sleeps(S, k)
  BY <1>2, SameTimeouts
<1>6. /\ \A k \in DOMAIN R.todo : k > 1 => R.todo[k].do = "always"
      /\ \A e \in Elements : Due(R, e) <=> a.dequeues /\ e = a.elem
  BY <1>2 DEF NextIs
<1>7. \A e \in Elements : ~Due(S, e)
  BY <1>1, QuietDue
<1>8. \A e \in Elements : i \in AtWork(S, e) <=> a.dequeues /\ e = a.elem
  BY DEF AtWork
<1>9. S.timers # << >>
  BY <1>1 DEF State
<1>10. \A k \in Ids : i \in Calls(S, k) <=> a.part = 0 /\ k = a.id
  BY DEF Calls
<1>20. /\ a.part = 0 => R.completed = [S.completed EXCEPT ![a.id] = @ + 1]
       /\ a.part # 0 => R.completed = S.completed
  BY <1>2
<1>21. \A j \in DOMAIN S.timers : S.timers[j].elem \in Widgets =>
           S.timers[j].part = 0 /\ (S.timers[j].dequeues => S.timers[j].queued)
  BY DEF Sound, Shape
<1>. HIDE DEF a
<1>11. Typed(R)
  BY <1>2, <1>3 DEF Sound, Typed
<1>12. Shape(R)
  <2>1. \A j \in DOMAIN R.timers : R.timers[j].elem \in Widgets =>
            R.timers[j].part = 0 /\ (R.timers[j].dequeues => R.timers[j].queued)
    BY <1>4, <1>21
  <2>. QED BY <1>2, <1>3, <1>4, <1>6, <1>9, <2>1 DEF Sound, Shape
<1>13. Swept(R)
  BY <1>3 DEF Swept, WillDequeue
<1>14. \A e \in Elements \ Lost(lost, R) : OneAtWork(R, e)
  <2>. TAKE e \in Elements \ Lost(lost, R)
  <2>1. e \notin lost /\ \A t \in Delayed(R, e) : R.stop[e] = t[2]
    BY NotLost
  <2>2. OneAtWork(S, e)
    BY <2>1 DEF Sound
  <2>3. AtWork(R, e) = AtWork(S, e) \ {i} /\ Delayed(R, e) = Delayed(S, e)
    BY <1>4, <1>5
  <2>4. CASE i \in AtWork(S, e)
    <3>1. AtWork(R, e) = {}
      BY <2>2, <2>3, <2>4 DEF OneAtWork
    <3>. QED BY <2>1, <3>1 DEF OneAtWork, Claimed
  <2>5. CASE i \notin AtWork(S, e)
    <3>1. ~Due(R, e) /\ AtWork(R, e) \subseteq AtWork(S, e)
      BY <1>6, <1>8, <2>3, <2>5
    <3>. QED BY <1>3, <2>1, <2>2, <2>3, <3>1, StillAtWork
  <2>. QED BY <2>4, <2>5
<1>15. Headed(R)
  BY <1>3, <1>7 DEF Sound, Headed
<1>16. \A e \in Elements \ left : Attended(R, e)
  <2>. TAKE e \in Elements \ left
  <2>1. Attended(S, e)
    BY DEF Sound
  <2>2. HasTimer(R, e) => HasTimer(S, e)
    BY <1>4 DEF HasTimer, Of
  <2>3. CASE i \in AtWork(S, e)
    <3>1. Due(R, e)
      BY <1>6, <1>8, <2>3
    <3>. QED BY <3>1 DEF Attended
  <2>4. CASE i \notin AtWork(S, e)
    <3>1. AtWork(R, e) = AtWork(S, e)
      BY ZenonT(60), <1>4, <2>4
    <3>. QED BY <1>3, <1>5, <1>7, <2>1, <2>2, <3>1 DEF Attended
  <2>. QED BY <2>3, <2>4
<1>17. \A e \in Elements : Waiting(R, e) = Waiting(S, e)
  BY <1>3, SameWaiting
<1>18. InOrder(R)
  BY <1>2, <1>17 DEF Sound, InOrder
<1>19. ASSUME NEW k \in Ids
       PROVE  InOnePlace(R, k) /\ (Fresh(S, k) => Fresh(R, k))
  <2>1. /\ Waits(R, k) = Waits(S, k) /\ (Second(R, k) <=> Second(S, k))
        /\ Sleeps(R, k) = Sleeps(S, k) /\ Calls(R, k) = Calls(S, k) \ {i}
    BY <1>3, <1>4, <1>5, SameWaiting
  <2>2. InOnePlace(S, k)
    BY DEF Sound, Placed
  <2>3. CASE i \in Calls(S, k)
    <3>1. Calls(R, k) = {} /\ S.completed[k] = 0 /\ k \notin S.cut /\ ~Fresh(S, k)
      BY <1>1, <2>1, <2>2, <2>3 DEF InOnePlace, Over, Fresh, State
    <3>2. R.completed[k] = 1 /\ k \notin R.cut
      BY <1>1, <1>2, <1>10, <1>20, <2>3, <3>1 DEF State
    <3>3. Waits(S, k) = {} /\ Sleeps(S, k) = {} /\ ~Second(S, k)
      BY <2>2, <2>3 DEF InOnePlace
    <3>. QED BY <2>1, <3>1, <3>2, <3>3 DEF InOnePlace
  <2>4. CASE i \notin Calls(S, k)
    <3>1. R.completed[k] = S.completed[k]
      BY <1>1, <1>10, <1>20, <2>4 DEF State
    <3>2. Calls(R, k) \subseteq Calls(S, k)
      BY <2>1
    <3>. QED BY <1>2, <2>1, <2>2, <3>1, <3>2, FewerPlaces
  <2>. QED BY <2>3, <2>4
<1>22. Placed(R) /\ NoneToCome(R, c)
  BY <1>2, <1>3, <1>19 DEF Sound, Placed, NoneToCome
<1>. QED BY <1>11, <1>12, <1>13, <1>14, <1>15, <1>16, <1>18, <1>22 DEF Sound

(* What the stop of an animation changes. *)
CutShort(S, R, i) ==
    /\ R \in State /\ SameQueues(S, R)
    /\ R.begun = S.begun /\ R.cut = S.cut \cup {S.timers[i].id}
    /\ R.timers = Settle(S, i) /\ R.timerId = S.timerId /\ R.timeouts = S.timeouts
    /\ R.completed = S.completed
    /\ Quiet(R)

(* The loop of stop stops one short. *)
LEMMA CutShortStep ==
    ASSUME NEW S, NEW c \in Nat, NEW lost, NEW left, Sound(S, c, lost, left), Quiet(S),
           NEW i \in DOMAIN S.timers, ~S.timers[i].settled,
           S.loop.do = "stop", ~S.loop.gotoEnd, S.timers[i].elem = S.loop.elem,
           NEW R, CutShort(S, R, i)
    PROVE  Sound(R, c, Lost(lost, R), left)
<1>. DEFINE a == S.timers[i]
<1>1. /\ S \in State /\ a \in Timer /\ a.elem \in Elements /\ a.id \in Ids
      /\ a.elem \in Widgets /\ a.part = 0
  <2>1. S \in State
    BY DEF Sound, Typed
  <2>2. a \in Timer
    BY <2>1, TimersType
  <2>3. a.elem \in Widgets
    BY <2>1, LoopTypes
  <2>4. a.part = 0
    BY <2>3 DEF Sound, Shape
  <2>. QED BY <2>1, <2>2, <2>3, <2>4, TimerFields
<1>2. /\ R \in State /\ SameQueues(S, R)
      /\ R.begun = S.begun /\ R.cut = S.cut \cup {a.id}
      /\ R.timers = Settle(S, i) /\ R.timerId = S.timerId /\ R.timeouts = S.timeouts
      /\ R.completed = S.completed
      /\ Quiet(R)
  BY DEF CutShort
<1>3. /\ R.queue = S.queue /\ R.loop = S.loop /\ R.removed = S.removed /\ R.finish = S.finish
  BY <1>2 DEF SameQueues
<1>4. /\ Len(R.timers) = Len(S.timers) /\ DOMAIN R.timers = DOMAIN S.timers
      /\ \A j \in DOMAIN S.timers :
            /\ R.timers[j].elem = S.timers[j].elem /\ R.timers[j].part = S.timers[j].part
            /\ R.timers[j].queued = S.timers[j].queued
            /\ R.timers[j].dequeues = S.timers[j].dequeues
            /\ S.timers[j].settled => R.timers[j].settled
      /\ \A e \in Elements : AtWork(R, e) = AtWork(S, e) \ {i}
      /\ \A k \in Ids : Calls(R, k) = Calls(S, k) \ {i}
  <2>1. S \in State /\ R.timers = Settle(S, i)
    BY <1>1, <1>2
  <2>. QED BY <2>1, TimerSettles
<1>5. /\ \A e \in Elements : Delayed(R, e) = Delayed(S, e)
      /\ \A k \in Ids : Sleeps(R, k) = Sleeps(S, k)
  BY <1>2, SameTimeouts
<1>6. /\ \A k \in DOMAIN R.todo : k > 1 => R.todo[k].do = "always"
      /\ \A e \in Elements : ~Due(R, e) /\ ~Due(S, e)
  BY <1>1, <1>2, QuietDue
<1>8. \A e \in Elements : i \in AtWork(S, e) => e = S.loop.elem
  BY DEF AtWork
<1>9. S.timers # << >>
  BY <1>1 DEF State
<1>10. \A k \in Ids : i \in Calls(S, k) <=> k = a.id
  BY <1>1 DEF Calls
<1>21. \A j \in DOMAIN S.timers : S.timers[j].elem \in Widgets =>
           S.timers[j].part = 0 /\ (S.timers[j].dequeues => S.timers[j].queued)
  BY DEF Sound, Shape
<1>. HIDE DEF a
<1>11. Typed(R)
  BY <1>2, <1>3 DEF Sound, Typed
<1>12. Shape(R)
  <2>1. \A j \in DOMAIN R.timers : R.timers[j].elem \in Widgets =>
            R.timers[j].part = 0 /\ (R.timers[j].dequeues => R.timers[j].queued)
    BY <1>4, <1>21
  <2>. QED BY <1>2, <1>3, <1>4, <1>6, <1>9, <2>1 DEF Sound, Shape
<1>13. Swept(R)
  BY <1>3, <1>4, <1>6 DEF Sound, Swept, WillDequeue
<1>14. \A e \in Elements \ Lost(lost, R) : OneAtWork(R, e)
  <2>. TAKE e \in Elements \ Lost(lost, R)
  <2>1. e \notin lost /\ \A t \in Delayed(R, e) : R.stop[e] = t[2]
    BY NotLost
  <2>2. OneAtWork(S, e)
    BY <2>1 DEF Sound
  <2>3. AtWork(R, e) \subseteq AtWork(S, e) /\ Delayed(R, e) = Delayed(S, e)
    BY <1>4, <1>5
  <2>. QED BY <1>3, <1>6, <2>1, <2>2, <2>3, StillAtWork
<1>15. Headed(R)
  BY <1>3, <1>6 DEF Sound, Headed
<1>16. \A e \in Elements \ left : Attended(R, e)
  <2>. TAKE e \in Elements \ left
  <2>1. Attended(S, e)
    BY DEF Sound
  <2>2. CASE e = S.loop.elem
    BY <1>3, <2>2 DEF Attended
  <2>3. CASE e # S.loop.elem
    <3>1. AtWork(R, e) = AtWork(S, e)
      <4>1. AtWork(R, e) = AtWork(S, e) \ {i}
        BY <1>4
      <4>2. i \notin AtWork(S, e)
        BY <1>8, <2>3
      <4>. QED BY <4>1, <4>2
    <3>. QED BY <1>3, <1>5, <1>6, <2>1, <2>3, <3>1 DEF Attended
  <2>. QED BY <2>2, <2>3
<1>17. \A e \in Elements : Waiting(R, e) = Waiting(S, e)
  BY <1>3, SameWaiting
<1>18. InOrder(R)
  BY <1>2, <1>17 DEF Sound, InOrder
<1>19. ASSUME NEW k \in Ids
       PROVE  InOnePlace(R, k) /\ (Fresh(S, k) => Fresh(R, k))
  <2>1. /\ Waits(R, k) = Waits(S, k) /\ (Second(R, k) <=> Second(S, k))
        /\ Sleeps(R, k) = Sleeps(S, k) /\ Calls(R, k) = Calls(S, k) \ {i}
    BY <1>3, <1>4, <1>5, SameWaiting
  <2>2. InOnePlace(S, k)
    BY DEF Sound, Placed
  <2>3. CASE k = a.id
    <3>1. i \in Calls(S, k)
      BY <1>10, <2>3
    <3>2. Calls(R, k) = {} /\ S.completed[k] = 0 /\ ~Fresh(S, k)
      <4>1. S.completed[k] \in Nat
        BY <1>1 DEF State
      <4>2. ~Over(S, k)
        BY <2>2, <3>1 DEF InOnePlace
      <4>3. Calls(R, k) = {}
        BY <2>1, <2>2, <3>1 DEF InOnePlace
      <4>. QED BY <3>1, <4>1, <4>2, <4>3 DEF Over, Fresh
    <3>3. Waits(S, k) = {} /\ Sleeps(S, k) = {} /\ ~Second(S, k)
      BY <2>2, <3>1 DEF InOnePlace
    <3>. QED BY <1>2, <2>1, <3>2, <3>3 DEF InOnePlace
  <2>4. CASE k # a.id
    <3>1. Calls(R, k) \subseteq Calls(S, k) /\ (k \in R.cut <=> k \in S.cut)
      BY <1>2, <2>1, <2>4
    <3>. QED BY <1>2, <2>1, <2>2, <3>1, FewerPlaces
  <2>. QED BY <2>3, <2>4
<1>22. Placed(R) /\ NoneToCome(R, c)
  BY <1>2, <1>3, <1>19 DEF Sound, Placed, NoneToCome
<1>. QED BY <1>11, <1>12, <1>13, <1>14, <1>15, <1>16, <1>18, <1>22 DEF Sound

(* A dequeue is put before the calls, for an element with nothing at work. *)
LEMMA DueStep ==
    ASSUME NEW S, NEW c \in Nat, NEW lost, NEW left, NEW e \in Elements,
           Sound(S, c, lost, left \cup {e}), Quiet(S), ~WillDequeue(S),
           e \notin lost => AtWork(S, e) = {},
           NEW R, R = Before(S, toDequeue(e))
    PROVE  Sound(R, c, lost, left) /\ Lost(lost, R) = Lost(lost, S)
<1>1. S \in State /\ toDequeue(e) \in Frame
  BY FrameTypes DEF Sound, Typed
<1>2. /\ R \in State /\ R.todo = <<toDequeue(e)>> \o S.todo
      /\ SameQueues(S, R) /\ SameCalls(S, R) /\ SameClock(S, R)
  BY <1>1, BeforeWay
<1>3. OnlyDue(R, e)
  BY <1>1, <1>2, DequeueBefore
<1>4. /\ R.queue = S.queue /\ R.stop = S.stop /\ R.finish = S.finish /\ R.loop = S.loop
      /\ R.removed = S.removed
  BY <1>2 DEF SameQueues
<1>5. /\ \A f \in Elements : Due(R, f) <=> f = e
      /\ \A k \in DOMAIN R.todo : k > 1 => R.todo[k].do = "always"
      /\ \A f \in Elements : ~Due(S, f)
  BY <1>1, <1>3, QuietDue DEF OnlyDue
<1>6. /\ \A f \in Elements : AtWork(R, f) = AtWork(S, f) /\ (HasTimer(R, f) <=> HasTimer(S, f))
      /\ \A i \in Ids : Calls(R, i) = Calls(S, i)
      /\ \A f \in Elements : Delayed(R, f) = Delayed(S, f)
      /\ \A i \in Ids : Sleeps(R, i) = Sleeps(S, i)
  BY <1>2, SameTimers, SameTimeouts DEF SameClock
<1>7. Typed(R)
  BY <1>2, <1>4 DEF Sound, Typed
<1>8. Shape(R)
  BY <1>2, <1>4, <1>5 DEF Sound, Shape, SameClock
<1>9. Swept(R)
  BY <1>4 DEF Swept, WillDequeue
<1>10. \A f \in Elements \ lost : OneAtWork(R, f)
  <2>. TAKE f \in Elements \ lost
  <2>1. OneAtWork(S, f)
    BY DEF Sound
  <2>2. \A t \in Delayed(R, f) : R.stop[f] = t[2]
    BY <1>4, <1>6, <2>1 DEF OneAtWork
  <2>3. CASE f = e
    <3>1. AtWork(R, f) = {}
      BY <1>6, <2>3
    <3>. QED BY <2>2, <3>1 DEF OneAtWork, Claimed
  <2>4. CASE f # e
    BY <1>4, <1>5, <1>6, <2>1, <2>2, <2>4, StillAtWork
  <2>. QED BY <2>3, <2>4
<1>11. Headed(R)
  BY <1>4, <1>5 DEF Sound, Headed
<1>12. \A f \in Elements \ left : Attended(R, f)
  <2>. TAKE f \in Elements \ left
  <2>1. CASE f = e
    BY <1>5, <2>1 DEF Attended
  <2>2. CASE f # e
    <3>1. Attended(S, f)
      BY <2>2 DEF Sound
    <3>. QED BY <1>4, <1>5, <1>6, <2>2, <3>1 DEF Attended
  <2>. QED BY <2>1, <2>2
<1>13. InOrder(R) /\ Placed(R) /\ NoneToCome(R, c)
  BY <1>2, <1>4, <1>6, StillPlaced DEF Sound
<1>14. Lost(lost, R) = Lost(lost, S)
  BY <1>2, <1>4 DEF Lost, Forgetting, SameClock
<1>. QED BY <1>7, <1>8, <1>9, <1>10, <1>11, <1>12, <1>13, <1>14 DEF Sound

(* Where a loop goes on. *)
LEMMA LoopWay ==
    ASSUME NEW S \in State, NEW l \in Loop, NEW R, R = [S EXCEPT !.loop = l]
    PROVE  /\ R \in State /\ R.loop = l /\ R.todo = S.todo
           /\ R.queue = S.queue /\ R.stop = S.stop /\ R.finish = S.finish
           /\ R.removed = S.removed /\ SameCalls(S, R) /\ SameClock(S, R)
BY DEF State, SameCalls, SameClock

-----------------------------------------------------------------------------
(* The loops of stop and finish go backwards. *)
LEMMA LoopBack ==
    ASSUME NEW S \in State, S.loop.do \in {"stop", "finish"}, S.loop.at # 0,
           NEW l, l = [S.loop EXCEPT !.at = @ - 1]
    PROVE  /\ l \in Loop /\ l.do = S.loop.do /\ l.elem = S.loop.elem /\ l.at = S.loop.at - 1
           /\ l.do = "stop" => /\ l.gotoEnd <=> S.loop.gotoEnd
                               /\ l.dequeue <=> S.loop.dequeue
           /\ l.do = "finish" => l.rest = S.loop.rest
<1>1. S.loop \in Loop
  BY DEF State
<1>2. CASE S.loop.do = "stop"
  <2>1. S.loop \in [do : {"stop"}, elem : Widgets, at : Nat, gotoEnd : BOOLEAN, dequeue : BOOLEAN]
    BY <1>1, <1>2 DEF Loop, NoLoop
  <2>2. l \in [do : {"stop"}, elem : Widgets, at : Nat, gotoEnd : BOOLEAN, dequeue : BOOLEAN]
    BY <2>1
  <2>. QED BY <1>2, <2>1, <2>2 DEF Loop
<1>3. CASE S.loop.do = "finish"
  <2>1. S.loop \in [do : {"finish"}, elem : Widgets, at : Nat, rest : Seq(Item)]
    BY <1>1, <1>3 DEF Loop, NoLoop
  <2>2. l \in [do : {"finish"}, elem : Widgets, at : Nat, rest : Seq(Item)]
    BY <2>1
  <2>. QED BY <1>3, <2>1, <2>2 DEF Loop
<1>. QED BY <1>2, <1>3

(* A timer of another element is passed over, as is a settled one, and by  *)
(* finish also one outside of the queue.                                   *)
LEMMA LoopSkips ==
    ASSUME NEW S, NEW c \in Nat, NEW lost, NEW left, Sound(S, c, lost, left), Quiet(S),
           S.loop.do \in {"stop", "finish"}, S.loop.at # 0,
           \/ S.timers[S.loop.at].elem # S.loop.elem \/ S.timers[S.loop.at].settled
           \/ S.loop.do = "finish" /\ ~S.timers[S.loop.at].queued,
           NEW R, R = NextRound(S)
    PROVE  Sound(R, c, Lost(lost, R), left)
<1>. DEFINE l == [S.loop EXCEPT !.at = @ - 1]
<1>1. S \in State /\ S.loop.at \in Nat /\ S.loop.elem \in Widgets
  BY LoopTypes DEF Sound, Typed, State
<1>2. /\ l \in Loop /\ l.do = S.loop.do /\ l.elem = S.loop.elem /\ l.at = S.loop.at - 1
      /\ l.do = "stop" => /\ l.gotoEnd <=> S.loop.gotoEnd
                          /\ l.dequeue <=> S.loop.dequeue
      /\ l.do = "finish" => l.rest = S.loop.rest
  BY <1>1, LoopBack
<1>3. R = [S EXCEPT !.loop = l]
  BY DEF NextRound
<1>. HIDE DEF l
<1>4. /\ R \in State /\ R.loop = l /\ R.todo = S.todo
      /\ R.queue = S.queue /\ R.stop = S.stop /\ R.finish = S.finish
      /\ R.removed = S.removed /\ SameCalls(S, R) /\ SameClock(S, R)
  BY <1>1, <1>2, <1>3, LoopWay
<1>5. /\ R.loop.do = S.loop.do /\ R.loop.elem = S.loop.elem /\ R.loop.at = S.loop.at - 1
      /\ R.loop.do = "stop" => /\ R.loop.gotoEnd <=> S.loop.gotoEnd
                               /\ R.loop.dequeue <=> S.loop.dequeue
      /\ R.loop.do = "finish" => R.loop.rest = S.loop.rest
      /\ R.timers = S.timers /\ R.timerId = S.timerId /\ R.timeouts = S.timeouts
  BY <1>2, <1>4 DEF SameClock
<1>6. Typed(R)
  BY <1>4, <1>5 DEF Sound, Typed
<1>7. \A e \in Elements : Waiting(R, e) = Waiting(S, e)
  BY <1>4, <1>5 DEF Waiting
<1>8. Kept(S, R)
  BY <1>5, KeptSame
<1>9. /\ \A e \in Elements : AtWork(R, e) = AtWork(S, e) /\ (HasTimer(R, e) <=> HasTimer(S, e))
      /\ \A e \in Elements : Delayed(R, e) = Delayed(S, e)
      /\ \A e \in Elements : Due(R, e) <=> Due(S, e)
  BY <1>4, <1>5, SameTimers, SameTimeouts DEF Due
<1>10. S.loop.at <= Len(S.timers) /\ Len(S.timers) \in Nat /\ DOMAIN S.timers = 1..Len(S.timers)
       /\ (S.timers # << >> => S.timerId)
  BY <1>1, TimersType DEF Sound, Shape
<1>11. Swept(R)
  <2>1. WillDequeue(R) => WillDequeue(S) /\ R.loop.do = "stop"
    BY <1>5 DEF WillDequeue
  <2>2. ASSUME NEW j \in DOMAIN R.timers, j > R.loop.at, WillDequeue(R)
        PROVE  R.timers[j].elem # R.loop.elem \/ R.timers[j].settled
    <3>1. j = S.loop.at \/ j > S.loop.at
      BY <1>1, <1>5, <1>10, <2>2
    <3>. QED BY <1>5, <2>1, <2>2, <3>1 DEF Sound, Swept
  <2>3. WillDequeue(R) => \A e \in Elements : ~Due(R, e)
    BY <1>9, <2>1 DEF Sound, Swept
  <2>. QED BY <2>2, <2>3 DEF Swept
<1>12. \A e \in Elements \ lost : Claimed(S, e) => Claimed(R, e)
  <2>1. ASSUME NEW e \in Elements, NEW j \in AtWork(S, e), S.loop.elem = e, j <= S.loop.at
        PROVE  j <= R.loop.at
    <3>1. /\ j \in DOMAIN S.timers /\ S.timers[j].elem = e /\ S.timers[j].dequeues
          /\ ~S.timers[j].settled
      BY <2>1 DEF AtWork
    <3>2. S.timers[j].queued
      BY <1>1, <2>1, <3>1 DEF Sound, Shape
    <3>3. j # S.loop.at
      BY <2>1, <3>1, <3>2
    <3>. QED BY <1>1, <1>5, <1>10, <2>1, <3>1, <3>3
  <2>. QED BY <1>4, <1>5, <1>9, <2>1 DEF Claimed
<1>13. \A e \in Elements \ left : Attended(S, e) => Attended(R, e)
  BY <1>4, <1>5, <1>9 DEF Attended
<1>14. R.loop.at <= Len(R.timers) /\ (R.timers # << >> => R.timerId)
  BY <1>1, <1>5, <1>10
<1>15. /\ S.loop.do # "effect" /\ R.loop.do # "effect" /\ R.loop.do # "tick"
       /\ R.loop.do = "finish" => /\ S.loop.do = "finish" /\ R.loop.elem = S.loop.elem
                                  /\ R.loop.rest = S.loop.rest
       /\ R.timeouts = S.timeouts
  BY <1>5
<1>. QED BY <1>4, <1>6, <1>7, <1>8, <1>11, <1>12, <1>13, <1>14, <1>15, RoundStep

(* A timer is removed, and the loop goes back. *)
Without(S) == NextRound([S EXCEPT !.timers = RemoveAt(@, S.loop.at)])

(* What that changes. *)
Removes(S, R) ==
    /\ R \in State /\ R.todo = S.todo
    /\ R.queue = S.queue /\ R.stop = S.stop /\ R.finish = S.finish
    /\ R.removed = S.removed /\ SameCalls(S, R)
    /\ R.timerId = S.timerId /\ R.timeouts = S.timeouts
    /\ R.loop.do = S.loop.do /\ R.loop.elem = S.loop.elem /\ R.loop.at = S.loop.at - 1
    /\ R.loop.do = "stop" => /\ R.loop.gotoEnd <=> S.loop.gotoEnd
                             /\ R.loop.dequeue <=> S.loop.dequeue
    /\ R.loop.do = "finish" => R.loop.rest = S.loop.rest
    /\ R.timers = RemoveAt(S.timers, S.loop.at)

(* The round of stop or finish that has settled a timer removes it. *)
LEMMA RemovesWay ==
    ASSUME NEW S \in State, S.loop.do \in {"stop", "finish"}, S.loop.at # 0,
           S.loop.at \in 1..Len(S.timers),
           NEW R, R = Without(S)
    PROVE  Removes(S, R)
<1>. DEFINE l == [S.loop EXCEPT !.at = @ - 1]
            s == S.timers
            i == S.loop.at
            t == RemoveAt(s, i)
<1>1. /\ l \in Loop /\ l.do = S.loop.do /\ l.elem = S.loop.elem /\ l.at = S.loop.at - 1
      /\ l.do = "stop" => /\ l.gotoEnd <=> S.loop.gotoEnd
                          /\ l.dequeue <=> S.loop.dequeue
      /\ l.do = "finish" => l.rest = S.loop.rest
  BY LoopBack
<1>2. R = [S EXCEPT !.timers = t, !.loop = l]
  BY DEF Without, NextRound
<1>3. s \in Seq(Timer) /\ i \in 1..Len(s) /\ t = RemoveAt(S.timers, S.loop.at)
  BY TimersType
<1>. HIDE DEF s, i, l
<1>4. t \in Seq(Timer)
  BY <1>3, Removed
<1>. HIDE DEF t
<1>5. /\ R \in State /\ R.loop = l /\ R.timers = t /\ R.todo = S.todo
      /\ R.queue = S.queue /\ R.stop = S.stop /\ R.finish = S.finish
      /\ R.removed = S.removed /\ SameCalls(S, R)
      /\ R.timerId = S.timerId /\ R.timeouts = S.timeouts
  BY ZenonT(60), <1>1, <1>2, <1>4 DEF State, SameCalls
<1>. QED BY <1>1, <1>3, <1>5 DEF Removes

(* A timer that is settled is removed. *)
LEMMA LoopRemoves ==
    ASSUME NEW S, NEW c \in Nat, NEW lost, NEW left, Sound(S, c, lost, left),
           S.loop.do \in {"stop", "finish"}, S.loop.at # 0, S.timers[S.loop.at].settled,
           NEW R, Removes(S, R)
    PROVE  Sound(R, c, Lost(lost, R), left)
<1>. DEFINE i == S.loop.at
<1>1. S \in State /\ S.loop.at \in Nat /\ S.loop.elem \in Widgets
  BY LoopTypes DEF Sound, Typed, State
<1>4. /\ i <= Len(S.timers) /\ Len(S.timers) \in Nat /\ i \in Nat /\ i > 0
      /\ DOMAIN S.timers = 1..Len(S.timers) /\ (S.timers # << >> => S.timerId)
  BY <1>1, TimersType DEF Sound, Shape
<1>5. i \in DOMAIN S.timers /\ S.timers # << >>
  <2>1. i \in DOMAIN S.timers
    BY <1>4
  <2>. QED BY <1>1, <2>1 DEF State
<1>15. i = S.loop.at
  OBVIOUS
<1>. HIDE DEF i
<1>8. /\ R \in State /\ R.todo = S.todo
      /\ R.queue = S.queue /\ R.stop = S.stop /\ R.finish = S.finish
      /\ R.removed = S.removed /\ SameCalls(S, R)
      /\ R.timerId = S.timerId /\ R.timeouts = S.timeouts
  BY DEF Removes
<1>9. /\ R.loop.do = S.loop.do /\ R.loop.elem = S.loop.elem /\ R.loop.at = S.loop.at - 1
      /\ R.loop.do = "stop" => /\ R.loop.gotoEnd <=> S.loop.gotoEnd
                               /\ R.loop.dequeue <=> S.loop.dequeue
      /\ R.loop.do = "finish" => R.loop.rest = S.loop.rest
  BY DEF Removes
<1>6. R.timers = RemoveAt(S.timers, i)
  BY <1>15 DEF Removes
<1>20. S.timers[i].settled
  BY <1>15
<1>21. Leaves(S, R, i)
  BY <1>1, <1>5, <1>6, <1>20, TimerGone
<1>7. /\ R.timers \in Seq(Timer) /\ Len(R.timers) = Len(S.timers) - 1
      /\ DOMAIN R.timers = 1..Len(R.timers)
      /\ \A j \in DOMAIN R.timers :
            R.timers[j] = IF j < i THEN S.timers[j] ELSE S.timers[j + 1]
      /\ \A e \in Elements :
            /\ AtWork(S, e) = {} => AtWork(R, e) = {}
            /\ AtWork(R, e) = {} => AtWork(S, e) = {}
            /\ \A j \in AtWork(R, e) : (IF j < i THEN j ELSE j + 1) \in AtWork(S, e)
  BY <1>21 DEF Leaves
<1>10. Kept(S, R)
  BY <1>1, <1>5, <1>6, <1>20, KeptLeaves
<1>11. Typed(R)
  BY <1>8, <1>9 DEF Sound, Typed
<1>12. \A e \in Elements : Waiting(R, e) = Waiting(S, e)
  BY <1>8, <1>9 DEF Waiting
<1>13. /\ \A e \in Elements : Delayed(R, e) = Delayed(S, e)
       /\ \A e \in Elements : Due(R, e) <=> Due(S, e)
  BY <1>8, SameTimeouts DEF Due
<1>14. Swept(R)
  <2>1. WillDequeue(R) => WillDequeue(S) /\ R.loop.do = "stop"
    BY <1>9 DEF WillDequeue
  <2>2. ASSUME NEW j \in DOMAIN R.timers, j > R.loop.at, WillDequeue(R)
        PROVE  R.timers[j].elem # R.loop.elem \/ R.timers[j].settled
    <3>1. ~(j < i) /\ j + 1 \in DOMAIN S.timers /\ j + 1 > i
      BY <1>4, <1>7, <1>9, <1>10, <1>15, <2>2
    <3>2. R.timers[j] = S.timers[j + 1]
      BY <1>7, <1>10, <2>2, <3>1
    <3>. QED BY <1>9, <1>15, <2>1, <2>2, <3>1, <3>2 DEF Sound, Swept
  <2>3. WillDequeue(R) => \A e \in Elements : ~Due(R, e)
    BY <1>13, <2>1 DEF Sound, Swept
  <2>. QED BY <2>2, <2>3 DEF Swept
<1>16. \A e \in Elements \ lost : Claimed(S, e) => Claimed(R, e)
  <2>. TAKE e \in Elements \ lost
  <2>. HAVE Claimed(S, e)
  <2>1. ASSUME NEW j \in AtWork(R, e)
        PROVE  \/ R.queue[e] # << >> /\ R.queue[e][1] = inprogress
               \/ R.removed /\ e \notin Widgets
               \/ R.loop.do \in {"stop", "finish"} /\ R.loop.elem = e /\ j <= R.loop.at
    <3>. DEFINE k == IF j < i THEN j ELSE j + 1
    <3>1. k \in AtWork(S, e) /\ j \in 1..Len(R.timers)
      BY <1>7, <1>10, <2>1 DEF AtWork
    <3>2. k <= i => j <= i - 1
      <4>1. ~S.timers[k].settled
        BY <3>1 DEF AtWork
      <4>2. k # i
        BY <1>15, <4>1
      <4>. QED BY <1>4, <1>7, <3>1, <4>2
    <3>. HIDE DEF k
    <3>3. \/ S.queue[e] # << >> /\ S.queue[e][1] = inprogress
          \/ S.removed /\ e \notin Widgets
          \/ S.loop.elem = e /\ k <= S.loop.at
      BY <3>1 DEF Claimed
    <3>. QED BY <1>8, <1>9, <1>15, <3>2, <3>3
  <2>. QED BY <2>1 DEF Claimed
<1>17. \A e \in Elements \ left : Attended(S, e) => Attended(R, e)
  <2>1. ASSUME NEW e \in Elements, HasTimer(R, e)
        PROVE  HasTimer(S, e)
    <3>1. PICK j \in DOMAIN R.timers : Of(R, j, e)
      BY <2>1 DEF HasTimer
    <3>2. PICK k \in DOMAIN S.timers : R.timers[j] = S.timers[k]
      <4>1. CASE j < i
        BY <1>4, <1>7, <4>1
      <4>2. CASE ~(j < i)
        <5>1. j + 1 \in DOMAIN S.timers
          BY <1>4, <1>7, <4>2
        <5>. QED BY <1>7, <4>2, <5>1
      <4>. QED BY <4>1, <4>2
    <3>. QED BY <3>1, <3>2 DEF HasTimer, Of
  <2>2. \A e \in Elements : AtWork(R, e) = {} <=> AtWork(S, e) = {}
    BY <1>10 DEF Kept
  <2>. QED BY <1>8, <1>9, <1>13, <2>1, <2>2 DEF Attended
<1>18. R.loop.at <= Len(R.timers) /\ (R.timers # << >> => R.timerId)
  BY <1>4, <1>5, <1>7, <1>8, <1>9, <1>10, <1>15
<1>19. /\ S.loop.do # "effect" /\ R.loop.do # "effect" /\ R.loop.do # "tick"
       /\ R.loop.do = "finish" => /\ S.loop.do = "finish" /\ R.loop.elem = S.loop.elem
                                  /\ R.loop.rest = S.loop.rest
  BY <1>9
<1>. QED BY <1>8, <1>10, <1>11, <1>12, <1>14, <1>16, <1>17, <1>18, <1>19, RoundStep

-----------------------------------------------------------------------------
(* One of the element is met: stop has animations to end. *)
Met(S) == [S EXCEPT !.loop.dequeue = FALSE]

(* It does not dequeue the element, if it runs them to their ends. *)
LEMMA StopMeets ==
    ASSUME NEW S, NEW c \in Nat, NEW lost, NEW left, Sound(S, c, lost, left), Quiet(S),
           S.loop.do = "stop", S.loop.at # 0, Of(S, S.loop.at, S.loop.elem),
           NEW R, R = Met(S)
    PROVE  /\ Sound(R, c, Lost(lost, R), left) /\ Lost(lost, R) = Lost(lost, S)
           /\ R.loop.do = "stop" /\ R.loop.elem = S.loop.elem /\ R.loop.at = S.loop.at
           /\ R.loop.gotoEnd = S.loop.gotoEnd /\ ~R.loop.dequeue
           /\ R.timers = S.timers /\ R.todo = S.todo
<1>. DEFINE l == [S.loop EXCEPT !.dequeue = FALSE]
<1>1. S \in State /\ S.loop \in Loop /\ S.loop.at \in Nat /\ S.loop.elem \in Widgets
  BY LoopTypes DEF Sound, Typed, State
<1>2. /\ l \in Loop /\ l.do = "stop" /\ l.elem = S.loop.elem /\ l.at = S.loop.at
      /\ l.gotoEnd = S.loop.gotoEnd /\ ~l.dequeue
  <2>1. S.loop \in [do : {"stop"}, elem : Widgets, at : Nat, gotoEnd : BOOLEAN, dequeue : BOOLEAN]
    BY <1>1 DEF Loop, NoLoop
  <2>2. l \in [do : {"stop"}, elem : Widgets, at : Nat, gotoEnd : BOOLEAN, dequeue : BOOLEAN]
    BY <2>1
  <2>3. /\ l.do = "stop" /\ l.elem = S.loop.elem /\ l.at = S.loop.at
        /\ l.gotoEnd = S.loop.gotoEnd /\ ~l.dequeue
    BY <2>1
  <2>. QED BY <2>2, <2>3 DEF Loop
<1>3. R = [S EXCEPT !.loop = l]
  BY DEF Met
<1>. HIDE DEF l
<1>4. /\ R \in State /\ R.loop = l /\ R.todo = S.todo
      /\ R.queue = S.queue /\ R.stop = S.stop /\ R.finish = S.finish
      /\ R.removed = S.removed /\ SameCalls(S, R) /\ SameClock(S, R)
  BY <1>1, <1>2, <1>3, LoopWay
<1>5. /\ R.loop.do = "stop" /\ R.loop.elem = S.loop.elem /\ R.loop.at = S.loop.at
      /\ R.loop.gotoEnd = S.loop.gotoEnd /\ ~R.loop.dequeue
      /\ R.timers = S.timers /\ R.timerId = S.timerId /\ R.timeouts = S.timeouts
  BY <1>2, <1>4 DEF SameClock
<1>6. Typed(R)
  BY <1>4, <1>5 DEF Sound, Typed
<1>7. \A e \in Elements : Waiting(R, e) = Waiting(S, e)
  BY <1>4, <1>5 DEF Waiting
<1>8. Kept(S, R)
  BY <1>5, KeptSame
<1>9. /\ \A e \in Elements : AtWork(R, e) = AtWork(S, e) /\ (HasTimer(R, e) <=> HasTimer(S, e))
      /\ \A e \in Elements : Delayed(R, e) = Delayed(S, e)
      /\ \A e \in Elements : Due(R, e) <=> Due(S, e)
  BY <1>4, <1>5, SameTimers, SameTimeouts DEF Due
<1>10. S.loop.at <= Len(S.timers) /\ Len(S.timers) \in Nat /\ DOMAIN S.timers = 1..Len(S.timers)
       /\ (S.timers # << >> => S.timerId)
  BY <1>1, TimersType DEF Sound, Shape
<1>11. Swept(R)
  <2>1. WillDequeue(R) => WillDequeue(S)
    BY <1>5 DEF WillDequeue
  <2>. QED BY <1>5, <1>9, <2>1 DEF Sound, Swept
<1>12. \A e \in Elements \ lost : Claimed(S, e) => Claimed(R, e)
  BY <1>4, <1>5, <1>9 DEF Claimed
<1>13. \A e \in Elements \ left : Attended(S, e) => Attended(R, e)
  <2>1. S.loop.at \in DOMAIN S.timers
    BY <1>1, <1>10
  <2>2. HasTimer(S, S.loop.elem)
    BY <2>1 DEF HasTimer
  <2>. QED BY <1>4, <1>5, <1>9, <2>2 DEF Attended
<1>14. R.loop.at <= Len(R.timers)
  BY <1>1, <1>5, <1>10
<1>15. Sound(R, c, Lost(lost, R), left)
  BY <1>4, <1>5, <1>6, <1>7, <1>8, <1>10, <1>11, <1>12, <1>13, <1>14, RoundStep
<1>16. Lost(lost, R) = Lost(lost, S)
  BY <1>4, <1>5 DEF Lost, Forgetting
<1>. QED BY <1>4, <1>5, <1>15, <1>16

(* Steps that leave hooks and timeouts alone lose nothing. *)
LEMMA LostTwice ==
    ASSUME NEW lost, NEW N, NEW R, R.stop = N.stop, R.timeouts = N.timeouts
    PROVE  Lost(Lost(lost, N), R) = Lost(lost, R)
BY DEF Lost, Forgetting

(* The animation that was settled is removed in the same round, while the  *)
(* calls that its end makes wait.                                          *)
LEMMA ThenRemoves ==
    ASSUME NEW S \in State, S.loop.do \in {"stop", "finish"}, S.loop.at # 0,
           NEW i \in DOMAIN S.timers, i = S.loop.at,
           NEW c \in Nat, NEW lost, NEW left,
           NEW X, Sound(X, c, Lost(lost, X), left), SameQueues(S, X),
           X.timers = Settle(S, i), X.timeouts = S.timeouts,
           NEW R, R = Without(X)
    PROVE  Sound(R, c, Lost(lost, R), left)
<1>1. X \in State /\ X.loop = S.loop
  BY DEF Sound, Typed, SameQueues
<1>2. /\ Len(X.timers) = Len(S.timers) /\ i \in 1..Len(S.timers)
      /\ X.timers[i].settled
  BY TimerSettles, TimersType
<1>3. /\ X.loop.do \in {"stop", "finish"} /\ X.loop.at # 0
      /\ X.loop.at \in 1..Len(X.timers) /\ X.timers[X.loop.at].settled
  BY <1>1, <1>2
<1>4. Removes(X, R)
  BY <1>1, <1>3, RemovesWay
<1>5. Sound(R, c, Lost(Lost(lost, X), R), left)
  BY <1>3, <1>4, LoopRemoves
<1>6. R.stop = X.stop /\ R.timeouts = X.timeouts
  BY <1>4 DEF Removes
<1>. QED BY <1>5, <1>6, LostTwice

(* The loop has come to its end.  The variable dequeue is not set by an    *)
(* animation that was stopped short.                                       *)
LEMMA LoopOver ==
    ASSUME NEW S, NEW c \in Nat, NEW lost, NEW left, Sound(S, c, lost, left), Quiet(S),
           S.loop.do = "stop", S.loop.at = 0,
           NEW R, R = [S EXCEPT !.loop = NoLoop]
    PROVE  /\ Sound(R, c, Lost(lost, R), IF WillDequeue(S) THEN left \cup {S.loop.elem} ELSE left)
           /\ R \in State /\ Quiet(R) /\ ~WillDequeue(R)
           /\ WillDequeue(S) /\ S.loop.elem \notin lost => AtWork(R, S.loop.elem) = {}
<1>. DEFINE m == IF WillDequeue(S) THEN left \cup {S.loop.elem} ELSE left
<1>1. S \in State /\ S.loop.elem \in Widgets
  BY LoopTypes DEF Sound, Typed
<1>2. NoLoop \in Loop /\ NoLoop.do = "none"
  BY DEF Loop, NoLoop
<1>3. /\ R \in State /\ R.loop = NoLoop /\ R.todo = S.todo
      /\ R.queue = S.queue /\ R.stop = S.stop /\ R.finish = S.finish
      /\ R.removed = S.removed /\ SameCalls(S, R) /\ SameClock(S, R)
  BY <1>1, <1>2, LoopWay
<1>4. /\ R.loop.do = "none" /\ R.timers = S.timers /\ R.timerId = S.timerId
      /\ R.timeouts = S.timeouts
  BY <1>2, <1>3 DEF SameClock
<1>5. Typed(R)
  BY <1>3, <1>4 DEF Sound, Typed
<1>6. \A e \in Elements : Waiting(R, e) = Waiting(S, e)
  BY <1>3, <1>4 DEF Waiting
<1>7. Kept(S, R)
  BY <1>4, KeptSame
<1>8. /\ \A e \in Elements : AtWork(R, e) = AtWork(S, e)
      /\ \A e \in Elements : Delayed(R, e) = Delayed(S, e)
      /\ \A e \in Elements : Due(R, e) <=> Due(S, e)
  BY <1>3, <1>4, SameTimers, SameTimeouts DEF Due
<1>9. Swept(R) /\ ~WillDequeue(R)
  BY <1>4 DEF Swept, WillDequeue
<1>10. \A e \in Elements : AtWork(S, e) \subseteq DOMAIN S.timers
  BY DEF AtWork
<1>11. DOMAIN S.timers = 1..Len(S.timers) /\ (S.timers # << >> => S.timerId)
  BY <1>1, TimersType DEF Sound, Shape
<1>12. \A e \in Elements \ lost : Claimed(S, e) => Claimed(R, e)
  <2>1. \A e \in Elements : \A j \in AtWork(S, e) : ~(j <= S.loop.at)
    BY <1>10, <1>11
  <2>. QED BY <1>3, <1>8, <2>1 DEF Claimed
<1>13. \A e \in Elements \ m : Attended(S, e) => Attended(R, e)
  <2>. TAKE e \in Elements \ m
  <2>. HAVE Attended(S, e)
  <2>1. ~(S.loop.elem = e /\ (S.loop.gotoEnd => S.loop.dequeue /\ ~HasTimer(S, e)))
    BY DEF WillDequeue
  <2>. QED BY <1>3, <1>8, <2>1 DEF Attended
<1>14. Sound(S, c, lost, m)
  BY DEF Sound
<1>. HIDE DEF m
<1>15. Sound(R, c, Lost(lost, R), m)
  BY ZenonT(60), <1>2, <1>3, <1>4, <1>5, <1>6, <1>7, <1>9, <1>11, <1>12, <1>13, <1>14,
     RoundStep
<1>16. Quiet(R)
  BY <1>3 DEF Quiet
<1>17. WillDequeue(S) => AtWork(R, S.loop.elem) = {}
  <2>1. ASSUME WillDequeue(S), NEW j \in AtWork(S, S.loop.elem) PROVE FALSE
    <3>1. /\ j \in DOMAIN S.timers /\ j > 0 /\ S.timers[j].elem = S.loop.elem
          /\ ~S.timers[j].settled
      BY <1>11, <2>1 DEF AtWork
    <3>. QED BY <2>1, <3>1 DEF Sound, Swept
  <2>. QED BY <1>1, <1>8, <2>1 DEF Elements
<1>. QED BY <1>3, <1>9, <1>15, <1>16, <1>17 DEF m

(* The end of stop: it dequeues the element unless it has run an animation *)
(* to its end.                                                             *)
LEMMA StopEndsStep ==
    ASSUME NEW S, NEW c \in Nat, NEW lost, NEW left, Sound(S, c, lost, left), Quiet(S),
           S.loop.do = "stop", S.loop.at = 0,
           NEW R, R = stopEnds(S, S.loop)
    PROVE  Sound(R, c, Lost(lost, R), left)
<1>. DEFINE N == [S EXCEPT !.loop = NoLoop]
            e == S.loop.elem
<1>1. /\ Sound(N, c, Lost(lost, N), IF WillDequeue(S) THEN left \cup {e} ELSE left)
      /\ N \in State /\ Quiet(N) /\ ~WillDequeue(N)
      /\ WillDequeue(S) /\ e \notin lost => AtWork(N, e) = {}
  BY LoopOver
<1>2. e \in Elements
  BY LoopTypes DEF Sound, Typed, Elements
<1>3. R = IF WillDequeue(S) THEN Before(N, toDequeue(e)) ELSE N
  BY DEF stopEnds, WillDequeue
<1>. HIDE DEF N, e
<1>4. CASE WillDequeue(S)
  <2>1. R = Before(N, toDequeue(e)) /\ Sound(N, c, Lost(lost, N), left \cup {e})
    BY <1>1, <1>3, <1>4
  <2>2. e \notin Lost(lost, N) => AtWork(N, e) = {}
    BY <1>1, <1>4 DEF Lost
  <2>3. Sound(R, c, Lost(lost, N), left) /\ Lost(Lost(lost, N), R) = Lost(Lost(lost, N), N)
    BY <1>1, <1>2, <2>1, <2>2, DueStep
  <2>4. Lost(lost, R) = Lost(lost, N)
    <3>1. R.stop = N.stop /\ R.timeouts = N.timeouts
      <4>1. toDequeue(e) \in Frame
        BY <1>2, FrameTypes
      <4>2. SameQueues(N, R) /\ SameClock(N, R)
        BY <1>1, <2>1, <4>1, BeforeWay
      <4>. QED BY <4>2 DEF SameQueues, SameClock
    <3>. QED BY <3>1 DEF Lost, Forgetting
  <2>. QED BY <2>3, <2>4
<1>5. CASE ~WillDequeue(S)
  BY <1>1, <1>3, <1>5
<1>. QED BY <1>4, <1>5

(* A round of the loop. *)
LEMMA StopLoopStep ==
    ASSUME NEW S, NEW c \in Nat, NEW lost, NEW left, Sound(S, c, lost, left), Quiet(S),
           S.loop.do = "stop", NEW R, R = stopLoop(S)
    PROVE  Sound(R, c, Lost(lost, R), left)
<1>. DEFINE i == S.loop.at
            M == Met(S)
<1>1. S \in State /\ S.loop.at \in Nat /\ S.loop.elem \in Widgets /\ S.loop.gotoEnd \in BOOLEAN
  BY LoopTypes DEF Sound, Typed
<1>2. i # 0 => i \in DOMAIN S.timers /\ DOMAIN S.timers = 1..Len(S.timers)
  BY <1>1, TimersType DEF Sound, Shape
<1>3. /\ i = 0 => R = stopEnds(S, S.loop)
      /\ i # 0 /\ ~Of(S, i, S.loop.elem) => R = NextRound(S)
      /\ i # 0 /\ Of(S, i, S.loop.elem) => R = settleAndSplice(M, i, S.loop.gotoEnd)
  BY DEF stopLoop, Met
<1>4. CASE i = 0
  BY <1>3, <1>4, StopEndsStep
<1>5. CASE i # 0 /\ ~Of(S, i, S.loop.elem)
  <2>1. S.timers[S.loop.at].elem # S.loop.elem \/ S.timers[S.loop.at].settled
    BY <1>5 DEF Of
  <2>. QED BY <1>3, <1>5, <2>1, LoopSkips
<1>6. CASE i # 0 /\ Of(S, i, S.loop.elem)
  <2>. DEFINE X == stopAnimation(M, i, M.loop.gotoEnd)
  <2>1. /\ Sound(M, c, Lost(lost, M), left) /\ Lost(lost, M) = Lost(lost, S)
        /\ M.loop.do = "stop" /\ M.loop.elem = S.loop.elem /\ M.loop.at = S.loop.at
        /\ M.loop.gotoEnd = S.loop.gotoEnd /\ ~M.loop.dequeue
        /\ M.timers = S.timers /\ M.todo = S.todo
    BY <1>6, StopMeets
  <2>2. Quiet(M) /\ M \in State
    BY <2>1 DEF Quiet, Sound, Typed
  <2>3. i \in DOMAIN M.timers /\ ~M.timers[i].settled /\ M.timers[i].elem = M.loop.elem
    BY <1>2, <1>6, <2>1 DEF Of
  <2>4. i = M.loop.at /\ M.loop.at # 0 /\ M.loop.do \in {"stop", "finish"}
    BY <1>6, <2>1
  <2>. HIDE DEF M, i
  <2>5. /\ Sound(X, c, Lost(lost, X), left) /\ SameQueues(M, X)
        /\ X.timers = Settle(M, i) /\ X.timeouts = M.timeouts
    <3>3. CASE M.loop.gotoEnd
      <4>1. X = complete(Settled(M, i), M.timers[i])
        BY <2>3, <3>3 DEF stopAnimation, Settled
      <4>2. ~WillDequeue(M)
        BY <2>1, <3>3 DEF WillDequeue
      <4>. HIDE DEF X
      <4>3. Sound(X, c, Lost(Lost(lost, M), X), left)
        BY <2>1, <2>2, <2>3, <4>1, <4>2, EndsStep
      <4>4. SameQueues(M, X) /\ X.timers = Settle(M, i) /\ X.timeouts = M.timeouts
        BY <2>2, <2>3, <4>1, EndsWay
      <4>5. X.stop = M.stop
        BY <4>4 DEF SameQueues
      <4>. QED BY <4>3, <4>4, <4>5, LostTwice
    <3>4. CASE ~M.loop.gotoEnd
      <4>1. X = settledAlways([Settled(M, i) EXCEPT !.cut = @ \cup {M.timers[i].id}], M.timers[i])
        BY <2>3, <3>4 DEF stopAnimation, Settled
      <4>. HIDE DEF X
      <4>2. CutShort(M, X, i)
        BY <2>2, <2>3, <4>1, CutShortWay DEF CutShort
      <4>3. Sound(X, c, Lost(Lost(lost, M), X), left)
        BY <2>1, <2>2, <2>3, <3>4, <4>2, CutShortStep
      <4>4. SameQueues(M, X) /\ X.timers = Settle(M, i) /\ X.timeouts = M.timeouts
        BY <4>2 DEF CutShort
      <4>5. X.stop = M.stop
        BY <4>4 DEF SameQueues
      <4>. QED BY <4>3, <4>4, <4>5, LostTwice
    <3>. QED BY <3>3, <3>4
  <2>6. X.loop = M.loop
    BY <2>5 DEF SameQueues
  <2>7. R = settleAndSplice(M, i, M.loop.gotoEnd)
    BY <1>3, <1>6, <2>1 DEF i, M
  <2>8. R = Without(X)
    BY <2>4, <2>6, <2>7 DEF settleAndSplice, Without
  <2>. HIDE DEF X
  <2>. QED BY <2>2, <2>3, <2>4, <2>5, <2>8, ThenRemoves
<1>. QED BY <1>4, <1>5, <1>6

-----------------------------------------------------------------------------
(* The loops of finish. *)

(* The next function is taken out of the old queue. *)
Taken(S) == [S EXCEPT !.loop.rest = Tail(@)]

(* What that changes. *)
Takes(S, R) ==
    /\ R \in State /\ R.todo = S.todo
    /\ R.queue = S.queue /\ R.stop = S.stop /\ R.finish = S.finish
    /\ R.removed = S.removed /\ SameCalls(S, R) /\ SameClock(S, R)
    /\ R.loop.do = "finish" /\ R.loop.elem = S.loop.elem /\ R.loop.at = S.loop.at
    /\ R.loop.rest = Tail(S.loop.rest)

(* finish takes the next function of the old queue. *)
LEMMA TakesWay ==
    ASSUME NEW S \in State, S.loop.do = "finish", S.loop.rest # << >>,
           NEW R, R = Taken(S)
    PROVE  Takes(S, R)
<1>. DEFINE s == S.loop.rest
            t == Tail(s)
            l == [S.loop EXCEPT !.rest = t]
<1>1. S.loop \in [do : {"finish"}, elem : Widgets, at : Nat, rest : Seq(Item)]
  BY DEF State, Loop, NoLoop
<1>2. s \in Seq(Item) /\ s # << >>
  BY <1>1
<1>3. R = [S EXCEPT !.loop = l] /\ t = Tail(S.loop.rest)
  BY DEF Taken
<1>. HIDE DEF s
<1>4. t \in Seq(Item)
  BY <1>2, InTail
<1>. HIDE DEF t
<1>5. /\ l \in [do : {"finish"}, elem : Widgets, at : Nat, rest : Seq(Item)]
      /\ l.do = "finish" /\ l.elem = S.loop.elem /\ l.at = S.loop.at /\ l.rest = t
  BY <1>1, <1>4
<1>. HIDE DEF l
<1>6. l \in Loop
  BY <1>5 DEF Loop
<1>7. /\ R \in State /\ R.loop = l /\ R.todo = S.todo
      /\ R.queue = S.queue /\ R.stop = S.stop /\ R.finish = S.finish
      /\ R.removed = S.removed /\ SameCalls(S, R) /\ SameClock(S, R)
  BY <1>3, <1>6, LoopWay
<1>. QED BY <1>3, <1>5, <1>7 DEF Takes

(* It is in no place then, and ahead of the others. *)
Taking(R, c, lost, left, e, it) ==
    /\ Sound(R, c, lost, left)
    /\ e \in Elements /\ Quiet(R) /\ ~WillDequeue(R) /\ R.finish[e]
    /\ e \notin lost => AtWork(R, e) = {}
    /\ it # inprogress => /\ it \in Job /\ Ahead(R, e, it) /\ Fresh(R, it.id)
                          /\ it.id <= c /\ Fits(e, it)

(* So it is with the next function that finish takes. *)
LEMMA TakenStep ==
    ASSUME NEW S, NEW c \in Nat, NEW lost, NEW left, Sound(S, c, lost, left), Quiet(S),
           S.loop.do = "finish", S.loop.at = 0, S.loop.rest # << >>,
           NEW R, Takes(S, R), NEW e, e = S.loop.elem, NEW it, it = S.loop.rest[1]
    PROVE  Taking(R, c, lost, left, e, it)
<1>. DEFINE r == S.loop.rest
            q == R.loop.rest
<1>1. /\ S \in State /\ e \in Widgets /\ e \in Elements /\ r \in Seq(Item) /\ r # << >>
      /\ R \in State
  BY LoopTypes DEF Sound, Typed, Elements, Takes
<1>2. /\ R.todo = S.todo
      /\ R.queue = S.queue /\ R.stop = S.stop /\ R.finish = S.finish
      /\ R.removed = S.removed /\ SameCalls(S, R)
      /\ R.timers = S.timers /\ R.timerId = S.timerId /\ R.timeouts = S.timeouts
      /\ R.loop.do = "finish" /\ R.loop.elem = e /\ R.loop.at = 0
      /\ q = Tail(r)
  BY DEF Takes, SameClock
<1>3. Waiting(S, e) = r /\ Waiting(R, e) = q
  BY <1>2 DEF Waiting
<1>4. \A f \in Elements : f # e => Waiting(R, f) = Waiting(S, f)
  BY <1>2 DEF Waiting
<1>5. it = r[1] /\ S.finish[e] = TRUE
  BY <1>1 DEF Sound, Typed
<1>6. \A k \in DOMAIN r : Fits(e, r[k])
  BY DEF Sound, Shape
<1>7. Ordered(r)
  BY <1>1, <1>3 DEF Sound, InOrder
<1>. HIDE DEF r, q
<1>8. /\ q \in Seq(Item) /\ Len(r) \in Nat /\ Len(r) > 0 /\ Len(q) = Len(r) - 1
      /\ \A k \in 1..(Len(r) - 1) : q[k] = r[k + 1]
  BY <1>1, <1>2, InTail
<1>9. DOMAIN q = 1..(Len(r) - 1) /\ DOMAIN r = 1..Len(r) /\ 1 \in DOMAIN r /\ it \in Item
  BY <1>1, <1>5, <1>8, LenProperties, ElementOfSeq
<1>10. \A k \in DOMAIN q : k + 1 \in DOMAIN r /\ q[k] = r[k + 1] /\ 1 < k + 1
  BY <1>8, <1>9
<1>11. /\ \A f \in Elements : AtWork(R, f) = AtWork(S, f) /\ (HasTimer(R, f) <=> HasTimer(S, f))
       /\ \A i \in Ids : Calls(R, i) = Calls(S, i)
       /\ \A f \in Elements : Delayed(R, f) = Delayed(S, f)
       /\ \A i \in Ids : Sleeps(R, i) = Sleeps(S, i)
  BY <1>2, SameTimers, SameTimeouts
<1>12. Quiet(R)
  BY <1>2 DEF Quiet
<1>13. /\ \A f \in Elements : ~Due(R, f) /\ ~Due(S, f)
       /\ \A k \in DOMAIN R.todo : k > 1 => R.todo[k].do = "always"
  BY <1>1, <1>12, QuietDue
<1>14. Typed(R)
  BY <1>1, <1>2 DEF Sound, Typed
<1>15. Shape(R)
  <2>1. \A k \in DOMAIN q : Fits(e, q[k])
    BY <1>6, <1>10
  <2>2. R.queue[e] = << >>
    BY <1>2 DEF Sound, Shape
  <2>3. R.loop.at <= Len(R.timers)
    BY <1>1, <1>2, TimersType
  <2>. QED BY <1>2, <1>13, <2>1, <2>2, <2>3 DEF Sound, Shape, q
<1>16. Swept(R) /\ ~WillDequeue(R)
  BY <1>2 DEF Swept, WillDequeue
<1>17. \A f \in Elements \ lost : OneAtWork(R, f)
  <2>. TAKE f \in Elements \ lost
  <2>1. OneAtWork(S, f)
    BY DEF Sound
  <2>2. Claimed(R, f)
    BY <1>2, <1>11, <2>1 DEF OneAtWork, Claimed
  <2>. QED BY <1>2, <1>11, <1>13, <2>1, <2>2 DEF OneAtWork
<1>18. e \notin lost => AtWork(R, e) = {}
  <2>1. ASSUME e \notin lost, NEW j \in AtWork(R, e) PROVE FALSE
    <3>1. Claimed(R, e)
      BY <1>1, <1>17, <2>1 DEF OneAtWork
    <3>2. R.queue[e] = << >>
      BY <1>2 DEF Sound, Shape
    <3>3. j <= 0
      BY <1>1, <1>2, <2>1, <3>1, <3>2 DEF Claimed
    <3>4. j \in 1..Len(R.timers)
      BY <1>1, TimersType DEF AtWork
    <3>. QED BY <3>3, <3>4
  <2>. QED BY <2>1
<1>19. Headed(R)
  BY <1>2, <1>13 DEF Sound, Headed
<1>20. \A f \in Elements \ left : Attended(R, f)
  BY <1>2, <1>11, <1>13 DEF Sound, Attended
<1>21. InOrder(R)
  <2>1. Ordered(q)
    <3>1. ASSUME NEW j \in DOMAIN q, NEW k \in DOMAIN q, j < k
          PROVE  q[j].id <= q[k].id /\ (q[j].part = 0 => q[j].id < q[k].id)
      <4>1. j + 1 < k + 1
        BY <1>9, <3>1
      <4>. QED BY <1>7, <1>10, <4>1 DEF Ordered
    <3>. QED BY <3>1 DEF Ordered
  <2>2. \A f \in Elements : Ordered(Waiting(R, f))
    BY <1>3, <1>4, <2>1 DEF Sound, InOrder
  <2>3. ASSUME NEW f \in Elements, NEW m \in DOMAIN R.begun[f], NEW k \in DOMAIN Waiting(R, f),
               Waiting(R, f)[k] # inprogress
        PROVE  R.begun[f][m] <= Waiting(R, f)[k].id
    <3>1. R.begun = S.begun
      BY <1>2 DEF SameCalls
    <3>2. CASE f # e
      BY <1>4, <2>3, <3>1, <3>2 DEF Sound, InOrder
    <3>3. CASE f = e
      <4>1. k + 1 \in DOMAIN r /\ q[k] = r[k + 1]
        BY <1>3, <1>10, <2>3, <3>3
      <4>. QED BY <1>3, <2>3, <3>1, <3>3, <4>1 DEF Sound, InOrder
    <3>. QED BY <3>2, <3>3
  <2>. QED BY <1>2, <2>2, <2>3 DEF Sound, InOrder, SameCalls
<1>22. \A i \in Ids : Waits(R, i) \subseteq Waits(S, i)
  <2>. TAKE i \in Ids
  <2>1. ASSUME NEW k \in DOMAIN q, q[k].id = i PROVE e \in Waits(S, i)
    BY <1>1, <1>3, <1>10, <2>1 DEF Waits
  <2>. QED BY <1>3, <1>4, <2>1 DEF Waits
<1>23. ASSUME NEW i \in Ids
       PROVE  (InOnePlace(S, i) => InOnePlace(R, i)) /\ (Fresh(S, i) => Fresh(R, i))
  <2>1. Second(R, i) => Second(S, i)
    BY <1>2 DEF Second
  <2>. QED BY <1>2, <1>11, <1>22, <2>1, FewerPlaces DEF SameCalls
<1>24. Placed(R) /\ NoneToCome(R, c)
  BY <1>2, <1>23 DEF Sound, Placed, NoneToCome, SameCalls
<1>25. ASSUME it # inprogress
       PROVE  /\ it \in Job /\ Ahead(R, e, it) /\ Fresh(R, it.id)
              /\ it.id <= c /\ Fits(e, it)
  <2>1. it \in Job /\ it.id \in Ids /\ it.id \in Nat
    BY <1>9, <1>25, ItemTypes DEF Item, Ids
  <2>2. Fits(e, it)
    BY <1>5, <1>6, <1>9
  <2>3. it.part = 0
    BY <1>1, <1>25, <2>2 DEF Fits
  <2>4. Ahead(R, e, it)
    <3>1. \A m \in DOMAIN R.begun[e] : R.begun[e][m] <= it.id
      BY <1>1, <1>2, <1>3, <1>5, <1>9, <1>25 DEF Sound, InOrder, SameCalls
    <3>2. \A k \in DOMAIN q : it.id <= q[k].id /\ it.id < q[k].id
      BY <1>5, <1>7, <1>9, <1>10, <2>3 DEF Ordered
    <3>. QED BY <1>3, <3>1, <3>2 DEF Ahead
  <2>5. e \in Waits(S, it.id)
    BY <1>1, <1>3, <1>5, <1>9 DEF Waits
  <2>6. InOnePlace(S, it.id)
    BY <2>1 DEF Sound, Placed
  <2>7. /\ ~Over(S, it.id) /\ Calls(S, it.id) = {} /\ Sleeps(S, it.id) = {}
        /\ ~Second(S, it.id) /\ \A x \in Waits(S, it.id) : x = e
    BY <2>5, <2>6 DEF InOnePlace
  <2>8. e \notin Waits(R, it.id)
    <3>1. ASSUME NEW k \in DOMAIN q, q[k].id = it.id PROVE FALSE
      <4>1. it.id < q[k].id
        BY <1>5, <1>7, <1>9, <1>10, <2>3 DEF Ordered
      <4>. QED BY <2>1, <3>1, <4>1
    <3>. QED BY <1>3, <3>1 DEF Waits
  <2>9. Waits(R, it.id) = {}
    BY <1>22, <2>1, <2>7, <2>8
  <2>10. Fresh(R, it.id)
    BY <1>2, <1>11, <2>1, <2>7, <2>9 DEF Fresh, Over, Second, SameCalls
  <2>11. it.id <= c
    <3>1. ASSUME it.id > c PROVE FALSE
      BY <2>1, <2>5, <3>1 DEF Sound, NoneToCome, Fresh
    <3>. QED BY <2>1, <3>1
  <2>. QED BY <2>1, <2>2, <2>4, <2>10, <2>11
<1>26. Sound(R, c, lost, left)
  BY <1>14, <1>15, <1>16, <1>17, <1>19, <1>20, <1>21, <1>24 DEF Sound
<1>. QED BY <1>1, <1>2, <1>5, <1>12, <1>16, <1>18, <1>25, <1>26
  DEF Taking

(* A call that is in no place is given up. *)
Dropped(S, id) == [S EXCEPT !.cut = @ \cup {id}]

(* That leaves everything as it is. *)
LEMMA GivenUp ==
    ASSUME NEW S, NEW c \in Nat, NEW lost, NEW left, Sound(S, c, lost, left),
           NEW id \in Ids, Fresh(S, id), id <= c,
           NEW R, R = Dropped(S, id)
    PROVE  Sound(R, c, Lost(lost, R), left)
<1>1. S \in State
  BY DEF Sound, Typed
<1>2. /\ R \in State /\ SameQueues(S, R) /\ R.todo = S.todo /\ SameClock(S, R)
      /\ R.begun = S.begun /\ R.completed = S.completed /\ R.cut = S.cut \cup {id}
  BY <1>1 DEF State, SameQueues, SameClock, Dropped
<1>3. /\ R.queue = S.queue /\ R.stop = S.stop /\ R.finish = S.finish /\ R.loop = S.loop
      /\ R.removed = S.removed /\ R.timers = S.timers /\ R.timerId = S.timerId
      /\ R.timeouts = S.timeouts
  BY <1>2 DEF SameQueues, SameClock
<1>4. /\ \A f \in Elements : AtWork(R, f) = AtWork(S, f) /\ (HasTimer(R, f) <=> HasTimer(S, f))
      /\ \A i \in Ids : Calls(R, i) = Calls(S, i)
      /\ \A f \in Elements : Delayed(R, f) = Delayed(S, f)
      /\ \A i \in Ids : Sleeps(R, i) = Sleeps(S, i)
      /\ \A f \in Elements : Due(R, f) <=> Due(S, f)
  BY <1>2, <1>3, SameTimers, SameTimeouts DEF Due
<1>5. /\ \A e \in Elements : Waiting(R, e) = Waiting(S, e)
      /\ \A i \in Ids : Waits(R, i) = Waits(S, i) /\ (Second(R, i) <=> Second(S, i))
  BY <1>3, SameWaiting
<1>6. Typed(R) /\ Shape(R)
  BY <1>2, <1>3 DEF Sound, Typed, Shape
<1>7. Swept(R)
  BY <1>3, <1>4 DEF Sound, Swept, WillDequeue
<1>8. \A e \in Elements \ Lost(lost, R) : OneAtWork(R, e)
  <2>. TAKE e \in Elements \ Lost(lost, R)
  <2>1. e \notin lost /\ \A t \in Delayed(R, e) : R.stop[e] = t[2]
    BY NotLost
  <2>2. OneAtWork(S, e)
    BY <2>1 DEF Sound
  <2>. QED BY <1>3, <1>4, <2>1, <2>2, StillAtWork
<1>9. Headed(R) /\ \A e \in Elements \ left : Attended(R, e)
  BY <1>3, <1>4 DEF Sound, Headed, Attended
<1>10. InOrder(R)
  BY <1>2, <1>5 DEF Sound, InOrder
<1>11. ASSUME NEW i \in Ids
       PROVE  InOnePlace(R, i) /\ (Fresh(S, i) /\ i # id => Fresh(R, i))
  <2>1. CASE i = id
    <3>1. S.completed[i] = 0
      BY <1>1, <2>1 DEF Fresh, Over, State
    <3>. QED BY <1>2, <1>4, <1>5, <2>1, <3>1 DEF Fresh, InOnePlace, Over
  <2>2. CASE i # id
    <3>1. InOnePlace(S, i) /\ (i \in R.cut <=> i \in S.cut)
      BY <1>2, <2>2 DEF Sound, Placed
    <3>. QED BY <1>2, <1>4, <1>5, <3>1, FewerPlaces
  <2>. QED BY <2>1, <2>2
<1>12. \A i \in Ids : i > c => i # id
  BY DEF Ids
<1>13. Placed(R) /\ NoneToCome(R, c)
  BY <1>2, <1>3, <1>11, <1>12 DEF Sound, Placed, NoneToCome
<1>. QED BY <1>6, <1>7, <1>8, <1>9, <1>10, <1>13 DEF Sound

(* More elements with a forgotten delay are more exceptions. *)
LEMMA LostMore ==
    ASSUME NEW S, NEW c \in Nat, NEW lost, NEW left, Sound(S, c, lost, left)
    PROVE  Sound(S, c, Lost(lost, S), left)
BY DEF Sound, Lost

(* The last round puts the flag back. *)
FinishOver(S) == [S EXCEPT !.loop = NoLoop, !.finish[S.loop.elem] = FALSE]

(* Only the loop and the flag differ after the last round. *)
LEMMA FinishOverWay ==
    ASSUME NEW S, Typed(S), S.loop.do = "finish", NEW R, R = FinishOver(S)
    PROVE  /\ Typed(R) /\ R.loop.do = "none" /\ R.todo = S.todo
           /\ R.queue = S.queue /\ R.stop = S.stop
           /\ R.removed = S.removed /\ SameCalls(S, R) /\ SameClock(S, R)
<1>. DEFINE F == [S.finish EXCEPT ![S.loop.elem] = FALSE]
<1>1. S \in State /\ S.loop.elem \in Elements
  BY LoopTypes DEF Typed, Elements
<1>2. /\ F \in [Elements -> BOOLEAN]
      /\ \A f \in Elements : ~F[f]
  BY <1>1 DEF State, Typed
<1>3. NoLoop \in Loop /\ NoLoop.do = "none"
  BY DEF Loop, NoLoop
<1>4. R = [S EXCEPT !.loop = NoLoop, !.finish = F]
  BY DEF FinishOver
<1>. HIDE DEF F
<1>5. /\ R \in State /\ R.loop = NoLoop /\ R.finish = F /\ R.todo = S.todo
      /\ R.queue = S.queue /\ R.stop = S.stop
      /\ R.removed = S.removed /\ SameCalls(S, R) /\ SameClock(S, R)
  BY ZenonT(60), <1>1, <1>2, <1>3, <1>4 DEF State, SameCalls, SameClock
<1>6. R.finish \in [Elements -> BOOLEAN] /\ \A f \in Elements : ~R.finish[f]
  BY <1>2, <1>5
<1>7. \A f \in Elements : R.finish[f] = FALSE
  BY <1>6
<1>8. R.loop.do = "none"
  BY <1>3, <1>5
<1>9. \A f \in Elements : R.finish[f] = (R.loop.do = "finish" /\ R.loop.elem = f)
  BY <1>7, <1>8
<1>. QED BY <1>5, <1>8, <1>9 DEF Typed

(* The last round of finish keeps the invariant. *)
LEMMA FinishEndsStep ==
    ASSUME NEW S, NEW c \in Nat, NEW lost, NEW left, Sound(S, c, lost, left), Quiet(S),
           S.loop.do = "finish", S.loop.at = 0, S.loop.rest = << >>,
           NEW R, R = FinishOver(S)
    PROVE  Sound(R, c, Lost(lost, R), left)
<1>. DEFINE e == S.loop.elem
<1>1. S \in State /\ e \in Elements
  BY LoopTypes DEF Sound, Typed, Elements
<1>2. /\ Typed(R) /\ R.loop.do = "none" /\ R.todo = S.todo
      /\ R.queue = S.queue /\ R.stop = S.stop
      /\ R.removed = S.removed /\ SameCalls(S, R) /\ SameClock(S, R)
  BY FinishOverWay DEF Sound
<1>3. R.timers = S.timers /\ R.timerId = S.timerId /\ R.timeouts = S.timeouts
  BY <1>2 DEF SameClock
<1>4. S.queue[e] = << >> /\ (S.timers # << >> => S.timerId)
  BY DEF Sound, Shape
<1>5. \A f \in Elements : Waiting(R, f) = Waiting(S, f)
  BY <1>2, <1>4 DEF Waiting
<1>6. Kept(S, R)
  BY <1>3, KeptSame
<1>7. /\ \A f \in Elements : AtWork(R, f) = AtWork(S, f)
      /\ \A f \in Elements : Delayed(R, f) = Delayed(S, f)
      /\ \A f \in Elements : Due(R, f) <=> Due(S, f)
  BY <1>2, <1>3, SameTimers, SameTimeouts DEF Due
<1>8. Swept(R)
  BY <1>2 DEF Swept, WillDequeue
<1>9. \A f \in Elements \ lost : Claimed(S, f) => Claimed(R, f)
  <2>1. \A f \in Elements : \A j \in AtWork(S, f) : ~(j <= S.loop.at)
    BY <1>1, TimersType DEF AtWork
  <2>. QED BY <1>2, <1>7, <2>1 DEF Claimed
<1>10. \A f \in Elements \ left : Attended(S, f) => Attended(R, f)
  BY <1>2, <1>7 DEF Attended
<1>11. S.loop.do # "effect" /\ R.loop.do \notin {"effect", "finish", "stop", "tick"}
  BY <1>2
<1>. QED BY <1>2, <1>3, <1>4, <1>5, <1>6, <1>8, <1>9, <1>10, <1>11, RoundStep

(* To give up nothing changes nothing. *)
LEMMA CutNothing ==
    ASSUME NEW S \in State
    PROVE  [S EXCEPT !.cut = @ \cup {}] = S
BY DEF State

(* A round of the loops. *)
LEMMA FinishLoopStep ==
    ASSUME NEW S, NEW c \in Nat, NEW lost, NEW left, Sound(S, c, lost, left), Quiet(S),
           S.loop.do = "finish", NEW R, R = finishLoop(S)
    PROVE  Sound(R, c, Lost(lost, R), left)
<1>. DEFINE i == S.loop.at
            T == Taken(S)
            e == S.loop.elem
            it == S.loop.rest[1]
<1>1. S \in State /\ i \in Nat /\ S.loop.elem \in Widgets /\ S.loop.rest \in Seq(Item)
  BY LoopTypes DEF Sound, Typed
<1>2. i # 0 => i \in DOMAIN S.timers
  BY <1>1, TimersType DEF Sound, Shape
<1>3. S.loop.rest # << >> => Head(S.loop.rest) = it
  BY <1>1, InTail
<1>10. i # 0 <=> i > 0
  BY <1>1
<1>11. i # 0 /\ ~(Of(S, i, S.loop.elem) /\ S.timers[i].queued) => R = NextRound(S)
  BY <1>10 DEF finishLoop
<1>12. i # 0 /\ Of(S, i, S.loop.elem) /\ S.timers[i].queued => R = settleAndSplice(S, i, TRUE)
  BY <1>10 DEF finishLoop
<1>14. i = 0 /\ S.loop.rest = << >> => R = FinishOver(S)
  BY <1>10 DEF finishLoop, FinishOver, finishEnds
<1>15. i = 0 /\ S.loop.rest # << >> /\ it.op = "animate" => R = doAnimation(T, e, it)
  BY <1>3, <1>10 DEF finishLoop, Taken
<1>16. i = 0 /\ S.loop.rest # << >> /\ it.op # "animate" =>
          R = [T EXCEPT !.cut = @ \cup IdsIn(<<it>>)]
  BY <1>3, <1>10 DEF finishLoop, Taken
<1>17. i = S.loop.at /\ e = S.loop.elem /\ it = S.loop.rest[1]
  OBVIOUS
<1>. HIDE DEF T, i, e, it
<1>5. CASE i # 0 /\ ~(Of(S, i, S.loop.elem) /\ S.timers[i].queued)
  <2>1. R = NextRound(S)
    BY <1>5, <1>11
  <2>2. \/ S.timers[i].elem # S.loop.elem \/ S.timers[i].settled
        \/ ~S.timers[i].queued
    BY <1>5 DEF Of
  <2>. QED BY <1>5, <1>17, <2>1, <2>2, LoopSkips
<1>6. CASE i # 0 /\ Of(S, i, S.loop.elem) /\ S.timers[i].queued
  <2>. DEFINE X == stopAnimation(S, i, TRUE)
  <2>1. i \in DOMAIN S.timers /\ ~S.timers[i].settled
    BY <1>2, <1>6 DEF Of
  <2>2. X = complete(Settled(S, i), S.timers[i])
    BY <2>1 DEF stopAnimation, Settled
  <2>. HIDE DEF X
  <2>3. ~WillDequeue(S)
    BY DEF WillDequeue
  <2>4. Sound(X, c, Lost(lost, X), left)
    BY <2>1, <2>2, <2>3, EndsStep
  <2>5. SameQueues(S, X) /\ X.timers = Settle(S, i) /\ X.timeouts = S.timeouts
    BY <1>1, <2>1, <2>2, EndsWay
  <2>6. X.loop.at = i
    BY <1>17, <2>5 DEF SameQueues
  <2>7. R = Without(X)
    BY <1>6, <1>12, <2>6 DEF settleAndSplice, Without, X
  <2>. QED BY <1>1, <1>6, <1>17, <2>1, <2>4, <2>5, <2>7, ThenRemoves
<1>8. CASE i = 0 /\ S.loop.rest = << >>
  BY <1>8, <1>14, <1>17, FinishEndsStep
<1>9. CASE i = 0 /\ S.loop.rest # << >>
  <2>1. Takes(S, T)
    BY <1>1, <1>9, TakesWay DEF T
  <2>9. S.loop.at = 0 /\ S.loop.rest # << >> /\ e = S.loop.elem /\ it = S.loop.rest[1]
    BY <1>9, <1>17
  <2>8. Taking(T, c, lost, left, e, it)
    BY <2>1, <2>9, TakenStep
  <2>2. /\ Sound(T, c, lost, left)
        /\ e \in Elements /\ Quiet(T) /\ ~WillDequeue(T) /\ T.finish[e]
        /\ e \notin lost => AtWork(T, e) = {}
        /\ it # inprogress => /\ it \in Job /\ Ahead(T, e, it) /\ Fresh(T, it.id)
                              /\ it.id <= c /\ Fits(e, it)
    BY <2>8 DEF Taking
  <2>3. T.loop.do = "finish" /\ T.stop = S.stop /\ T.timeouts = S.timeouts /\ T \in State
    BY <2>1 DEF Takes, SameClock
  <2>4. CASE it.op = "animate"
    <3>1. it # inprogress
      BY <2>4, ItemTypes
    <3>2. InHand(T, c, lost, left, e, it)
      BY <2>2, <2>3, <3>1 DEF Sound, InHand
    <3>3. R = doAnimation(T, e, it)
      BY <1>9, <1>15, <2>4
    <3>. QED BY <2>2, <3>1, <3>2, <3>3, DoAnimationStep
  <2>5. CASE it.op # "animate"
    <3>1. R = [T EXCEPT !.cut = @ \cup IdsIn(<<it>>)]
      BY <1>9, <1>16, <2>5
    <3>2. IdsIn(<<it>>) = {it.id} \ {0}
      BY DEF IdsIn
    <3>3. CASE it = inprogress
      <4>1. IdsIn(<<it>>) = {}
        BY <3>2, <3>3, ItemTypes
      <4>2. R = T
        BY <2>3, <3>1, <4>1, CutNothing
      <4>3. Sound(R, c, lost, left)
        BY <2>2, <4>2
      <4>. QED BY <4>3, LostMore
    <3>4. CASE it # inprogress
      <4>1. IdsIn(<<it>>) = {it.id} /\ it.id \in Ids
        BY <2>2, <3>2, <3>4, ItemTypes
      <4>2. R = Dropped(T, it.id)
        BY <3>1, <4>1 DEF Dropped
      <4>. QED BY <2>2, <3>4, <4>1, <4>2, GivenUp
    <3>. QED BY <3>3, <3>4
  <2>. QED BY <2>4, <2>5
<1>. QED BY <1>5, <1>6, <1>8, <1>9

-----------------------------------------------------------------------------
(* The clock.  Time passes for an animation. *)
Passes(a, passed) == [a EXCEPT !.left = IF @ > passed THEN @ - passed ELSE 0]

(* Time changes nothing of a timer but what is left of it. *)
LEMMA PassesFields ==
    ASSUME NEW a \in Timer, NEW passed \in Nat
    PROVE  /\ Passes(a, passed) \in Timer
           /\ Passes(a, passed).elem = a.elem /\ Passes(a, passed).id = a.id
           /\ Passes(a, passed).part = a.part /\ Passes(a, passed).queued = a.queued
           /\ Passes(a, passed).dequeues = a.dequeues
           /\ Passes(a, passed).settled = a.settled
<1>. DEFINE n == IF a.left > passed THEN a.left - passed ELSE 0
<1>1. n \in Nat
  BY DEF Timer
<1>2. Passes(a, passed) = [a EXCEPT !.left = n]
  BY DEF Passes
<1>. HIDE DEF n
<1>. QED BY <1>1, <1>2 DEF Timer

(* What a tick changes at first. *)
Ticks(S, R) ==
    /\ R \in State /\ R.todo = S.todo
    /\ R.queue = S.queue /\ R.stop = S.stop /\ R.finish = S.finish
    /\ R.removed = S.removed /\ SameCalls(S, R)
    /\ R.timerId = S.timerId /\ R.timeouts = S.timeouts
    /\ R.loop.do = "tick" /\ R.loop.at = 1
    /\ DOMAIN R.timers = DOMAIN S.timers
    /\ \A j \in DOMAIN S.timers :
          /\ R.timers[j].elem = S.timers[j].elem /\ R.timers[j].id = S.timers[j].id
          /\ R.timers[j].part = S.timers[j].part
          /\ R.timers[j].queued = S.timers[j].queued
          /\ R.timers[j].dequeues = S.timers[j].dequeues
          /\ R.timers[j].settled = S.timers[j].settled

(* tick lets the time pass for every timer, and starts its loop. *)
LEMMA TicksWay ==
    ASSUME NEW S \in State, NEW passed \in Nat, NEW R, R = tick(S, passed)
    PROVE  Ticks(S, R)
<1>. DEFINE t == [i \in DOMAIN S.timers |-> Passes(S.timers[i], passed)]
            l == [do |-> "tick", at |-> 1]
<1>1. /\ DOMAIN S.timers = 1..Len(S.timers) /\ Len(S.timers) \in Nat
      /\ \A j \in DOMAIN S.timers : S.timers[j] \in Timer
  BY TimersType
<1>2. /\ DOMAIN t = DOMAIN S.timers
      /\ \A j \in DOMAIN S.timers : t[j] = Passes(S.timers[j], passed)
  OBVIOUS
<1>3. \A j \in DOMAIN S.timers :
          /\ t[j] \in Timer
          /\ t[j].elem = S.timers[j].elem /\ t[j].id = S.timers[j].id
          /\ t[j].part = S.timers[j].part /\ t[j].queued = S.timers[j].queued
          /\ t[j].dequeues = S.timers[j].dequeues /\ t[j].settled = S.timers[j].settled
  BY ZenonT(60), <1>1, <1>2, PassesFields
<1>4. t \in [1..Len(S.timers) -> Timer]
  BY <1>1, <1>3
<1>5. R = [S EXCEPT !.timers = t, !.loop = l]
  BY DEF tick, Passes
<1>. HIDE DEF t
<1>6. t \in Seq(Timer)
  BY <1>1, <1>4, SeqDef
<1>7. l \in Loop /\ l.do = "tick" /\ l.at = 1
  BY DEF Loop
<1>. HIDE DEF l
<1>8. /\ R \in State /\ R.loop = l /\ R.timers = t /\ R.todo = S.todo
      /\ R.queue = S.queue /\ R.stop = S.stop /\ R.finish = S.finish
      /\ R.removed = S.removed /\ SameCalls(S, R)
      /\ R.timerId = S.timerId /\ R.timeouts = S.timeouts
  BY ZenonT(60), <1>5, <1>6, <1>7 DEF State, SameCalls
<1>. QED BY <1>2, <1>3, <1>7, <1>8 DEF Ticks

(* A tick begins. *)
LEMMA TickStep ==
    ASSUME NEW S, NEW c \in Nat, NEW lost, NEW left, Sound(S, c, lost, left), Quiet(S),
           S.loop.do = "none", NEW R, Ticks(S, R)
    PROVE  Sound(R, c, Lost(lost, R), left)
<1>1. /\ R \in State /\ R.todo = S.todo
      /\ R.queue = S.queue /\ R.stop = S.stop /\ R.finish = S.finish
      /\ R.removed = S.removed /\ SameCalls(S, R)
      /\ R.timerId = S.timerId /\ R.timeouts = S.timeouts
      /\ R.loop.do = "tick" /\ R.loop.at = 1
      /\ DOMAIN R.timers = DOMAIN S.timers
  BY DEF Ticks
<1>2. S \in State
  BY DEF Sound, Typed
<1>3. /\ Kept(S, R)
      /\ \A e \in Elements : AtWork(R, e) = AtWork(S, e)
  <2>1. \A j \in DOMAIN S.timers :
          /\ R.timers[j].elem = S.timers[j].elem /\ R.timers[j].id = S.timers[j].id
          /\ R.timers[j].part = S.timers[j].part
          /\ R.timers[j].queued = S.timers[j].queued
          /\ R.timers[j].dequeues = S.timers[j].dequeues
          /\ R.timers[j].settled = S.timers[j].settled
    BY DEF Ticks
  <2>. QED BY <1>1, <1>2, <2>1, KeptTicks, SameLive
<1>4. \A f \in Elements : Waiting(R, f) = Waiting(S, f)
  BY <1>1 DEF Waiting
<1>5. /\ \A f \in Elements : Delayed(R, f) = Delayed(S, f)
      /\ \A f \in Elements : Due(R, f) <=> Due(S, f)
  BY <1>1, SameTimeouts DEF Due
<1>6. Typed(R)
  BY <1>1 DEF Sound, Typed
<1>7. Swept(R)
  BY <1>1 DEF Swept, WillDequeue
<1>8. \A f \in Elements \ lost : Claimed(S, f) => Claimed(R, f)
  BY <1>1, <1>3 DEF Claimed
<1>9. \A f \in Elements \ left : Attended(S, f) => Attended(R, f)
  BY <1>1, <1>3, <1>5 DEF Attended
<1>10. R.timers # << >> => R.timerId
  <2>1. R.timers # << >> => S.timers # << >>
    BY <1>1, <1>2, EmptySeq, LenProperties DEF State
  <2>. QED BY <1>1, <2>1 DEF Sound, Shape
<1>11. /\ S.loop.do # "effect" /\ R.loop.do \notin {"effect", "finish", "stop"}
       /\ R.loop.at > 0
  BY <1>1
<1>. QED BY <1>1, <1>3, <1>4, <1>6, <1>7, <1>8, <1>9, <1>10, <1>11, RoundStep

(* Its loop goes on from an animation that has not come to its end ... *)
LEMMA TickSkips ==
    ASSUME NEW S, NEW c \in Nat, NEW lost, NEW left, Sound(S, c, lost, left), Quiet(S),
           S.loop.do = "tick", NEW l \in Loop, l.do \in {"tick", "none"},
           l.do = "tick" => l.at > 0, NEW T, T = [S EXCEPT !.loop = l],
           NEW R, R = [T EXCEPT !.timerId = (S.timers # << >>)] \/ R = T
    PROVE  Sound(R, c, Lost(lost, R), left)
<1>1. S \in State
  BY DEF Sound, Typed
<1>2. /\ T \in State /\ T.loop = l /\ T.todo = S.todo
      /\ T.queue = S.queue /\ T.stop = S.stop /\ T.finish = S.finish
      /\ T.removed = S.removed /\ SameCalls(S, T) /\ SameClock(S, T)
  BY <1>1, LoopWay
<1>. DEFINE x == S.timers # << >>
<1>3. /\ R \in State /\ R.loop = l /\ R.todo = S.todo
      /\ R.queue = S.queue /\ R.stop = S.stop /\ R.finish = S.finish
      /\ R.removed = S.removed /\ SameCalls(S, R)
      /\ R.timers = S.timers /\ R.timeouts = S.timeouts
      /\ R.timers # << >> => R.timerId
  <2>1. CASE R = T
    BY <1>2, <2>1 DEF SameClock, Sound, Shape
  <2>2. CASE R = [T EXCEPT !.timerId = (S.timers # << >>)]
    <3>1. x \in BOOLEAN /\ (S.timers # << >> => x)
      OBVIOUS
    <3>2. R = [T EXCEPT !.timerId = x]
      BY <2>2
    <3>. HIDE DEF x
    <3>. QED BY ZenonT(60), <1>2, <3>1, <3>2 DEF SameClock, SameCalls, State
  <2>. QED BY <2>1, <2>2
<1>4. Kept(S, R)
  BY <1>3, KeptSame
<1>5. /\ \A e \in Elements : AtWork(R, e) = AtWork(S, e)
      /\ \A f \in Elements : Delayed(R, f) = Delayed(S, f)
      /\ \A f \in Elements : Due(R, f) <=> Due(S, f)
  BY <1>3, SameTimers, SameTimeouts DEF Due
<1>6. \A f \in Elements : Waiting(R, f) = Waiting(S, f)
  BY <1>3 DEF Waiting
<1>7. Typed(R)
  BY <1>3 DEF Sound, Typed
<1>8. Swept(R)
  BY <1>3 DEF Swept, WillDequeue
<1>9. \A f \in Elements \ lost : Claimed(S, f) => Claimed(R, f)
  BY <1>3, <1>5 DEF Claimed
<1>10. \A f \in Elements \ left : Attended(S, f) => Attended(R, f)
  BY <1>3, <1>5 DEF Attended
<1>11. /\ S.loop.do # "effect" /\ R.loop.do \notin {"effect", "finish", "stop"}
       /\ R.loop.do = "tick" => R.loop.at > 0
  BY <1>3
<1>. QED BY <1>3, <1>4, <1>6, <1>7, <1>8, <1>9, <1>10, <1>11, RoundStep

(* ... and removes one that has. *)
LEMMA TickRemoves ==
    ASSUME NEW S, NEW c \in Nat, NEW lost, NEW left, Sound(S, c, lost, left), Quiet(S),
           S.loop.do = "tick", NEW i \in DOMAIN S.timers, S.timers[i].settled,
           NEW t, t = RemoveAt(S.timers, i), NEW R, R = [S EXCEPT !.timers = t]
    PROVE  Sound(R, c, Lost(lost, R), left)
<1>1. S \in State
  BY DEF Sound, Typed
<1>2. t \in Seq(Timer)
  <2>. DEFINE s == S.timers
  <2>1. s \in Seq(Timer) /\ i \in 1..Len(s) /\ t = RemoveAt(s, i)
    BY <1>1, TimersType
  <2>. HIDE DEF s
  <2>. QED BY <2>1, Removed
<1>3. /\ R \in State /\ R.loop = S.loop /\ R.todo = S.todo
      /\ R.queue = S.queue /\ R.stop = S.stop /\ R.finish = S.finish
      /\ R.removed = S.removed /\ SameCalls(S, R)
      /\ R.timers = t /\ R.timeouts = S.timeouts /\ R.timerId = S.timerId
  BY <1>1, <1>2 DEF State, SameCalls
<1>4. Kept(S, R)
  BY <1>1, <1>3, KeptLeaves
<1>5. /\ \A f \in Elements : Delayed(R, f) = Delayed(S, f)
      /\ \A f \in Elements : Due(R, f) <=> Due(S, f)
      /\ \A f \in Elements : AtWork(R, f) = {} <=> AtWork(S, f) = {}
  BY <1>3, <1>4, SameTimeouts DEF Due, Kept
<1>6. \A f \in Elements : Waiting(R, f) = Waiting(S, f)
  BY <1>3 DEF Waiting
<1>7. Typed(R)
  BY <1>3 DEF Sound, Typed
<1>8. Swept(R)
  BY <1>3 DEF Swept, WillDequeue
<1>9. \A f \in Elements \ lost : Claimed(S, f) => Claimed(R, f)
  <2>. TAKE f \in Elements \ lost
  <2>. HAVE Claimed(S, f)
  <2>1. AtWork(R, f) # {} => AtWork(S, f) # {}
    BY <1>5
  <2>. QED BY <1>3, <2>1 DEF Claimed
<1>10. \A f \in Elements \ left : Attended(S, f) => Attended(R, f)
  BY <1>3, <1>5 DEF Attended
<1>11. S.timers # << >>
  BY <1>1 DEF State
<1>12. R.timers # << >> => R.timerId
  BY <1>3, <1>11 DEF Sound, Shape
<1>13. /\ S.loop.do # "effect" /\ R.loop.do \notin {"effect", "finish", "stop"}
       /\ R.loop.do = "tick" => R.loop.at > 0
  BY <1>3 DEF Sound, Shape
<1>. QED BY ZenonT(60), <1>3, <1>4, <1>6, <1>7, <1>8, <1>9, <1>10, <1>12, <1>13, RoundStep

(* A round of the loop of tick. *)
LEMMA TickLoopStep ==
    ASSUME NEW S, NEW c \in Nat, NEW lost, NEW left, Sound(S, c, lost, left), Quiet(S),
           S.loop.do = "tick", NEW R, R = tickLoop(S)
    PROVE  Sound(R, c, Lost(lost, R), left)
<1>. DEFINE i == S.loop.at
            T == [S EXCEPT !.loop = NoLoop]
            l == [S.loop EXCEPT !.at = @ + 1]
            t == RemoveAt(S.timers, i)
<1>1. S \in State /\ i \in Nat /\ i > 0
  BY LoopTypes DEF Sound, Typed, Shape
<1>2. ~(i > Len(S.timers)) => i \in DOMAIN S.timers
  BY <1>1, TimersType
<1>3. i > Len(S.timers) => R = [T EXCEPT !.timerId = (S.timers # << >>)]
  BY DEF tickLoop
<1>4. ~(i > Len(S.timers)) /\ S.timers[i].settled => R = [S EXCEPT !.timers = t]
  BY DEF tickLoop
<1>5. ~(i > Len(S.timers)) /\ ~S.timers[i].settled /\ S.timers[i].left > 0 =>
          R = [S EXCEPT !.loop = l]
  BY DEF tickLoop
<1>6. ~(i > Len(S.timers)) /\ ~S.timers[i].settled /\ ~(S.timers[i].left > 0) =>
          R = complete(Settled(S, i), S.timers[i])
  BY DEF tickLoop, Settled
<1>7. NoLoop \in Loop /\ NoLoop.do = "none"
  BY DEF Loop, NoLoop
<1>8. l \in Loop /\ l.do = "tick" /\ l.at > 0
  <2>1. S.loop \in [do : {"tick"}, at : Nat]
    BY <1>1 DEF State, Loop, NoLoop
  <2>. QED BY <2>1 DEF Loop
<1>9. t = RemoveAt(S.timers, i) /\ T = [S EXCEPT !.loop = NoLoop]
  OBVIOUS
<1>. HIDE DEF i, T, l, t
<1>10. CASE i > Len(S.timers)
  <2>1. R = [T EXCEPT !.timerId = (S.timers # << >>)]
    BY <1>3, <1>10
  <2>. QED BY ZenonT(60), <1>7, <1>9, <2>1, TickSkips
<1>11. CASE ~(i > Len(S.timers)) /\ S.timers[i].settled
  <2>1. R = [S EXCEPT !.timers = t] /\ i \in DOMAIN S.timers
    BY <1>2, <1>4, <1>11
  <2>. QED BY <1>9, <1>11, <2>1, TickRemoves
<1>12. CASE ~(i > Len(S.timers)) /\ ~S.timers[i].settled /\ S.timers[i].left > 0
  <2>1. R = [S EXCEPT !.loop = l]
    BY <1>5, <1>12
  <2>. QED BY <1>8, <2>1, TickSkips
<1>13. CASE ~(i > Len(S.timers)) /\ ~S.timers[i].settled /\ ~(S.timers[i].left > 0)
  <2>1. R = complete(Settled(S, i), S.timers[i]) /\ i \in DOMAIN S.timers
    BY <1>2, <1>6, <1>13
  <2>2. ~WillDequeue(S)
    BY DEF WillDequeue
  <2>. QED BY <1>13, <2>1, <2>2, EndsStep
<1>. QED BY <1>10, <1>11, <1>12, <1>13

-----------------------------------------------------------------------------
(* The calls of the page. *)

(* A function joins the queue of e. *)
LEMMA QueueJoined ==
    ASSUME NEW S \in State, NEW R, NEW e \in Elements, NEW it \in Job, NEW n,
           n = Len(S.queue[e]) + 1,
           R.queue = [S.queue EXCEPT ![e] = Append(@, it)]
    PROVE  /\ \A f \in Elements : f # e => R.queue[f] = S.queue[f]
           /\ DOMAIN R.queue[e] = DOMAIN S.queue[e] \cup {n}
           /\ \A m \in DOMAIN S.queue[e] : R.queue[e][m] = S.queue[e][m] /\ m < n
           /\ \A m \in DOMAIN R.queue[e] : ~(n < m)
           /\ R.queue[e][n] = it /\ n \notin DOMAIN S.queue[e]
           /\ S.queue[e] # << >> => R.queue[e] # << >> /\ R.queue[e][1] = S.queue[e][1]
<1>. DEFINE b == S.queue[e]
            g == Append(b, it)
<1>1. /\ S.queue \in [Elements -> Seq(Item)] /\ b \in Seq(Item)
      /\ Len(b) \in Nat /\ DOMAIN b = 1..Len(b) /\ it \in Item
      /\ b # << >> <=> 1 \in DOMAIN b
  BY QueueType, ItemTypes
<1>2. R.queue = [S.queue EXCEPT ![e] = g] /\ n = Len(b) + 1
  OBVIOUS
<1>. HIDE DEF b
<1>3. /\ g \in Seq(Item) /\ Len(g) = Len(b) + 1 /\ g[Len(b) + 1] = it /\ g # << >>
      /\ \A k \in 1..Len(b) : g[k] = b[k]
  BY <1>1, AtEnd
<1>. HIDE DEF g
<1>4. DOMAIN g = 1..(Len(b) + 1)
  BY <1>1, <1>3, LenProperties
<1>5. R.queue[e] = g /\ \A f \in Elements : f # e => R.queue[f] = S.queue[f]
  BY <1>1, <1>2
<1>6. /\ DOMAIN g = DOMAIN b \cup {n} /\ n \notin DOMAIN b
      /\ \A m \in DOMAIN b : g[m] = b[m] /\ m < n
      /\ \A m \in DOMAIN g : ~(n < m)
  BY <1>1, <1>2, <1>3, <1>4
<1>. QED BY <1>1, <1>2, <1>3, <1>5, <1>6 DEF b

(* It comes after all that was called before. *)
Behind(S, e, it) ==
    /\ \A m \in DOMAIN S.begun[e] : S.begun[e][m] <= it.id
    /\ \A k \in DOMAIN S.queue[e] : S.queue[e][k].id < it.id

(* fn.queue: nothing waits at the element that is not dequeued. *)
LEMMA QueueStep ==
    ASSUME NEW S, NEW c \in Nat, NEW lost, NEW left, Sound(S, c, lost, left), Quiet(S),
           NEW e \in Elements, NEW it \in Job,
           S.loop.do \notin {"stop", "finish", "tick"},
           S.loop.do = "effect" => e # box,
           e \in Widgets \/ ~S.removed,
           Fits(e, it), it.id <= c, Fresh(S, it.id), Behind(S, e, it),
           NEW R, R = queue(S, e, it)
    PROVE  Sound(R, c, Lost(lost, R), left)
<1>. DEFINE n == Len(S.queue[e]) + 1
<1>1. S \in State
  BY DEF Sound, Typed
<1>2. /\ R \in State /\ R.queue = [S.queue EXCEPT ![e] = Append(@, it)]
      /\ R.stop = S.stop
      /\ SameTurn(S, R) /\ SameCalls(S, R) /\ SameClock(S, R)
      /\ IF S.queue[e] # << >> /\ S.queue[e][1] = inprogress
         THEN R.todo = S.todo ELSE OnlyDue(R, e)
  BY <1>1, QueueWay
<1>3. /\ \A f \in Elements : f # e => R.queue[f] = S.queue[f]
      /\ DOMAIN R.queue[e] = DOMAIN S.queue[e] \cup {n}
      /\ \A m \in DOMAIN S.queue[e] : R.queue[e][m] = S.queue[e][m] /\ m < n
      /\ \A m \in DOMAIN R.queue[e] : ~(n < m)
      /\ R.queue[e][n] = it /\ n \notin DOMAIN S.queue[e]
      /\ S.queue[e] # << >> => R.queue[e] # << >> /\ R.queue[e][1] = S.queue[e][1]
  BY <1>1, <1>2, QueueJoined
<1>. HIDE DEF n
<1>4. /\ R.finish = S.finish /\ R.loop = S.loop /\ R.removed = S.removed
      /\ R.timers = S.timers /\ R.timerId = S.timerId /\ R.timeouts = S.timeouts
      /\ R.begun = S.begun /\ R.completed = S.completed /\ R.cut = S.cut
  BY <1>2 DEF SameTurn, SameCalls, SameClock
<1>5. /\ \A f \in Elements : ~Due(S, f)
      /\ \A k \in DOMAIN S.todo : k > 1 => S.todo[k].do = "always"
  BY <1>1, QuietDue
<1>6. \A f \in Elements : S.queue[f] # << >> => S.queue[f][1] = inprogress
  BY <1>5 DEF Sound, Headed
<1>7. /\ S.queue[e] # << >> => R.todo = S.todo
      /\ S.queue[e] = << >> => OnlyDue(R, e)
  BY <1>2, <1>6
<1>8. /\ \A k \in DOMAIN R.todo : k > 1 => R.todo[k].do = "always"
      /\ \A f \in Elements : Due(R, f) <=> S.queue[e] = << >> /\ f = e
  <2>1. CASE S.queue[e] # << >>
    BY <1>5, <1>7, <2>1 DEF Due
  <2>2. CASE S.queue[e] = << >>
    BY <1>7, <2>2 DEF OnlyDue
  <2>. QED BY <2>1, <2>2
<1>9. /\ \A f \in Elements : AtWork(R, f) = AtWork(S, f) /\ (HasTimer(R, f) <=> HasTimer(S, f))
      /\ \A i \in Ids : Calls(R, i) = Calls(S, i)
      /\ \A f \in Elements : Delayed(R, f) = Delayed(S, f)
      /\ \A i \in Ids : Sleeps(R, i) = Sleeps(S, i)
      /\ \A i \in Ids : Second(R, i) <=> Second(S, i)
      /\ \A i \in Ids : Over(R, i) <=> Over(S, i)
  BY <1>4, SameTimers, SameTimeouts DEF Second, Over
<1>10. \A f \in Elements : Waiting(R, f) = R.queue[f] /\ Waiting(S, f) = S.queue[f]
  BY <1>4 DEF Waiting
<1>11. Typed(R)
  BY <1>2, <1>4 DEF Sound, Typed
<1>12. Shape(R)
  <2>1. \A f \in Elements : \A k \in DOMAIN R.queue[f] : Fits(f, R.queue[f][k])
    BY <1>3 DEF Sound, Shape
  <2>2. R.loop.do \notin {"stop", "finish", "tick"}
    BY <1>4
  <2>. QED BY <1>4, <1>8, <2>1, <2>2 DEF Sound, Shape
<1>13. Swept(R)
  BY <1>4 DEF Swept, WillDequeue
<1>14. \A f \in Elements \ Lost(lost, R) : OneAtWork(R, f)
  <2>. TAKE f \in Elements \ Lost(lost, R)
  <2>1. f \notin lost /\ \A t \in Delayed(R, f) : R.stop[f] = t[2]
    BY NotLost
  <2>2. OneAtWork(S, f)
    BY <2>1 DEF Sound
  <2>3. CASE f # e
    BY ZenonT(60), <1>2, <1>3, <1>4, <1>8, <1>9, <2>1, <2>2, <2>3, StillAtWork
  <2>4. CASE f = e /\ S.queue[e] = << >>
    <3>1. AtWork(S, e) = {}
      BY <2>2, <2>4 DEF OneAtWork, Claimed
    <3>. QED BY <1>9, <2>1, <2>4, <3>1 DEF OneAtWork, Claimed
  <2>5. CASE f = e /\ S.queue[e] # << >>
    <3>1. Claimed(R, f)
      BY <1>3, <1>6, <2>5 DEF Claimed
    <3>. QED BY <1>8, <1>9, <2>1, <2>2, <2>5, <3>1 DEF OneAtWork
  <2>. QED BY <2>3, <2>4, <2>5
<1>15. Headed(R)
  BY <1>3, <1>6, <1>8 DEF Headed
<1>16. \A f \in Elements \ left : Attended(R, f)
  <2>. TAKE f \in Elements \ left
  <2>1. Attended(S, f) /\ ~Due(S, f)
    BY <1>5 DEF Sound
  <2>2. CASE f = e /\ S.queue[e] = << >>
    BY <1>8, <2>2 DEF Attended
  <2>3. CASE f # e \/ S.queue[e] # << >>
    <3>1. R.queue[f] # << >> => S.queue[f] # << >>
      BY <1>3, <2>3
    <3>. QED BY <1>4, <1>9, <2>1, <3>1 DEF Attended
  <2>. QED BY <2>2, <2>3
<1>17. Ordered(R.queue[e])
  <2>1. Ordered(S.queue[e])
    BY <1>10 DEF Sound, InOrder
  <2>2. ASSUME NEW j \in DOMAIN R.queue[e], NEW k \in DOMAIN R.queue[e], j < k
        PROVE  /\ R.queue[e][j].id <= R.queue[e][k].id
               /\ R.queue[e][j].part = 0 => R.queue[e][j].id < R.queue[e][k].id
    <3>1. j \in DOMAIN S.queue[e]
      BY <1>3, <2>2
    <3>2. CASE k \in DOMAIN S.queue[e]
      BY <1>3, <2>1, <2>2, <3>1, <3>2 DEF Ordered
    <3>3. CASE k \notin DOMAIN S.queue[e]
      <4>1. R.queue[e][k] = it /\ R.queue[e][j] = S.queue[e][j] /\ S.queue[e][j].id < it.id
        BY <1>3, <3>1, <3>3 DEF Behind
      <4>2. it.id \in Nat /\ S.queue[e][j].id \in Nat
        <5>1. S.queue[e][j] \in Item
          BY <1>1, <3>1, QueueType
        <5>. QED BY <5>1, ItemTypes DEF Item, Ids
      <4>. QED BY <4>1, <4>2
    <3>. QED BY <3>2, <3>3
  <2>. QED BY <2>2 DEF Ordered
<1>18. InOrder(R)
  <2>1. ASSUME NEW f \in Elements PROVE Ordered(R.queue[f])
    BY <1>3, <1>10, <1>17 DEF Sound, InOrder
  <2>2. ASSUME NEW f \in Elements, NEW m \in DOMAIN R.begun[f], NEW k \in DOMAIN R.queue[f],
               R.queue[f][k] # inprogress
        PROVE  R.begun[f][m] <= R.queue[f][k].id
    <3>1. CASE f = e /\ k = n
      BY <1>3, <1>4, <2>2, <3>1 DEF Behind
    <3>2. CASE ~(f = e /\ k = n)
      <4>1. k \in DOMAIN S.queue[f] /\ R.queue[f][k] = S.queue[f][k]
        BY <1>3, <3>2
      <4>. QED BY <1>4, <1>10, <2>2, <4>1 DEF Sound, InOrder
    <3>. QED BY <3>1, <3>2
  <2>. QED BY <1>4, <1>10, <2>1, <2>2 DEF Sound, InOrder
<1>19. ASSUME NEW i \in Ids
       PROVE  /\ i # it.id => Waits(R, i) \subseteq Waits(S, i)
              /\ Waits(R, i) \subseteq Waits(S, i) \cup {e}
  <2>1. ASSUME NEW f \in Elements, NEW k \in DOMAIN R.queue[f], R.queue[f][k].id = i
        PROVE  f \in Waits(S, i) \/ (f = e /\ i = it.id)
    <3>1. CASE f = e /\ k = n
      BY <1>3, <2>1, <3>1
    <3>2. CASE ~(f = e /\ k = n)
      <4>1. k \in DOMAIN S.queue[f] /\ R.queue[f][k] = S.queue[f][k]
        BY <1>3, <3>2
      <4>. QED BY <1>10, <2>1, <4>1 DEF Waits
    <3>. QED BY <3>1, <3>2
  <2>. QED BY <1>10, <2>1 DEF Waits
<1>20. ASSUME NEW i \in Ids
       PROVE  InOnePlace(R, i) /\ (Fresh(S, i) /\ i # it.id => Fresh(R, i))
  <2>1. InOnePlace(S, i)
    BY DEF Sound, Placed
  <2>2. CASE i # it.id
    BY <1>4, <1>9, <1>19, <2>1, <2>2, FewerPlaces
  <2>3. CASE i = it.id
    <3>1. /\ ~Over(R, i) /\ Calls(R, i) = {} /\ Sleeps(R, i) = {} /\ ~Second(R, i)
          /\ Waits(R, i) \subseteq {e}
      BY <1>9, <1>19, <2>3 DEF Fresh
    <3>2. R.completed[i] <= 1 /\ (i \in R.cut => R.completed[i] = 0)
      BY <1>4, <2>1 DEF InOnePlace
    <3>. QED BY <2>3, <3>1, <3>2 DEF InOnePlace
  <2>. QED BY <2>2, <2>3
<1>21. NoneToCome(R, c)
  <2>1. ASSUME NEW i \in Ids, i > c PROVE Fresh(R, i)
    <3>1. Fresh(S, i)
      BY <2>1 DEF Sound, NoneToCome
    <3>2. i # it.id
      <4>1. it.id \in Nat /\ i \in Nat
        BY ItemTypes DEF Ids
      <4>. QED BY <2>1, <4>1
    <3>. QED BY <1>20, <3>1, <3>2
  <2>2. R.loop.do = "effect" => R.queue[box] = S.queue[box]
    BY <1>3, <1>4 DEF Elements
  <2>. QED BY <1>4, <2>1, <2>2 DEF Sound, NoneToCome
<1>. QED BY <1>11, <1>12, <1>13, <1>14, <1>15, <1>16, <1>18, <1>20, <1>21 DEF Sound, Placed

(* Later calls may come. *)
LEMMA MoreCalls ==
    ASSUME NEW S, NEW c \in Nat, NEW d \in Nat, c <= d, NEW lost, NEW left,
           Sound(S, c, lost, left)
    PROVE  Sound(S, d, lost, left)
<1>1. S \in State
  BY DEF Sound, Typed
<1>2. \A e \in Elements : \A m \in DOMAIN S.begun[e] : S.begun[e][m] <= d
  <2>. TAKE e \in Elements
  <2>. TAKE m \in DOMAIN S.begun[e]
  <2>1. S.begun[e][m] \in Nat /\ S.begun[e][m] <= c
    BY <1>1, BegunType DEF Sound, NoneToCome, Ids
  <2>. QED BY <2>1
<1>3. \A i \in Ids : i > d => Fresh(S, i)
  <2>1. \A i \in Ids : i > d => i > c
    BY DEF Ids
  <2>. QED BY <2>1 DEF Sound, NoneToCome
<1>4. NoneToCome(S, d)
  BY <1>2, <1>3 DEF Sound, NoneToCome
<1>. QED BY <1>4 DEF Sound

(* What is called now comes after all that was called before. *)
LEMMA CallsBehind ==
    ASSUME NEW S, NEW c \in Nat, NEW lost, NEW left, Sound(S, c, lost, left),
           S.loop.do # "finish", NEW e \in Elements, NEW it \in Job, it.id > c
    PROVE  Fresh(S, it.id) /\ Behind(S, e, it)
<1>1. S \in State /\ it.id \in Ids /\ it.id \in Nat /\ it.id > 0
  BY ItemTypes DEF Sound, Typed, Ids
<1>2. Fresh(S, it.id)
  BY <1>1 DEF Sound, NoneToCome
<1>3. \A m \in DOMAIN S.begun[e] : S.begun[e][m] <= it.id
  <2>. TAKE m \in DOMAIN S.begun[e]
  <2>1. S.begun[e][m] \in Nat /\ S.begun[e][m] <= c
    BY <1>1, BegunType DEF Sound, NoneToCome, Ids
  <2>. QED BY <1>1, <2>1
<1>4. \A k \in DOMAIN S.queue[e] : S.queue[e][k].id < it.id
  <2>. TAKE k \in DOMAIN S.queue[e]
  <2>. DEFINE x == S.queue[e][k]
  <2>1. x \in Item /\ Waiting(S, e) = S.queue[e]
    BY <1>1, QueueType, OwnQueue
  <2>2. CASE x = inprogress
    BY <1>1, <2>2, ItemTypes
  <2>3. CASE x # inprogress
    <3>1. x.id \in Ids /\ x.id \in Nat
      BY <2>1, <2>3, ItemTypes DEF Item, Ids
    <3>2. ~(x.id > c)
      <4>1. ASSUME x.id > c PROVE FALSE
        <5>1. Waits(S, x.id) = {}
          BY <3>1, <4>1 DEF Sound, NoneToCome, Fresh
        <5>2. e \in Waits(S, x.id)
          BY <2>1 DEF Waits
        <5>. QED BY <5>1, <5>2
      <4>. QED BY <4>1
    <3>. QED BY <1>1, <3>1, <3>2
  <2>. QED BY <2>2, <2>3
<1>. QED BY <1>2, <1>3, <1>4 DEF Behind

(* animate and delay *)
LEMMA CallStep ==
    ASSUME NEW S, NEW c \in Nat, NEW lost, NEW left, Sound(S, c, lost, left), Quiet(S),
           S.loop.do = "none", NEW e \in Widgets, NEW it \in Job, it.id = c + 1,
           it.op \in {"animate", "delay"}, it.part = 0,
           NEW R, R = queue(S, e, it)
    PROVE  Sound(R, c + 1, Lost(lost, R), left)
<1>1. e \in Elements /\ e # title /\ e # box
  BY EffectsAssumption DEF Elements
<1>2. Sound(S, c + 1, lost, left)
  BY MoreCalls
<1>3. Fits(e, it)
  BY <1>1 DEF Fits
<1>5. it.id > c
  OBVIOUS
<1>4. Fresh(S, it.id) /\ Behind(S, e, it)
  BY <1>1, <1>5, CallsBehind
<1>. QED BY <1>1, <1>2, <1>3, <1>4, QueueStep

-----------------------------------------------------------------------------
(* highlightBox.  The second effect is left for the rest of the turn. *)

(* Between that, and no loop. *)
LEMMA EffectLoop ==
    ASSUME NEW S, NEW c \in Nat, NEW lost, NEW left, Sound(S, c, lost, left), Quiet(S),
           S.loop.do \in {"none", "effect"},
           NEW R, R \in State, R.loop.do \in {"none", "effect"},
           R.loop.do = "effect" => ~S.removed,
           R.todo = S.todo, R.queue = S.queue, R.stop = S.stop, R.finish = S.finish,
           R.removed = S.removed, SameCalls(S, R), SameClock(S, R)
    PROVE  /\ Typed(R) /\ Shape(R) /\ Swept(R)
           /\ \A e \in Elements \ lost : OneAtWork(R, e)
           /\ Headed(R)
           /\ \A e \in Elements \ left : Attended(R, e)
           /\ InOrder(R)
           /\ Lost(lost, R) = Lost(lost, S)
<1>1. S \in State
  BY DEF Sound, Typed
<1>2. R.timers = S.timers /\ R.timerId = S.timerId /\ R.timeouts = S.timeouts
  BY DEF SameClock
<1>3. /\ \A f \in Elements : AtWork(R, f) = AtWork(S, f)
      /\ \A f \in Elements : Delayed(R, f) = Delayed(S, f)
      /\ \A f \in Elements : Due(R, f) <=> Due(S, f)
  BY <1>2, SameTimers, SameTimeouts DEF Due
<1>4. \A f \in Elements : Waiting(R, f) = Waiting(S, f)
  BY DEF Waiting
<1>5. Typed(R)
  BY DEF Sound, Typed
<1>6. Shape(R)
  BY <1>2 DEF Sound, Shape
<1>7. Swept(R)
  BY DEF Swept, WillDequeue
<1>8. \A e \in Elements \ lost : OneAtWork(R, e)
  BY <1>3 DEF Sound, OneAtWork, Claimed
<1>9. Headed(R) /\ \A e \in Elements \ left : Attended(R, e)
  BY <1>3 DEF Sound, Headed, Attended
<1>10. InOrder(R)
  BY <1>4 DEF Sound, InOrder, SameCalls
<1>11. Lost(lost, R) = Lost(lost, S)
  BY <1>2 DEF Lost, Forgetting
<1>. QED BY <1>5, <1>6, <1>7, <1>8, <1>9, <1>10, <1>11

(* The lock is set. *)
Locks(S, id) == [S EXCEPT !.highlightLock = TRUE, !.loop = [do |-> "effect", id |-> id]]

(* What that changes. *)
LEMMA LocksWay ==
    ASSUME NEW S \in State, NEW id \in Ids, NEW R, R = Locks(S, id)
    PROVE  /\ R \in State /\ R.loop.do = "effect" /\ R.loop.id = id /\ R.todo = S.todo
           /\ R.queue = S.queue /\ R.stop = S.stop /\ R.finish = S.finish
           /\ R.removed = S.removed /\ SameCalls(S, R) /\ SameClock(S, R)
<1>. DEFINE l == [do |-> "effect", id |-> id]
<1>1. l \in Loop /\ l.do = "effect" /\ l.id = id
  BY DEF Loop
<1>2. R = [S EXCEPT !.highlightLock = TRUE, !.loop = l]
  BY DEF Locks
<1>. HIDE DEF l
<1>. QED BY ZenonT(60), <1>1, <1>2 DEF State, SameCalls, SameClock

(* The two calls are made, and the second is to come. *)
LEMMA LocksStep ==
    ASSUME NEW S, NEW c \in Nat, NEW lost, NEW left, Sound(S, c, lost, left), Quiet(S),
           S.loop.do = "none", ~S.removed, c + 2 \in Ids,
           NEW R, R = Locks(S, c + 2)
    PROVE  /\ Sound(R, c + 2, lost, left) /\ Quiet(R)
           /\ R.loop.do = "effect" /\ R.loop.id = c + 2 /\ ~R.removed
           /\ R.queue = S.queue /\ R.begun = S.begun
           /\ \A i \in Ids : i = c + 1 => Fresh(R, i)
<1>1. S \in State
  BY DEF Sound, Typed
<1>2. /\ R \in State /\ R.loop.do = "effect" /\ R.loop.id = c + 2 /\ R.todo = S.todo
      /\ R.queue = S.queue /\ R.stop = S.stop /\ R.finish = S.finish
      /\ R.removed = S.removed /\ SameCalls(S, R) /\ SameClock(S, R)
  BY <1>1, LocksWay
<1>3. /\ Typed(R) /\ Shape(R) /\ Swept(R)
      /\ \A e \in Elements \ lost : OneAtWork(R, e)
      /\ Headed(R)
      /\ \A e \in Elements \ left : Attended(R, e)
      /\ InOrder(R)
  BY <1>2, EffectLoop
<1>4. /\ R.timers = S.timers /\ R.timeouts = S.timeouts
      /\ R.begun = S.begun /\ R.completed = S.completed /\ R.cut = S.cut
  BY <1>2 DEF SameCalls, SameClock
<1>5. \A e \in Elements : Waiting(R, e) = Waiting(S, e) /\ Waiting(S, e) = S.queue[e]
  BY <1>2 DEF Waiting
<1>6. \A i \in Ids : /\ Waits(R, i) = Waits(S, i)
                     /\ Calls(R, i) = Calls(S, i) /\ Sleeps(R, i) = Sleeps(S, i)
                     /\ Second(R, i) <=> i = c + 2
                     /\ Over(R, i) <=> Over(S, i)
  BY <1>2, <1>4, <1>5, SameTimers, SameTimeouts DEF Waits, Second, Over
<1>7. \A i \in Ids : i > c => Fresh(S, i)
  BY DEF Sound, NoneToCome
<1>8. \A i \in Ids : i > c /\ i # c + 2 => Fresh(R, i)
  BY <1>6, <1>7 DEF Fresh
<1>9. ASSUME NEW i \in Ids PROVE InOnePlace(R, i)
  <2>1. InOnePlace(S, i)
    BY DEF Sound, Placed
  <2>2. CASE i # c + 2
    BY <1>4, <1>6, <2>1, <2>2 DEF InOnePlace
  <2>3. CASE i = c + 2
    <3>1. Fresh(S, i)
      BY <1>7, <2>3 DEF Ids
    <3>. QED BY <1>4, <1>6, <2>1, <3>1 DEF InOnePlace, Fresh
  <2>. QED BY <2>2, <2>3
<1>10. NoneToCome(R, c + 2)
  <2>1. Sound(S, c + 2, lost, left)
    BY MoreCalls
  <2>2. \A e \in Elements : \A m \in DOMAIN R.begun[e] : R.begun[e][m] <= c + 2
    BY <1>4, <2>1 DEF Sound, NoneToCome
  <2>3. \A i \in Ids : i > c + 2 => Fresh(R, i)
    BY <1>8 DEF Ids
  <2>4. \A k \in DOMAIN R.queue[box] : R.queue[box][k].id < R.loop.id
    <3>. DEFINE it == [op |-> "bounce", id |-> c + 2, part |-> 0, left |-> 1]
    <3>1. it \in Job /\ it.id = c + 2 /\ it.id > c
      BY DEF Job
    <3>. HIDE DEF it
    <3>2. Behind(S, box, it)
      BY <3>1, CallsBehind DEF Elements
    <3>. QED BY <1>2, <3>1, <3>2 DEF Behind
  <2>. QED BY <1>2, <2>2, <2>3, <2>4 DEF NoneToCome, Elements
<1>11. Quiet(R)
  BY <1>2 DEF Quiet
<1>12. \A i \in Ids : i = c + 1 => Fresh(R, i)
  BY <1>8 DEF Ids
<1>. QED BY <1>2, <1>3, <1>4, <1>9, <1>10, <1>11, <1>12 DEF Sound, Placed

(* The first effect is queued. *)
LEMMA HighlightBoxStep ==
    ASSUME NEW S, NEW c \in Nat, NEW lost, NEW left, Sound(S, c, lost, left), Quiet(S),
           S.loop.do = "none", ~S.removed, c + 2 \in Ids,
           NEW it \in Job, it.id = c + 1, it.op = "highlight", it.part = 0,
           NEW L, L = Locks(S, c + 2), NEW R, R = queue(L, title, it)
    PROVE  Sound(R, c + 2, Lost(lost, R), left)
<1>1. /\ Sound(L, c + 2, lost, left) /\ Quiet(L)
      /\ L.loop.do = "effect" /\ L.loop.id = c + 2 /\ ~L.removed
      /\ L.queue = S.queue /\ L.begun = S.begun
      /\ \A i \in Ids : i = c + 1 => Fresh(L, i)
  BY LocksStep
<1>2. title \in Elements /\ title # box /\ title \notin Widgets
  BY EffectsAssumption DEF Elements
<1>3. Fits(title, it)
  BY <1>2 DEF Fits
<1>4. Fresh(L, it.id) /\ it.id <= c + 2
  BY <1>1, ItemTypes
<1>5. Behind(S, title, it)
  BY SMTT(30), <1>2, CallsBehind
<1>6. Behind(L, title, it)
  BY <1>1, <1>5 DEF Behind
<1>. QED BY <1>1, <1>2, <1>3, <1>4, <1>6, QueueStep

(* No loop is left. *)
NoSecond(S) == [S EXCEPT !.loop = NoLoop]

(* What that changes. *)
LEMMA NoSecondWay ==
    ASSUME NEW S \in State, NEW N, N = NoSecond(S)
    PROVE  /\ N \in State /\ N.loop.do = "none" /\ N.todo = S.todo
           /\ N.queue = S.queue /\ N.stop = S.stop /\ N.finish = S.finish
           /\ N.removed = S.removed /\ SameCalls(S, N) /\ SameClock(S, N)
<1>1. NoLoop \in Loop /\ NoLoop.do = "none"
  BY DEF Loop, NoLoop
<1>2. N = [S EXCEPT !.loop = NoLoop]
  BY DEF NoSecond
<1>. QED BY <1>1, <1>2, LoopWay

(* The second is. *)
LEMMA SecondStep ==
    ASSUME NEW S, NEW c \in Nat, NEW lost, NEW left, Sound(S, c, lost, left), Quiet(S),
           S.loop.do = "effect", NEW N, N = NoSecond(S),
           NEW it \in Job, it.id = S.loop.id, it.op = "bounce", it.part = 0,
           NEW R, R = queue(N, box, it)
    PROVE  Sound(R, c, Lost(lost, R), left)
<1>1. S \in State /\ S.loop.id \in Ids /\ S.loop.id \in Nat
  BY LoopTypes DEF Sound, Typed, Ids
<1>3. /\ N \in State /\ N.loop.do = "none" /\ N.todo = S.todo
      /\ N.queue = S.queue /\ N.stop = S.stop /\ N.finish = S.finish
      /\ N.removed = S.removed /\ SameCalls(S, N) /\ SameClock(S, N)
  BY <1>1, NoSecondWay
<1>4. /\ Typed(N) /\ Shape(N) /\ Swept(N)
      /\ \A e \in Elements \ lost : OneAtWork(N, e)
      /\ Headed(N)
      /\ \A e \in Elements \ left : Attended(N, e)
      /\ InOrder(N)
      /\ Lost(lost, N) = Lost(lost, S)
  BY <1>3, EffectLoop
<1>5. /\ N.timers = S.timers /\ N.timeouts = S.timeouts
      /\ N.begun = S.begun /\ N.completed = S.completed /\ N.cut = S.cut
      /\ N.loop.do = "none"
  BY <1>3 DEF SameCalls, SameClock
<1>6. \A i \in Ids : Waits(N, i) = Waits(S, i) /\ ~Second(N, i)
  <2>1. \A e \in Elements : Waiting(N, e) = Waiting(S, e)
    BY <1>3, <1>5 DEF Waiting
  <2>. QED BY <1>5, <2>1 DEF Waits, Second
<1>7. \A i \in Ids : /\ Calls(N, i) = Calls(S, i) /\ Sleeps(N, i) = Sleeps(S, i)
                     /\ Over(N, i) <=> Over(S, i)
  BY <1>5, SameTimers, SameTimeouts DEF Over
<1>8. ASSUME NEW i \in Ids
      PROVE  InOnePlace(N, i) /\ (Fresh(S, i) => Fresh(N, i))
  <2>1. InOnePlace(S, i)
    BY DEF Sound, Placed
  <2>. QED BY <1>5, <1>6, <1>7, <2>1, FewerPlaces
<1>9. Placed(N) /\ NoneToCome(N, c)
  BY <1>5, <1>8 DEF Placed, Sound, NoneToCome
<1>10. Sound(N, c, lost, left)
  BY <1>4, <1>9 DEF Sound
<1>11. Fresh(N, it.id)
  <2>1. InOnePlace(S, it.id) /\ Second(S, it.id)
    BY <1>1 DEF Sound, Placed, Second
  <2>. QED BY <1>1, <1>6, <1>7, <2>1 DEF InOnePlace, Fresh
<1>12. it.id <= c
  <2>1. ~(it.id > c)
    BY <1>1 DEF Sound, NoneToCome, Fresh, Second
  <2>. QED BY <1>1, <2>1
<1>13. Behind(N, box, it)
  BY <1>3, <1>5 DEF Behind, Sound, NoneToCome
<1>14. box \in Elements /\ box # title /\ box \notin Widgets
  BY EffectsAssumption DEF Elements
<1>15. Fits(box, it)
  BY <1>14 DEF Fits
<1>16. Quiet(N) /\ ~N.removed
  BY <1>3 DEF Quiet, Sound, Shape
<1>. QED BY <1>5, <1>10, <1>11, <1>12, <1>13, <1>14, <1>15, <1>16, QueueStep

-----------------------------------------------------------------------------
(* animate with the option queue: false.  Nothing waits for its end.       *)
LEMMA UnqueuedStep ==
    ASSUME NEW S, NEW c \in Nat, NEW lost, NEW left, Sound(S, c, lost, left), Quiet(S),
           S.loop.do = "none",
           NEW a \in Timer, a.elem \in Widgets, a.id = c + 1, a.part = 0,
           ~a.dequeues, ~a.settled,
           NEW R, R = Animation(S, a)
    PROVE  Sound(R, c + 1, Lost(lost, R), left)
<1>1. S \in State /\ a.id \in Ids /\ a.dequeues \in BOOLEAN
  BY TimerFields DEF Sound, Typed
<1>2. /\ R \in State /\ SameQueues(S, R) /\ R.timeouts = S.timeouts /\ R.cut = S.cut
      /\ (S.timers # << >> => S.timerId) => (R.timers # << >> => R.timerId)
      /\ R.begun = S.begun
      /\ Longer(S, R, a)
      /\ IF a.left = 0 \/ S.finish[a.elem] THEN Flashes(S, R, a) ELSE Joins(S, R, a)
  BY ZenonT(60), <1>1, AnimationWay
<1>3. /\ R.queue = S.queue /\ R.stop = S.stop /\ R.loop = S.loop /\ R.removed = S.removed
      /\ R.finish = S.finish
  BY <1>2 DEF SameQueues
<1>. DEFINE flash == a.left = 0 \/ S.finish[a.elem]
<1>4. /\ flash => Flashes(S, R, a)
      /\ ~flash => Joins(S, R, a)
  BY <1>2
<1>. HIDE DEF flash
<1>5. a.dequeues = FALSE
  BY <1>1
<1>6. Sound(S, c + 1, lost, left)
  BY MoreCalls
<1>7. /\ \A k \in DOMAIN R.todo : k > 1 => R.todo[k].do = "always"
      /\ \A f \in Elements : ~Due(R, f) /\ ~Due(S, f)
  <2>1. CASE flash
    BY <1>1, <1>4, <1>5, <2>1, QuietDue DEF Flashes, NextIs
  <2>2. CASE ~flash
    <3>1. Quiet(R)
      BY <1>4, <2>2 DEF Joins, Quiet
    <3>. QED BY <1>1, <1>2, <3>1, QuietDue
  <2>. QED BY <2>1, <2>2
<1>8. \A f \in Elements : AtWork(R, f) = AtWork(S, f)
  <2>1. CASE flash
    BY <1>4, <2>1 DEF Flashes
  <2>2. CASE ~flash
    <3>1. \A f \in Elements : AtWork(R, f) = AtWork(S, f) \cup
             (IF a.dequeues /\ f = a.elem THEN {Len(R.timers)} ELSE {})
      BY <1>4, <2>2 DEF Joins
    <3>. QED BY <3>1
  <2>. QED BY <2>1, <2>2
<1>9. /\ \A f \in Elements : Delayed(R, f) = Delayed(S, f)
      /\ \A i \in Ids : Sleeps(R, i) = Sleeps(S, i)
  BY <1>2, SameTimeouts
<1>10. /\ \A f \in Elements : Waiting(R, f) = Waiting(S, f)
       /\ \A i \in Ids : Waits(R, i) = Waits(S, i) /\ (Second(R, i) <=> Second(S, i))
  BY <1>3, SameWaiting
<1>11. Typed(R)
  BY <1>2, <1>3 DEF Sound, Typed
<1>12. Shape(R)
  <2>1. \A j \in DOMAIN R.timers : R.timers[j].elem \in Widgets =>
            R.timers[j].part = 0 /\ (R.timers[j].dequeues => R.timers[j].queued)
    <3>. TAKE j \in DOMAIN R.timers
    <3>1. CASE j \in DOMAIN S.timers
      <4>1. R.timers[j] = S.timers[j]
        BY <1>2, <3>1 DEF Longer
      <4>. QED BY <3>1, <4>1 DEF Sound, Shape
    <3>2. CASE j \notin DOMAIN S.timers
      <4>1. /\ R.timers[j].elem = a.elem /\ R.timers[j].part = a.part
            /\ R.timers[j].queued = a.queued /\ R.timers[j].dequeues = a.dequeues
        BY <1>2, <3>2 DEF Longer
      <4>. QED BY <4>1
    <3>. QED BY <3>1, <3>2
  <2>2. R.timers # << >> => R.timerId
    BY <1>2 DEF Sound, Shape
  <2>3. R.loop.do = "none"
    BY <1>3
  <2>. QED BY <1>2, <1>3, <1>7, <2>1, <2>2, <2>3 DEF Sound, Shape
<1>13. Swept(R)
  BY <1>3 DEF Swept, WillDequeue
<1>14. \A f \in Elements \ Lost(lost, R) : OneAtWork(R, f)
  <2>. TAKE f \in Elements \ Lost(lost, R)
  <2>1. f \notin lost /\ \A t \in Delayed(R, f) : R.stop[f] = t[2]
    BY NotLost
  <2>2. OneAtWork(S, f)
    BY <2>1 DEF Sound
  <2>3. /\ AtWork(R, f) \subseteq AtWork(S, f) /\ Delayed(R, f) \subseteq Delayed(S, f)
        /\ ~Due(R, f)
    BY <1>7, <1>8, <1>9
  <2>. QED BY <1>3, <2>1, <2>2, <2>3, StillAtWork
<1>15. Headed(R)
  BY <1>3, <1>7 DEF Sound, Headed
<1>16. \A f \in Elements \ left : Attended(R, f)
  <2>1. S.loop.do # "stop"
    OBVIOUS
  <2>. QED BY <1>3, <1>7, <1>8, <1>9, <2>1 DEF Sound, Attended
<1>17. InOrder(R)
  BY <1>2, <1>10 DEF Sound, InOrder
<1>18. Fresh(S, a.id)
  <2>1. a.id > c
    OBVIOUS
  <2>. QED BY <1>1, <2>1 DEF Sound, NoneToCome
<1>19. ASSUME NEW i \in Ids
       PROVE  InOnePlace(R, i) /\ (Fresh(S, i) /\ i # a.id => Fresh(R, i))
  <2>1. InOnePlace(S, i)
    BY DEF Sound, Placed
  <2>2. CASE i # a.id
    <3>1. Calls(R, i) = Calls(S, i) /\ R.completed[i] = S.completed[i]
      <4>1. CASE flash
        BY <1>1, <1>4, <2>2, <4>1 DEF Flashes, State
      <4>2. CASE ~flash
        BY <1>4, <2>2, <4>2 DEF Joins
      <4>. QED BY <4>1, <4>2
    <3>. QED BY <1>2, <1>9, <1>10, <2>1, <3>1, FewerPlaces
  <2>3. CASE i = a.id
    <3>1. Fresh(S, i)
      BY <1>18, <2>3
    <3>2. S.completed[i] = 0 /\ i \notin S.cut
      BY <1>1, <3>1 DEF Fresh, Over, State
    <3>3. CASE flash
      <4>1. Calls(R, i) = {} /\ R.completed[i] = 1 /\ i \notin R.cut
        BY <1>1, <1>2, <1>4, <2>3, <3>1, <3>2, <3>3 DEF Flashes, Fresh, State
      <4>. QED BY <1>9, <1>10, <2>3, <3>1, <4>1 DEF InOnePlace, Fresh
    <3>4. CASE ~flash
      <4>1. Calls(R, i) = {Len(R.timers)} /\ R.completed[i] = 0 /\ i \notin R.cut
        BY <1>2, <1>4, <2>3, <3>1, <3>2, <3>4 DEF Joins, Fresh
      <4>2. ~Over(R, i)
        BY <4>1 DEF Over
      <4>. QED BY <1>9, <1>10, <2>3, <3>1, <4>1, <4>2 DEF InOnePlace, Fresh
    <3>. QED BY <3>3, <3>4
  <2>. QED BY <2>2, <2>3
<1>20. NoneToCome(R, c + 1)
  <2>1. ASSUME NEW i \in Ids, i > c + 1 PROVE Fresh(R, i)
    <3>1. Fresh(S, i)
      BY <1>6, <2>1 DEF Sound, NoneToCome
    <3>2. i # a.id
      BY <2>1
    <3>. QED BY <1>19, <3>1, <3>2
  <2>. QED BY <1>2, <1>3, <1>6, <2>1 DEF Sound, NoneToCome
<1>. QED BY <1>11, <1>12, <1>13, <1>14, <1>15, <1>16, <1>17, <1>19, <1>20 DEF Sound, Placed

-----------------------------------------------------------------------------
(* stop, and the removal of the box: calls are given up that wait or sleep. *)

(* The calls of a queue. *)
LEMMA IdsOf ==
    ASSUME NEW q \in Seq(Item)
    PROVE  /\ IdsIn(q) \subseteq Ids
           /\ \A i \in Ids : i \in IdsIn(q) <=> \E k \in DOMAIN q : q[k].id = i
<1>1. \A k \in DOMAIN q : q[k] \in Item
  BY LenProperties, ElementOfSeq
<1>2. \A k \in DOMAIN q : q[k].id \in Ids \cup {0}
  BY <1>1, ItemTypes DEF Item
<1>3. \A i \in Ids : i # 0
  BY EffectsAssumption DEF Ids
<1>. QED BY <1>2, <1>3 DEF IdsIn

(* Those are in one place still. *)
LEMMA CutPlaced ==
    ASSUME NEW S \in State, NEW R, NEW i \in Ids, InOnePlace(S, i),
           R.completed[i] = S.completed[i], i \in S.cut => i \in R.cut,
           Waits(R, i) \subseteq Waits(S, i), Calls(R, i) \subseteq Calls(S, i),
           Sleeps(R, i) \subseteq Sleeps(S, i), Second(R, i) => Second(S, i),
           i \in R.cut /\ i \notin S.cut =>
               /\ Waits(S, i) # {} \/ Sleeps(S, i) # {}
               /\ Waits(R, i) = {} /\ Sleeps(R, i) = {}
    PROVE  InOnePlace(R, i) /\ (Fresh(S, i) => Fresh(R, i))
<1>1. CASE i \in R.cut <=> i \in S.cut
  BY <1>1, FewerPlaces
<1>2. CASE i \in R.cut /\ i \notin S.cut
  <2>1. ~Over(S, i) /\ Calls(S, i) = {} /\ ~Second(S, i)
    BY <1>2 DEF InOnePlace
  <2>2. R.completed[i] = 0
    BY <2>1 DEF Over, State
  <2>. QED BY <1>2, <2>1, <2>2 DEF InOnePlace, Fresh
<1>. QED BY <1>1, <1>2

(* What stop does up to its loop: the queue of e may go, and s is the      *)
(* delay that its hooks know of then.                                      *)
Stops(S, R, e, clear, gotoEnd, s) ==
    /\ R \in State /\ R.todo = S.todo /\ R.finish = S.finish /\ R.removed = S.removed
    /\ R.timers = S.timers /\ R.timerId = S.timerId
    /\ R.begun = S.begun /\ R.completed = S.completed
    /\ R.loop.do = "stop" /\ R.loop.elem = e /\ R.loop.at = Len(S.timers)
    /\ R.loop.dequeue /\ (R.loop.gotoEnd <=> gotoEnd)
    /\ R.queue = IF clear THEN [S.queue EXCEPT ![e] = << >>] ELSE S.queue
    /\ ~clear => s = S.stop[e]
    /\ R.timeouts = S.timeouts \ {<<e, s>>}
    /\ \A i \in Ids : i \in R.cut <=> \/ i \in S.cut
                                      \/ clear /\ i \in IdsIn(S.queue[e])
                                      \/ i = s /\ <<e, i>> \in S.timeouts

(* clearQueue *)
LEMMA ClearWay ==
    ASSUME NEW S \in State, NEW e \in Elements, NEW C, C = clearQueue(S, e)
    PROVE  /\ C \in State /\ C.queue = [S.queue EXCEPT ![e] = << >>] /\ C.todo = S.todo
           /\ SameTurn(S, C) /\ SameClock(S, C)
           /\ C.begun = S.begun /\ C.completed = S.completed
           /\ C.cut = S.cut \cup IdsIn(S.queue[e])
<1>. DEFINE x == IdsIn(S.queue[e])
            M == [S EXCEPT !.cut = @ \cup x]
<1>1. x \subseteq Ids
  BY QueueType, IdsOf
<1>2. C = emptied(M, e) /\ x = IdsIn(S.queue[e])
  BY DEF clearQueue
<1>. HIDE DEF x
<1>3. /\ M \in State /\ M.queue = S.queue /\ M.todo = S.todo /\ SameTurn(S, M)
      /\ SameClock(S, M) /\ M.begun = S.begun /\ M.completed = S.completed
      /\ M.cut = S.cut \cup x
  BY <1>1 DEF State, SameTurn, SameClock
<1>. HIDE DEF M
<1>4. /\ C \in State /\ C.queue = [M.queue EXCEPT ![e] = << >>] /\ C.todo = M.todo
      /\ SameTurn(M, C) /\ SameCalls(M, C) /\ SameClock(M, C)
  BY <1>2, <1>3, EmptiedWay
<1>. QED BY <1>2, <1>3, <1>4 DEF SameTurn, SameCalls, SameClock

(* Up to the hooks ... *)
Cleared(S, e, clear) == IF clear THEN clearQueue(S, e) ELSE S

(* ... and with them. *)
Unhooked(C, e, s) ==
    [C EXCEPT !.timeouts = @ \ {<<e, s>>}, !.stop[e] = 0,
              !.cut = @ \cup { i \in Ids : i = s /\ <<e, i>> \in C.timeouts }]

(* The timeout of the delay is cleared. *)
LEMMA UnhookedWay ==
    ASSUME NEW C \in State, NEW e \in Elements, NEW s, NEW H, H = Unhooked(C, e, s)
    PROVE  /\ H \in State /\ H.queue = C.queue /\ H.todo = C.todo /\ SameTurn(C, H)
           /\ H.timers = C.timers /\ H.timerId = C.timerId
           /\ H.begun = C.begun /\ H.completed = C.completed
           /\ H.timeouts = C.timeouts \ {<<e, s>>}
           /\ H.cut = C.cut \cup { i \in Ids : i = s /\ <<e, i>> \in C.timeouts }
<1>. DEFINE P == [C.stop EXCEPT ![e] = 0]
            T == C.timeouts \ {<<e, s>>}
            X == C.cut \cup { i \in Ids : i = s /\ <<e, i>> \in C.timeouts }
<1>1. P \in [Elements -> Nat] /\ T \in SUBSET (Elements \X Ids) /\ X \in SUBSET Ids
  BY DEF State
<1>2. H = [C EXCEPT !.timeouts = T, !.stop = P, !.cut = X]
  BY DEF Unhooked
<1>3. /\ T = C.timeouts \ {<<e, s>>}
      /\ X = C.cut \cup { i \in Ids : i = s /\ <<e, i>> \in C.timeouts }
  OBVIOUS
<1>. HIDE DEF P, T, X
<1>4. /\ H \in State /\ H.queue = C.queue /\ H.todo = C.todo /\ SameTurn(C, H)
      /\ H.timers = C.timers /\ H.timerId = C.timerId
      /\ H.begun = C.begun /\ H.completed = C.completed
      /\ H.timeouts = T /\ H.cut = X
  BY ZenonT(60), <1>1, <1>2 DEF State, SameTurn
<1>. QED BY <1>3, <1>4

(* stop, up to its loop, in terms of what it changes. *)
LEMMA StopWay ==
    ASSUME NEW S \in State, NEW e \in Widgets, NEW clear \in BOOLEAN, NEW gotoEnd \in BOOLEAN,
           NEW R, R = stop(S, e, clear, gotoEnd)
    PROVE  \E s \in Nat : Stops(S, R, e, clear, gotoEnd, s)
<1>. DEFINE C == Cleared(S, e, clear)
            s == C.stop[e]
            H == IF s = 0 THEN C ELSE Unhooked(C, e, s)
            l == [do |-> "stop", elem |-> e, at |-> Len(H.timers),
                  gotoEnd |-> gotoEnd, dequeue |-> TRUE]
<1>1. R = [H EXCEPT !.loop = l]
  BY DEF stop, Cleared, Unhooked
<1>2. e \in Elements
  BY DEF Elements
<1>3. /\ C \in State /\ C.todo = S.todo /\ SameTurn(S, C) /\ SameClock(S, C)
      /\ C.begun = S.begun /\ C.completed = S.completed
      /\ C.queue = IF clear THEN [S.queue EXCEPT ![e] = << >>] ELSE S.queue
      /\ \A i \in Ids : i \in C.cut <=> i \in S.cut \/ (clear /\ i \in IdsIn(S.queue[e]))
      /\ ~clear => s = S.stop[e]
  <2>1. CASE clear
    <3>1. C = clearQueue(S, e)
      BY <2>1 DEF Cleared
    <3>. HIDE DEF C
    <3>2. /\ C \in State /\ C.queue = [S.queue EXCEPT ![e] = << >>] /\ C.todo = S.todo
          /\ SameTurn(S, C) /\ SameClock(S, C)
          /\ C.begun = S.begun /\ C.completed = S.completed
          /\ C.cut = S.cut \cup IdsIn(S.queue[e])
      BY <1>2, <3>1, ClearWay
    <3>. QED BY <2>1, <3>2
  <2>2. CASE ~clear
    <3>1. C = S
      BY <2>2 DEF Cleared
    <3>. QED BY <2>2, <3>1 DEF SameTurn, SameClock
  <2>. QED BY <2>1, <2>2
<1>. HIDE DEF C
<1>4. s \in Nat
  BY <1>2, <1>3 DEF State
<1>. HIDE DEF s
<1>5. /\ H \in State /\ H.queue = C.queue /\ H.todo = C.todo /\ SameTurn(C, H)
      /\ H.timers = C.timers /\ H.timerId = C.timerId
      /\ H.begun = C.begun /\ H.completed = C.completed
      /\ H.timeouts = C.timeouts \ {<<e, s>>}
      /\ \A i \in Ids : i \in H.cut <=> i \in C.cut \/ (i = s /\ <<e, i>> \in C.timeouts)
  <2>1. CASE s = 0
    <3>1. \A i \in Ids : i # s
      BY <2>1, EffectsAssumption DEF Ids
    <3>2. C.timeouts \subseteq Elements \X Ids
      BY <1>3 DEF State
    <3>3. <<e, s>> \notin C.timeouts
      BY <3>1, <3>2
    <3>4. H = C
      BY <2>1
    <3>5. C.timeouts = C.timeouts \ {<<e, s>>}
      BY <3>3
    <3>. QED BY <1>3, <3>1, <3>4, <3>5 DEF SameTurn
  <2>2. CASE s # 0
    <3>1. H = Unhooked(C, e, s)
      BY <2>2
    <3>. HIDE DEF H
    <3>2. /\ H \in State /\ H.queue = C.queue /\ H.todo = C.todo /\ SameTurn(C, H)
          /\ H.timers = C.timers /\ H.timerId = C.timerId
          /\ H.begun = C.begun /\ H.completed = C.completed
          /\ H.timeouts = C.timeouts \ {<<e, s>>}
          /\ H.cut = C.cut \cup { i \in Ids : i = s /\ <<e, i>> \in C.timeouts }
      BY <1>2, <1>3, <3>1, UnhookedWay
    <3>. QED BY <3>2
  <2>. QED BY <2>1, <2>2
<1>. HIDE DEF H
<1>6. H.timers = S.timers /\ H.timerId = S.timerId /\ C.timeouts = S.timeouts
  BY <1>3, <1>5 DEF SameClock
<1>7. Len(S.timers) \in Nat
  BY TimersType
<1>8. /\ l \in Loop /\ l.do = "stop" /\ l.elem = e /\ l.at = Len(S.timers)
      /\ l.dequeue /\ (l.gotoEnd <=> gotoEnd)
  BY <1>6, <1>7 DEF Loop
<1>. HIDE DEF l
<1>9. /\ R \in State /\ R.loop = l /\ R.todo = H.todo
      /\ R.queue = H.queue /\ R.stop = H.stop /\ R.finish = H.finish
      /\ R.removed = H.removed /\ SameCalls(H, R) /\ SameClock(H, R)
  BY <1>1, <1>5, <1>8, LoopWay
<1>10. /\ R.todo = S.todo /\ R.finish = S.finish /\ R.removed = S.removed
       /\ R.timers = S.timers /\ R.timerId = S.timerId
       /\ R.begun = S.begun /\ R.completed = S.completed
       /\ R.queue = C.queue /\ R.timeouts = S.timeouts \ {<<e, s>>} /\ R.cut = H.cut
  BY <1>3, <1>5, <1>6, <1>9 DEF SameTurn, SameCalls, SameClock
<1>11. \A i \in Ids : i \in R.cut <=> \/ i \in S.cut
                                      \/ clear /\ i \in IdsIn(S.queue[e])
                                      \/ i = s /\ <<e, i>> \in S.timeouts
  BY <1>3, <1>5, <1>6, <1>10
<1>12. Stops(S, R, e, clear, gotoEnd, s)
  BY <1>3, <1>8, <1>9, <1>10, <1>11 DEF Stops
<1>. QED BY <1>4, <1>12

(* stop, up to its loop.  A delay of e that it ends leaves e stranded, if  *)
(* the loop will run another animation to its end.                         *)
LEMMA StopStep ==
    ASSUME NEW S, NEW c \in Nat, NEW lost, NEW left, Sound(S, c, lost, left), Quiet(S),
           S.loop.do = "none", NEW e \in Widgets, NEW clear \in BOOLEAN,
           NEW gotoEnd \in BOOLEAN, NEW s, NEW R, Stops(S, R, e, clear, gotoEnd, s),
           NEW more, left \subseteq more,
           <<e, S.stop[e]>> \in S.timeouts /\ gotoEnd /\ HasTimer(S, e) => e \in more
    PROVE  Sound(R, c, Lost(lost, R), more)
<1>1. S \in State /\ e \in Elements
  BY DEF Sound, Typed, Elements
<1>2. /\ R \in State /\ R.todo = S.todo /\ R.finish = S.finish /\ R.removed = S.removed
      /\ R.timers = S.timers /\ R.timerId = S.timerId
      /\ R.begun = S.begun /\ R.completed = S.completed
      /\ R.loop.do = "stop" /\ R.loop.elem = e /\ R.loop.at = Len(S.timers)
      /\ R.loop.dequeue /\ (R.loop.gotoEnd <=> gotoEnd)
      /\ ~clear => s = S.stop[e]
      /\ R.timeouts = S.timeouts \ {<<e, s>>}
      /\ \A i \in Ids : i \in R.cut <=> \/ i \in S.cut
                                        \/ clear /\ i \in IdsIn(S.queue[e])
                                        \/ i = s /\ <<e, i>> \in S.timeouts
  BY DEF Stops
<1>3. /\ \A f \in Elements : f # e => R.queue[f] = S.queue[f]
      /\ clear => R.queue[e] = << >>
      /\ ~clear => R.queue[e] = S.queue[e]
  BY <1>1, QueueType DEF Stops
<1>4. /\ DOMAIN S.timers = 1..Len(S.timers) /\ Len(S.timers) \in Nat
  BY <1>1, TimersType
<1>5. /\ \A f \in Elements : AtWork(R, f) = AtWork(S, f) /\ (HasTimer(R, f) <=> HasTimer(S, f))
      /\ \A i \in Ids : Calls(R, i) = Calls(S, i)
  BY <1>2, SameTimers
<1>6. /\ \A f \in Elements : Delayed(R, f) \subseteq Delayed(S, f)
      /\ \A f \in Elements : f # e => Delayed(R, f) = Delayed(S, f)
      /\ \A i \in Ids : Sleeps(R, i) \subseteq Sleeps(S, i)
  BY <1>2 DEF Delayed, Sleeps
<1>7. /\ \A k \in DOMAIN R.todo : k > 1 => R.todo[k].do = "always"
      /\ \A f \in Elements : ~Due(R, f) /\ ~Due(S, f)
  BY <1>1, <1>2, QuietDue DEF Due
<1>8. \A f \in Elements : Waiting(R, f) = R.queue[f] /\ Waiting(S, f) = S.queue[f]
  BY <1>2 DEF Waiting
<1>9. Typed(R)
  BY <1>2 DEF Sound, Typed
<1>10. Shape(R)
  <2>1. \A f \in Elements : \A k \in DOMAIN R.queue[f] : Fits(f, R.queue[f][k])
    <3>. TAKE f \in Elements
    <3>1. R.queue[f] = S.queue[f] \/ R.queue[f] = << >>
      BY <1>3
    <3>. QED BY <3>1 DEF Sound, Shape
  <2>2. R.loop.at <= Len(R.timers)
    BY <1>2, <1>4
  <2>3. R.timeouts \subseteq Widgets \X Ids
    BY <1>2 DEF Sound, Shape
  <2>. QED BY <1>2, <1>7, <2>1, <2>2, <2>3 DEF Sound, Shape
<1>11. Swept(R)
  <2>1. \A j \in DOMAIN R.timers : ~(j > R.loop.at)
    BY <1>2, <1>4
  <2>. QED BY <1>7, <2>1 DEF Swept
<1>12. \A f \in Elements \ Lost(lost, R) : OneAtWork(R, f)
  <2>. TAKE f \in Elements \ Lost(lost, R)
  <2>1. f \notin lost /\ \A t \in Delayed(R, f) : R.stop[f] = t[2]
    BY NotLost
  <2>2. OneAtWork(S, f)
    BY <2>1 DEF Sound
  <2>3. Claimed(R, f)
    <3>1. CASE f = e
      <4>1. \A j \in AtWork(R, f) : j <= R.loop.at
        BY <1>2, <1>4 DEF AtWork
      <4>. QED BY <1>2, <3>1, <4>1 DEF Claimed
    <3>2. CASE f # e
      BY <1>2, <1>3, <1>5, <2>2, <3>2 DEF OneAtWork, Claimed
    <3>. QED BY <3>1, <3>2
  <2>4. Delayed(R, f) # {} => Delayed(S, f) # {}
    BY <1>6
  <2>. QED BY <1>5, <1>7, <2>1, <2>2, <2>3, <2>4 DEF OneAtWork
<1>13. Headed(R)
  BY <1>3, <1>7 DEF Sound, Headed
<1>14. \A f \in Elements \ more : Attended(R, f)
  <2>. TAKE f \in Elements \ more
  <2>1. Attended(S, f) /\ ~Due(S, f)
    BY <1>7 DEF Sound
  <2>2. CASE f # e
    BY <1>2, <1>3, <1>5, <1>6, <2>1, <2>2 DEF Attended
  <2>3. CASE f = e /\ clear
    BY <1>3, <2>3 DEF Attended
  <2>4. CASE f = e /\ ~clear
    <3>1. CASE AtWork(S, e) # {} \/ S.queue[e] = << >> \/ Delayed(R, e) # {}
      BY <1>3, <1>5, <2>4, <3>1 DEF Attended
    <3>2. CASE AtWork(S, e) = {} /\ S.queue[e] # << >> /\ Delayed(R, e) = {}
      <4>1. Delayed(S, e) # {}
        BY <2>1, <2>4, <3>2 DEF Attended
      <4>2. PICK t \in Delayed(S, e) : TRUE
        BY <4>1
      <4>3. t \in S.timeouts /\ t[1] = e /\ t \notin R.timeouts
        BY <3>2, <4>2 DEF Delayed
      <4>4. t = <<e, s>>
        BY <1>2, <4>3
      <4>5. <<e, S.stop[e]>> \in S.timeouts
        BY <1>2, <2>4, <4>3, <4>4
      <4>6. gotoEnd => ~HasTimer(R, e)
        BY <1>5, <1>1, <2>4, <4>5
      <4>. QED BY <1>2, <2>4, <4>6 DEF Attended
    <3>. QED BY <3>1, <3>2
  <2>. QED BY <2>2, <2>3, <2>4
<1>15. InOrder(R)
  <2>1. \A f \in Elements : R.queue[f] = S.queue[f] \/ R.queue[f] = << >>
    BY <1>3
  <2>2. ASSUME NEW f \in Elements
        PROVE  /\ Ordered(R.queue[f])
               /\ \A m \in DOMAIN R.begun[f], k \in DOMAIN R.queue[f] :
                     R.queue[f][k] # inprogress => R.begun[f][m] <= R.queue[f][k].id
    <3>1. CASE R.queue[f] = S.queue[f]
      BY <1>2, <1>8, <3>1 DEF Sound, InOrder
    <3>2. CASE R.queue[f] = << >>
      BY <3>2 DEF Ordered
    <3>. QED BY <2>1, <3>1, <3>2
  <2>. QED BY <1>2, <1>8, <2>2 DEF Sound, InOrder
<1>16. \A i \in Ids : Waits(R, i) \subseteq Waits(S, i)
  <2>1. \A f \in Elements : R.queue[f] = S.queue[f] \/ R.queue[f] = << >>
    BY <1>3
  <2>2. \A i \in Ids : \A f \in Waits(R, i) : R.queue[f] # << >>
    BY <1>8 DEF Waits
  <2>. QED BY <1>8, <2>1, <2>2 DEF Waits
<1>17. ASSUME NEW i \in Ids
       PROVE  InOnePlace(R, i) /\ (Fresh(S, i) => Fresh(R, i))
  <2>1. InOnePlace(S, i)
    BY DEF Sound, Placed
  <2>2. ASSUME i \in R.cut, i \notin S.cut
        PROVE  /\ Waits(S, i) # {} \/ Sleeps(S, i) # {}
               /\ Waits(R, i) = {} /\ Sleeps(R, i) = {}
    <3>1. CASE clear /\ i \in IdsIn(S.queue[e])
      <4>1. e \in Waits(S, i)
        <5>1. \E k \in DOMAIN S.queue[e] : S.queue[e][k].id = i
          BY <1>1, <3>1, QueueType, IdsOf
        <5>. QED BY <1>1, <1>8, <5>1 DEF Waits
      <4>2. e \notin Waits(R, i)
        BY <1>3, <1>8, <1>1, <3>1 DEF Waits
      <4>3. Sleeps(S, i) = {} /\ \A x \in Waits(S, i) : x = e
        BY <2>1, <4>1 DEF InOnePlace
      <4>4. Waits(R, i) = {}
        BY <1>16, <4>2, <4>3
      <4>. QED BY <1>6, <4>1, <4>3, <4>4
    <3>2. CASE i = s /\ <<e, i>> \in S.timeouts
      <4>1. e \in Sleeps(S, i) /\ e \notin Sleeps(R, i)
        BY <1>1, <1>2, <3>2 DEF Sleeps
      <4>2. Waits(S, i) = {} /\ \A x \in Sleeps(S, i) : x = e
        BY <2>1, <4>1 DEF InOnePlace
      <4>3. Sleeps(R, i) = {}
        BY <1>6, <4>1, <4>2
      <4>. QED BY <1>16, <4>1, <4>2, <4>3
    <3>. QED BY <1>2, <2>2, <3>1, <3>2
  <2>3. ~Second(R, i)
    BY <1>2 DEF Second
  <2>4. i \in S.cut => i \in R.cut
    BY <1>2
  <2>. QED BY <1>1, <1>2, <1>5, <1>6, <1>16, <2>1, <2>2, <2>3, <2>4, CutPlaced
<1>18. NoneToCome(R, c)
  BY <1>2, <1>17 DEF Sound, NoneToCome
<1>. QED BY <1>9, <1>10, <1>11, <1>12, <1>13, <1>14, <1>15, <1>17, <1>18 DEF Sound, Placed

-----------------------------------------------------------------------------
(* The box is closed. *)

(* One element of it ... *)
Forgets(S, e) == [S EXCEPT !.queue[e] = << >>, !.cut = @ \cup IdsIn(S.queue[e])]

(* ... and both. *)
Closed(S) ==
    LET T == dropHooks(Forgets(S, title), title)
    IN  [dropHooks(Forgets(T, box), box) EXCEPT !.removed = TRUE]

(* What cleanData does for one. *)
LEMMA ForgetsWay ==
    ASSUME NEW S \in State, NEW e \in Elements, NEW R, R = dropHooks(Forgets(S, e), e)
    PROVE  /\ R \in State /\ R.todo = S.todo /\ SameTurn(S, R) /\ SameClock(S, R)
           /\ R.begun = S.begun /\ R.completed = S.completed
           /\ R.queue[e] = << >> /\ \A f \in Elements : f # e => R.queue[f] = S.queue[f]
           /\ R.cut = S.cut \cup IdsIn(S.queue[e])
<1>. DEFINE x == IdsIn(S.queue[e])
            Q == [S.queue EXCEPT ![e] = << >>]
            X == S.cut \cup x
            M == Forgets(S, e)
<1>1. x \subseteq Ids
  BY QueueType, IdsOf
<1>2. X \in SUBSET Ids
  BY <1>1 DEF State
<1>3. /\ Q \in [Elements -> Seq(Item)] /\ Q[e] = << >>
      /\ \A f \in Elements : f # e => Q[f] = S.queue[f]
  BY DEF State
<1>4. M = [S EXCEPT !.queue = Q, !.cut = X] /\ X = S.cut \cup IdsIn(S.queue[e])
  BY DEF Forgets
<1>5. R = dropHooks(M, e)
  OBVIOUS
<1>. HIDE DEF x, Q, X, M
<1>6. /\ M \in State /\ M.queue = Q /\ M.todo = S.todo /\ SameTurn(S, M)
      /\ SameClock(S, M) /\ M.begun = S.begun /\ M.completed = S.completed
      /\ M.cut = X
  BY <1>2, <1>3, <1>4 DEF State, SameTurn, SameClock
<1>7. /\ R \in State /\ R.queue = M.queue /\ R.todo = M.todo
      /\ SameTurn(M, R) /\ SameCalls(M, R) /\ SameClock(M, R)
  BY <1>5, <1>6, DropHooksWay
<1>. QED BY <1>3, <1>4, <1>6, <1>7 DEF SameTurn, SameCalls, SameClock

(* What it does for both. *)
Closes(S, R) ==
    /\ R \in State /\ R.todo = S.todo /\ R.finish = S.finish /\ R.loop = S.loop
    /\ SameClock(S, R) /\ R.begun = S.begun /\ R.completed = S.completed
    /\ R.removed
    /\ R.queue[title] = << >> /\ R.queue[box] = << >>
    /\ \A f \in Widgets : R.queue[f] = S.queue[f]
    /\ R.cut = S.cut \cup IdsIn(S.queue[title]) \cup IdsIn(S.queue[box])

(* The removal of the box, in terms of what it changes. *)
LEMMA ClosesWay ==
    ASSUME NEW S \in State, NEW R, R = Closed(S)
    PROVE  Closes(S, R)
<1>. DEFINE T == dropHooks(Forgets(S, title), title)
            U == dropHooks(Forgets(T, box), box)
<1>1. R = [U EXCEPT !.removed = TRUE]
  BY DEF Closed
<1>2. /\ title \in Elements /\ box \in Elements /\ title # box
      /\ \A f \in Widgets : f \in Elements /\ f # title /\ f # box
  BY EffectsAssumption DEF Elements
<1>3. /\ T \in State /\ T.todo = S.todo /\ SameTurn(S, T) /\ SameClock(S, T)
      /\ T.begun = S.begun /\ T.completed = S.completed
      /\ T.queue[title] = << >> /\ \A f \in Elements : f # title => T.queue[f] = S.queue[f]
      /\ T.cut = S.cut \cup IdsIn(S.queue[title])
  BY <1>2, ForgetsWay
<1>. HIDE DEF T
<1>4. /\ U \in State /\ U.todo = T.todo /\ SameTurn(T, U) /\ SameClock(T, U)
      /\ U.begun = T.begun /\ U.completed = T.completed
      /\ U.queue[box] = << >> /\ \A f \in Elements : f # box => U.queue[f] = T.queue[f]
      /\ U.cut = T.cut \cup IdsIn(T.queue[box])
  BY <1>2, <1>3, ForgetsWay
<1>. HIDE DEF U
<1>5. /\ R \in State /\ R.todo = U.todo /\ R.finish = U.finish /\ R.loop = U.loop
      /\ SameClock(U, R) /\ R.begun = U.begun /\ R.completed = U.completed
      /\ R.removed /\ R.queue = U.queue /\ R.cut = U.cut
  BY ZenonT(60), <1>1, <1>4 DEF State, SameClock
<1>6. /\ R.queue[title] = << >> /\ R.queue[box] = << >>
      /\ \A f \in Widgets : R.queue[f] = S.queue[f]
  BY <1>2, <1>3, <1>4, <1>5
<1>7. R.cut = S.cut \cup IdsIn(S.queue[title]) \cup IdsIn(S.queue[box])
  BY <1>2, <1>3, <1>4, <1>5
<1>. QED BY <1>3, <1>4, <1>5, <1>6, <1>7 DEF Closes, SameTurn, SameClock

(* The animations that are at work for the box go on without it. *)
LEMMA CloseStep ==
    ASSUME NEW S, NEW c \in Nat, NEW lost, NEW left, Sound(S, c, lost, left), Quiet(S),
           S.loop.do = "none", NEW R, Closes(S, R)
    PROVE  Sound(R, c, Lost(lost, R), left)
<1>1. S \in State
  BY DEF Sound, Typed
<1>2. /\ R \in State /\ R.todo = S.todo /\ R.finish = S.finish /\ R.loop = S.loop
      /\ R.timers = S.timers /\ R.timerId = S.timerId /\ R.timeouts = S.timeouts
      /\ R.begun = S.begun /\ R.completed = S.completed /\ R.removed
      /\ \A i \in Ids : i \in R.cut <=> \/ i \in S.cut
                                        \/ i \in IdsIn(S.queue[title])
                                        \/ i \in IdsIn(S.queue[box])
  BY DEF Closes, SameClock
<1>3. /\ title \in Elements /\ box \in Elements
      /\ \A f \in Elements : f \in Widgets \/ f = title \/ f = box
      /\ \A f \in Widgets : f \in Elements
  BY DEF Elements
<1>4. /\ \A f \in Widgets : R.queue[f] = S.queue[f]
      /\ \A f \in Elements : f \notin Widgets => R.queue[f] = << >>
      /\ \A f \in Elements : R.queue[f] = S.queue[f] \/ R.queue[f] = << >>
  BY <1>3 DEF Closes
<1>5. /\ \A f \in Elements : AtWork(R, f) = AtWork(S, f) /\ (HasTimer(R, f) <=> HasTimer(S, f))
      /\ \A i \in Ids : Calls(R, i) = Calls(S, i)
      /\ \A f \in Elements : Delayed(R, f) = Delayed(S, f)
      /\ \A i \in Ids : Sleeps(R, i) = Sleeps(S, i)
  BY <1>2, SameTimers, SameTimeouts
<1>6. /\ \A k \in DOMAIN R.todo : k > 1 => R.todo[k].do = "always"
      /\ \A f \in Elements : ~Due(R, f) /\ ~Due(S, f)
  BY <1>1, <1>2, QuietDue DEF Due
<1>7. \A f \in Elements : Waiting(R, f) = R.queue[f] /\ Waiting(S, f) = S.queue[f]
  BY <1>2 DEF Waiting
<1>8. Typed(R)
  BY <1>2 DEF Sound, Typed
<1>9. Shape(R)
  <2>1. \A f \in Elements : \A k \in DOMAIN R.queue[f] : Fits(f, R.queue[f][k])
    <3>. TAKE f \in Elements
    <3>1. R.queue[f] = S.queue[f] \/ R.queue[f] = << >>
      BY <1>4
    <3>. QED BY <3>1 DEF Sound, Shape
  <2>2. R.loop.do = "none"
    BY <1>2
  <2>. QED BY <1>2, <1>6, <2>1, <2>2 DEF Sound, Shape
<1>10. Swept(R)
  BY <1>2 DEF Swept, WillDequeue
<1>11. \A f \in Elements \ Lost(lost, R) : OneAtWork(R, f)
  <2>. TAKE f \in Elements \ Lost(lost, R)
  <2>1. f \notin lost /\ \A t \in Delayed(R, f) : R.stop[f] = t[2]
    BY NotLost
  <2>2. OneAtWork(S, f)
    BY <2>1 DEF Sound
  <2>3. Claimed(R, f)
    <3>1. CASE f \in Widgets
      BY <1>2, <1>4, <1>5, <2>2, <3>1 DEF OneAtWork, Claimed
    <3>2. CASE f \notin Widgets
      BY <1>2, <3>2 DEF Claimed
    <3>. QED BY <3>1, <3>2
  <2>. QED BY <1>5, <1>6, <2>1, <2>2, <2>3 DEF OneAtWork
<1>12. Headed(R)
  BY <1>4, <1>6 DEF Sound, Headed
<1>13. \A f \in Elements \ left : Attended(R, f)
  <2>. TAKE f \in Elements \ left
  <2>1. Attended(S, f) /\ ~Due(S, f)
    BY <1>6 DEF Sound
  <2>2. R.queue[f] = S.queue[f] \/ R.queue[f] = << >>
    BY <1>4
  <2>3. S.loop.do # "stop"
    OBVIOUS
  <2>. QED BY <1>5, <2>1, <2>2, <2>3 DEF Attended
<1>14. InOrder(R)
  <2>1. ASSUME NEW f \in Elements
        PROVE  /\ Ordered(R.queue[f])
               /\ \A m \in DOMAIN R.begun[f], k \in DOMAIN R.queue[f] :
                     R.queue[f][k] # inprogress => R.begun[f][m] <= R.queue[f][k].id
    <3>1. CASE R.queue[f] = S.queue[f]
      BY <1>2, <1>7, <3>1 DEF Sound, InOrder
    <3>2. CASE R.queue[f] = << >>
      BY <3>2 DEF Ordered
    <3>. QED BY <1>4, <3>1, <3>2
  <2>. QED BY <1>2, <1>7, <2>1 DEF Sound, InOrder
<1>15. \A i \in Ids : Waits(R, i) \subseteq Waits(S, i)
  <2>1. \A i \in Ids : \A f \in Waits(R, i) : R.queue[f] # << >>
    BY <1>7 DEF Waits
  <2>. QED BY <1>4, <1>7, <2>1 DEF Waits
<1>16. ASSUME NEW i \in Ids
       PROVE  InOnePlace(R, i) /\ (Fresh(S, i) => Fresh(R, i))
  <2>1. InOnePlace(S, i)
    BY DEF Sound, Placed
  <2>2. ASSUME NEW e \in Elements, e \notin Widgets, i \in IdsIn(S.queue[e])
        PROVE  Waits(S, i) # {} /\ Waits(R, i) = {} /\ Sleeps(R, i) = {}
    <3>1. e \in Waits(S, i)
      <4>1. \E k \in DOMAIN S.queue[e] : S.queue[e][k].id = i
        BY <1>1, <2>2, QueueType, IdsOf
      <4>. QED BY <1>7, <4>1 DEF Waits
    <3>2. e \notin Waits(R, i)
      BY <1>4, <1>7, <2>2 DEF Waits
    <3>3. Sleeps(S, i) = {} /\ \A x \in Waits(S, i) : x = e
      BY <2>1, <3>1 DEF InOnePlace
    <3>4. Waits(R, i) = {}
      BY <1>15, <3>2, <3>3
    <3>. QED BY <1>5, <3>1, <3>3, <3>4
  <2>3. title \notin Widgets /\ box \notin Widgets
    BY EffectsAssumption
  <2>4. i \in R.cut /\ i \notin S.cut =>
          Waits(S, i) # {} /\ Waits(R, i) = {} /\ Sleeps(R, i) = {}
    BY <1>2, <1>3, <2>2, <2>3
  <2>5. ~Second(R, i) /\ (i \in S.cut => i \in R.cut)
    BY <1>2 DEF Second
  <2>. QED BY <1>1, <1>2, <1>5, <1>15, <2>1, <2>4, <2>5, CutPlaced
<1>17. NoneToCome(R, c)
  BY <1>2, <1>16 DEF Sound, NoneToCome
<1>. QED BY <1>8, <1>9, <1>10, <1>11, <1>12, <1>13, <1>14, <1>16, <1>17 DEF Sound, Placed

-----------------------------------------------------------------------------
(* finish takes the queue away. *)
FinishBegins(S, e) ==
    [S EXCEPT !.finish[e] = TRUE, !.queue[e] = << >>,
              !.loop = [do |-> "finish", elem |-> e, at |-> Len(S.timers),
                        rest |-> S.queue[e]]]

(* What that changes. *)
BeginsFinish(S, R, e) ==
    /\ Typed(R) /\ R.todo = S.todo /\ R.stop = S.stop
    /\ R.removed = S.removed /\ SameCalls(S, R) /\ SameClock(S, R)
    /\ R.loop.do = "finish" /\ R.loop.elem = e /\ R.loop.at = Len(S.timers)
    /\ R.loop.rest = S.queue[e]
    /\ R.queue[e] = << >> /\ \A f \in Elements : f # e => R.queue[f] = S.queue[f]

(* finish, up to its first stop, in terms of what it changes. *)
LEMMA FinishBeginsWay ==
    ASSUME NEW S, Typed(S), S.loop.do = "none", NEW e \in Widgets,
           NEW R, R = FinishBegins(S, e)
    PROVE  BeginsFinish(S, R, e)
<1>. DEFINE F == [S.finish EXCEPT ![e] = TRUE]
            Q == [S.queue EXCEPT ![e] = << >>]
            r == S.queue[e]
            l == [do |-> "finish", elem |-> e, at |-> Len(S.timers), rest |-> r]
<1>1. S \in State /\ e \in Elements
  BY DEF Typed, Elements
<1>2. r \in Seq(Item) /\ Len(S.timers) \in Nat
  BY <1>1, QueueType, TimersType
<1>3. /\ F \in [Elements -> BOOLEAN]
      /\ \A f \in Elements : F[f] <=> f = e
  BY <1>1 DEF State, Typed
<1>4. /\ Q \in [Elements -> Seq(Item)] /\ Q[e] = << >>
      /\ \A f \in Elements : f # e => Q[f] = S.queue[f]
  BY <1>1 DEF State
<1>5. R = [S EXCEPT !.finish = F, !.queue = Q, !.loop = l] /\ r = S.queue[e]
  BY DEF FinishBegins
<1>. HIDE DEF F, Q, r
<1>6. /\ l \in Loop /\ l.do = "finish" /\ l.elem = e /\ l.at = Len(S.timers) /\ l.rest = r
  BY <1>2 DEF Loop
<1>. HIDE DEF l
<1>7. /\ R \in State /\ R.loop = l /\ R.finish = F /\ R.queue = Q /\ R.todo = S.todo
      /\ R.stop = S.stop
      /\ R.removed = S.removed /\ SameCalls(S, R) /\ SameClock(S, R)
  BY ZenonT(60), <1>1, <1>3, <1>4, <1>5, <1>6 DEF State, SameCalls, SameClock
<1>8. Typed(R)
  <2>1. R.finish \in [Elements -> BOOLEAN] /\ \A f \in Elements : R.finish[f] <=> f = e
    BY <1>3, <1>7
  <2>2. R.loop.do = "finish" /\ R.loop.elem = e
    BY <1>6, <1>7
  <2>3. \A f \in Elements : R.finish[f] = (f = e)
    BY <2>1
  <2>4. \A f \in Elements : R.finish[f] = (R.loop.do = "finish" /\ R.loop.elem = f)
    BY <2>2, <2>3
  <2>. QED BY <1>7, <2>4 DEF Typed
<1>. QED BY <1>4, <1>5, <1>6, <1>7, <1>8 DEF BeginsFinish

(* What was in it waits for the loop. *)
LEMMA FinishBeginsStep ==
    ASSUME NEW S, NEW c \in Nat, NEW lost, NEW left, Sound(S, c, lost, left), Quiet(S),
           S.loop.do = "none", NEW e \in Widgets, NEW R, BeginsFinish(S, R, e)
    PROVE  Sound(R, c, lost, left) /\ Quiet(R) /\ ~WillDequeue(R) /\ Lost(lost, R) = Lost(lost, S)
<1>1. S \in State /\ e \in Elements /\ R \in State
  BY DEF Sound, Typed, Elements, BeginsFinish
<1>2. /\ Typed(R) /\ R.todo = S.todo /\ R.stop = S.stop
      /\ R.removed = S.removed /\ SameCalls(S, R)
      /\ R.timers = S.timers /\ R.timerId = S.timerId /\ R.timeouts = S.timeouts
      /\ R.loop.do = "finish" /\ R.loop.elem = e /\ R.loop.at = Len(S.timers)
      /\ R.loop.rest = S.queue[e]
      /\ R.queue[e] = << >> /\ \A f \in Elements : f # e => R.queue[f] = S.queue[f]
  BY DEF BeginsFinish, SameClock
<1>3. \A f \in Elements : Waiting(R, f) = Waiting(S, f)
  BY <1>2 DEF Waiting
<1>4. /\ \A f \in Elements : AtWork(R, f) = AtWork(S, f) /\ (HasTimer(R, f) <=> HasTimer(S, f))
      /\ \A i \in Ids : Calls(R, i) = Calls(S, i)
      /\ \A f \in Elements : Delayed(R, f) = Delayed(S, f)
      /\ \A i \in Ids : Sleeps(R, i) = Sleeps(S, i)
      /\ \A i \in Ids : Waits(R, i) = Waits(S, i) /\ ~Second(R, i) /\ ~Second(S, i)
  BY <1>2, <1>3, SameTimers, SameTimeouts DEF Waits, Second
<1>5. /\ \A k \in DOMAIN R.todo : k > 1 => R.todo[k].do = "always"
      /\ \A f \in Elements : ~Due(R, f) /\ ~Due(S, f)
  BY <1>1, <1>2, QuietDue DEF Due
<1>6. DOMAIN S.timers = 1..Len(S.timers) /\ Len(S.timers) \in Nat
  BY <1>1, TimersType
<1>7. Shape(R)
  <2>1. \A f \in Elements : \A k \in DOMAIN R.queue[f] : Fits(f, R.queue[f][k])
    <3>. TAKE f \in Elements
    <3>1. R.queue[f] = S.queue[f] \/ R.queue[f] = << >>
      BY <1>2
    <3>. QED BY <3>1 DEF Sound, Shape
  <2>2. \A k \in DOMAIN R.loop.rest : Fits(R.loop.elem, R.loop.rest[k])
    BY <1>1, <1>2 DEF Sound, Shape
  <2>3. R.loop.at <= Len(R.timers)
    BY <1>2, <1>6
  <2>. QED BY <1>2, <1>5, <2>1, <2>2, <2>3 DEF Sound, Shape
<1>8. Swept(R) /\ ~WillDequeue(R)
  BY <1>2 DEF Swept, WillDequeue
<1>9. \A f \in Elements \ lost : OneAtWork(R, f)
  <2>. TAKE f \in Elements \ lost
  <2>1. OneAtWork(S, f)
    BY DEF Sound
  <2>2. Claimed(R, f)
    <3>1. CASE f = e
      <4>1. \A j \in AtWork(R, f) : j <= R.loop.at
        BY <1>2, <1>6 DEF AtWork
      <4>. QED BY <1>2, <3>1, <4>1 DEF Claimed
    <3>2. CASE f # e
      BY <1>2, <1>4, <2>1, <3>2 DEF OneAtWork, Claimed
    <3>. QED BY <3>1, <3>2
  <2>. QED BY <1>2, <1>4, <1>5, <2>1, <2>2 DEF OneAtWork
<1>10. Headed(R)
  BY <1>2, <1>5 DEF Sound, Headed
<1>11. \A f \in Elements \ left : Attended(R, f)
  <2>1. S.loop.do # "stop"
    OBVIOUS
  <2>. QED BY <1>2, <1>4, <1>5, <2>1 DEF Sound, Attended
<1>12. InOrder(R)
  BY <1>2, <1>3 DEF Sound, InOrder, SameCalls
<1>13. ASSUME NEW i \in Ids
       PROVE  InOnePlace(R, i) /\ (Fresh(S, i) => Fresh(R, i))
  <2>1. InOnePlace(S, i)
    BY DEF Sound, Placed
  <2>. QED BY <1>2, <1>4, <2>1, FewerPlaces DEF SameCalls
<1>14. Placed(R) /\ NoneToCome(R, c)
  BY <1>2, <1>13 DEF Sound, Placed, NoneToCome, SameCalls
<1>15. Quiet(R) /\ Lost(lost, R) = Lost(lost, S)
  BY <1>2 DEF Quiet, Lost, Forgetting
<1>. QED BY <1>2, <1>7, <1>8, <1>9, <1>10, <1>11, <1>12, <1>14, <1>15 DEF Sound

(* hooks.cur.finish ends the animation that is at work. *)
LEMMA FinishStep ==
    ASSUME NEW S, NEW c \in Nat, NEW lost, NEW left, Sound(S, c, lost, left), Quiet(S),
           S.loop.do = "none", NEW e \in Widgets, NEW R, R = finish(S, e)
    PROVE  Sound(R, c, Lost(lost, R), left)
<1>. DEFINE F == FinishBegins(S, e)
            cur == { i \in DOMAIN S.timers :
                        /\ S.cur[e] # null
                        /\ S.timers[i].elem = e
                        /\ S.timers[i].id = S.cur[e].id
                        /\ S.timers[i].part = S.cur[e].part
                        /\ S.timers[i].queued }
            i == CHOOSE j \in cur : TRUE
<1>1. BeginsFinish(S, F, e)
  BY FinishBeginsWay DEF Sound
<1>2. R = IF cur = {} THEN F ELSE stopAnimation(F, i, TRUE)
  BY DEF finish, FinishBegins
<1>3. cur # {} => i \in DOMAIN S.timers
  OBVIOUS
<1>. HIDE DEF F, cur, i
<1>4. Sound(F, c, lost, left) /\ Quiet(F) /\ ~WillDequeue(F) /\ Lost(lost, F) = Lost(lost, S)
  BY <1>1, FinishBeginsStep
<1>5. F.timers = S.timers
  BY <1>1 DEF BeginsFinish, SameClock
<1>6. CASE cur = {} \/ F.timers[i].settled
  <2>1. R = F
    BY <1>2, <1>6 DEF stopAnimation
  <2>2. Sound(R, c, lost, left)
    BY <1>4, <2>1
  <2>. QED BY <2>2, LostMore
<1>7. CASE cur # {} /\ ~F.timers[i].settled
  <2>1. R = complete(Settled(F, i), F.timers[i]) /\ i \in DOMAIN F.timers
    BY <1>2, <1>3, <1>5, <1>7 DEF stopAnimation, Settled
  <2>. QED BY <1>4, <1>7, <2>1, EndsStep
<1>. QED BY <1>6, <1>7

-----------------------------------------------------------------------------
(* The timeout of a delay fires. *)
Fired(S, e, id) == [S EXCEPT !.timeouts = @ \ {<<e, id>>}, !.completed[id] = @ + 1]

(* What that changes. *)
LEMMA FiredWay ==
    ASSUME NEW S \in State, NEW e \in Elements, NEW id \in Ids, NEW N, N = Fired(S, e, id)
    PROVE  /\ N \in State /\ SameQueues(S, N) /\ N.todo = S.todo
           /\ N.timers = S.timers /\ N.timerId = S.timerId
           /\ N.begun = S.begun /\ N.cut = S.cut
           /\ N.timeouts = S.timeouts \ {<<e, id>>}
           /\ N.completed[id] = S.completed[id] + 1
           /\ \A i \in Ids : i # id => N.completed[i] = S.completed[i]
<1>. DEFINE T == S.timeouts \ {<<e, id>>}
            K == [S.completed EXCEPT ![id] = @ + 1]
<1>1. T \in SUBSET (Elements \X Ids) /\ T = S.timeouts \ {<<e, id>>}
  BY DEF State
<1>2. /\ K \in [Ids -> Nat] /\ K[id] = S.completed[id] + 1
      /\ \A i \in Ids : i # id => K[i] = S.completed[i]
  BY DEF State
<1>3. N = [S EXCEPT !.timeouts = T, !.completed = K]
  BY DEF Fired
<1>. HIDE DEF T, K
<1>4. /\ N \in State /\ SameQueues(S, N) /\ N.todo = S.todo
      /\ N.timers = S.timers /\ N.timerId = S.timerId
      /\ N.begun = S.begun /\ N.cut = S.cut
      /\ N.timeouts = T /\ N.completed = K
  BY ZenonT(60), <1>1, <1>2, <1>3 DEF State, SameQueues
<1>. QED BY <1>1, <1>2, <1>4

(* Nothing is at work for the element then, until it is dequeued. *)
LEMMA FiredStep ==
    ASSUME NEW S, NEW c \in Nat, NEW lost, NEW left, Sound(S, c, lost, left), Quiet(S),
           S.loop.do = "none", NEW e \in Elements, NEW id \in Ids, <<e, id>> \in S.timeouts,
           NEW N, N = Fired(S, e, id)
    PROVE  /\ Sound(N, c, Lost(lost, N), left \cup {e}) /\ Quiet(N) /\ ~WillDequeue(N)
           /\ e \notin Lost(lost, N) => AtWork(N, e) = {}
<1>1. S \in State
  BY DEF Sound, Typed
<1>2. /\ N \in State /\ SameQueues(S, N) /\ N.todo = S.todo
      /\ N.timers = S.timers /\ N.timerId = S.timerId
      /\ N.begun = S.begun /\ N.cut = S.cut
      /\ N.timeouts = S.timeouts \ {<<e, id>>}
      /\ N.completed[id] = S.completed[id] + 1
      /\ \A i \in Ids : i # id => N.completed[i] = S.completed[i]
  BY <1>1, FiredWay
<1>3. /\ N.queue = S.queue /\ N.stop = S.stop /\ N.finish = S.finish /\ N.loop = S.loop
      /\ N.removed = S.removed
  BY <1>2 DEF SameQueues
<1>4. /\ \A f \in Elements : AtWork(N, f) = AtWork(S, f) /\ (HasTimer(N, f) <=> HasTimer(S, f))
      /\ \A i \in Ids : Calls(N, i) = Calls(S, i)
  BY <1>2, SameTimers
<1>5. /\ \A f \in Elements : Delayed(N, f) \subseteq Delayed(S, f)
      /\ \A f \in Elements : f # e => Delayed(N, f) = Delayed(S, f)
      /\ \A i \in Ids : Sleeps(N, i) \subseteq Sleeps(S, i)
      /\ e \in Sleeps(S, id) /\ e \notin Sleeps(N, id) /\ Delayed(S, e) # {}
  BY <1>2 DEF Delayed, Sleeps
<1>6. /\ \A f \in Elements : Waiting(N, f) = Waiting(S, f)
      /\ \A i \in Ids : Waits(N, i) = Waits(S, i) /\ (Second(N, i) <=> Second(S, i))
  BY <1>3, SameWaiting
<1>7. /\ \A k \in DOMAIN N.todo : k > 1 => N.todo[k].do = "always"
      /\ \A f \in Elements : ~Due(N, f) /\ ~Due(S, f)
  BY <1>1, <1>2, QuietDue DEF Due
<1>8. Typed(N)
  BY <1>2, <1>3 DEF Sound, Typed
<1>9. Shape(N)
  <2>1. N.timeouts \subseteq Widgets \X Ids
    BY <1>2 DEF Sound, Shape
  <2>. QED BY <1>2, <1>3, <1>7, <2>1 DEF Sound, Shape
<1>10. Swept(N) /\ ~WillDequeue(N)
  BY <1>3 DEF Swept, WillDequeue
<1>11. \A f \in Elements \ Lost(lost, N) : OneAtWork(N, f)
  <2>. TAKE f \in Elements \ Lost(lost, N)
  <2>1. f \notin lost /\ \A t \in Delayed(N, f) : N.stop[f] = t[2]
    BY NotLost
  <2>2. OneAtWork(S, f)
    BY <2>1 DEF Sound
  <2>3. /\ AtWork(N, f) \subseteq AtWork(S, f) /\ Delayed(N, f) \subseteq Delayed(S, f)
        /\ ~Due(N, f)
    BY <1>4, <1>5, <1>7
  <2>. QED BY <1>3, <2>1, <2>2, <2>3, StillAtWork
<1>12. Headed(N)
  BY <1>3, <1>7 DEF Sound, Headed
<1>13. \A f \in Elements \ (left \cup {e}) : Attended(N, f)
  <2>. TAKE f \in Elements \ (left \cup {e})
  <2>1. Attended(S, f)
    BY DEF Sound
  <2>2. Delayed(N, f) = Delayed(S, f)
    BY <1>5
  <2>. QED BY <1>3, <1>4, <1>7, <2>1, <2>2 DEF Attended
<1>14. InOrder(N)
  BY <1>2, <1>6 DEF Sound, InOrder
<1>15. ASSUME NEW i \in Ids
       PROVE  InOnePlace(N, i) /\ (Fresh(S, i) => Fresh(N, i))
  <2>1. InOnePlace(S, i)
    BY DEF Sound, Placed
  <2>2. CASE i # id
    BY <1>2, <1>4, <1>5, <1>6, <2>1, <2>2, FewerPlaces
  <2>3. CASE i = id
    <3>1. /\ ~Over(S, i) /\ Waits(S, i) = {} /\ Calls(S, i) = {} /\ ~Second(S, i)
          /\ \A x \in Sleeps(S, i) : x = e
      BY <1>5, <2>1, <2>3 DEF InOnePlace
    <3>2. Sleeps(N, i) = {} /\ ~Fresh(S, i)
      BY <1>5, <2>3, <3>1 DEF Fresh
    <3>3. N.completed[i] = 1 /\ i \notin N.cut
      BY SMTT(30), <1>1, <1>2, <2>3, <3>1 DEF Over, State
    <3>. QED BY <1>4, <1>6, <3>1, <3>2, <3>3 DEF InOnePlace
  <2>. QED BY <2>2, <2>3
<1>16. Placed(N) /\ NoneToCome(N, c)
  BY <1>2, <1>3, <1>15 DEF Sound, Placed, NoneToCome
<1>17. Quiet(N)
  BY <1>2 DEF Quiet
<1>18. e \notin Lost(lost, N) => AtWork(N, e) = {}
  BY <1>4, <1>5 DEF Sound, OneAtWork, Lost
<1>. QED BY <1>8, <1>9, <1>10, <1>11, <1>12, <1>13, <1>14, <1>16, <1>17, <1>18 DEF Sound

(* It is dequeued. *)
LEMMA FiresStep ==
    ASSUME NEW S, NEW c \in Nat, NEW lost, NEW left, Sound(S, c, lost, left), Quiet(S),
           S.loop.do = "none", NEW e \in Elements, NEW id \in Ids, <<e, id>> \in S.timeouts,
           NEW N, N = Fired(S, e, id), NEW R, R = Before(N, toDequeue(e))
    PROVE  Sound(R, c, Lost(lost, R), left)
<1>1. /\ Sound(N, c, Lost(lost, N), left \cup {e}) /\ Quiet(N) /\ ~WillDequeue(N)
      /\ e \notin Lost(lost, N) => AtWork(N, e) = {}
  BY FiredStep
<1>2. Sound(R, c, Lost(lost, N), left)
  BY <1>1, DueStep
<1>3. N \in State /\ toDequeue(e) \in Frame
  BY <1>1, FrameTypes DEF Sound, Typed
<1>7. SameQueues(N, R) /\ SameClock(N, R)
  BY <1>3, BeforeWay
<1>4. R.stop = N.stop /\ R.timeouts = N.timeouts
  BY <1>7 DEF SameQueues, SameClock
<1>5. Sound(R, c, Lost(Lost(lost, N), R), left)
  BY <1>2, LostMore
<1>6. Lost(Lost(lost, N), R) = Lost(lost, R)
  BY <1>4, LostTwice
<1>. QED BY <1>5, <1>6

-----------------------------------------------------------------------------
(* The inductive invariant. *)
IInv ==
    /\ calls \in 0..MaxCalls
    /\ stops \in 0..MaxStops
    /\ forgotten \subseteq Elements /\ stranded \subseteq Elements
    /\ Sound(fx, calls, forgotten, stranded)

(* It holds when the page is loaded: nothing was called. *)
LEMMA InitIInv == Init => IInv
<1>. SUFFICES ASSUME Init PROVE IInv
  OBVIOUS
<1>1. /\ NoLoop \in Loop /\ NoLoop.do = "none"
      /\ << >> \in Seq(Item) /\ << >> \in Seq(Timer) /\ << >> \in Seq(Ids) /\ << >> \in Seq(Frame)
  BY DEF Loop, NoLoop
<1>2. /\ fx.queue = [e \in Elements |-> << >>]
      /\ fx.cur = [e \in Elements |-> null]
      /\ fx.stop = [e \in Elements |-> 0]
      /\ fx.unqueued = [e \in Elements |-> 0]
      /\ fx.finish = [e \in Elements |-> FALSE]
      /\ fx.timers = << >> /\ fx.timeouts = {} /\ ~fx.removed
      /\ fx.begun = [e \in Elements |-> << >>]
      /\ fx.completed = [i \in Ids |-> 0] /\ fx.cut = {}
      /\ fx.todo = << >> /\ fx.loop = NoLoop
  BY DEF Init
<1>3. fx \in State
  BY <1>1 DEF Init, State
<1>4. Typed(fx)
  BY <1>1, <1>2, <1>3 DEF Typed
<1>5. /\ \A e \in Elements : fx.queue[e] = << >> /\ fx.begun[e] = << >>
      /\ fx.loop.do = "none"
  BY <1>1, <1>2
<1>6. DOMAIN << >> = {}
  OBVIOUS
<1>7. Shape(fx) /\ Swept(fx)
  BY <1>2, <1>5, <1>6 DEF Shape, Swept, WillDequeue
<1>8. /\ \A e \in Elements : AtWork(fx, e) = {} /\ Delayed(fx, e) = {}
      /\ \A e \in Elements : Waiting(fx, e) = << >>
  BY <1>2, <1>5, <1>6 DEF AtWork, Delayed, Waiting
<1>9. \A e \in Elements : OneAtWork(fx, e) /\ Attended(fx, e)
  BY <1>5, <1>8 DEF OneAtWork, Claimed, Attended
<1>10. Headed(fx)
  BY <1>5 DEF Headed
<1>11. InOrder(fx)
  BY <1>5, <1>6, <1>8 DEF InOrder, Ordered
<1>12. ASSUME NEW i \in Ids PROVE Fresh(fx, i)
  <2>1. ~Over(fx, i)
    BY <1>2 DEF Over
  <2>2. Waits(fx, i) = {}
    BY <1>6, <1>8 DEF Waits
  <2>3. Calls(fx, i) = {} /\ Sleeps(fx, i) = {}
    BY <1>2, <1>6 DEF Calls, Sleeps
  <2>4. ~Second(fx, i)
    BY <1>5 DEF Second
  <2>. QED BY <2>1, <2>2, <2>3, <2>4 DEF Fresh
<1>13. \A i \in Ids : fx.completed[i] = 0 /\ i \notin fx.cut
  BY <1>2
<1>14. Placed(fx)
  BY <1>12, <1>13 DEF Placed, InOnePlace, Fresh
<1>15. NoneToCome(fx, calls)
  BY <1>5, <1>6, <1>12 DEF NoneToCome
<1>16. Sound(fx, calls, forgotten, stranded)
  BY <1>4, <1>7, <1>9, <1>10, <1>11, <1>14, <1>15 DEF Sound
<1>. QED BY <1>16, EffectsAssumption DEF Init, IInv

(* The time of a highlight. *)
LEMMA LongestIs == Longest \in Durations /\ Longest \in Nat
<1>1. \E d \in Durations : \A c \in Durations : c <= d
  BY EffectsAssumption
<1>2. Longest \in Durations
  BY <1>1 DEF Longest
<1>. QED BY <1>2, EffectsAssumption

(* Between the turns nothing is to come. *)
LEMMA Between ==
    ASSUME BetweenTurns
    PROVE  Quiet(fx) /\ fx.loop.do = "none"
BY DEF BetweenTurns, Quiet, NoLoop

(* A step of the effects keeps the invariant. *)
LEMMA Becoming ==
    ASSUME IInv, NEW R, Becomes(R), Sound(R, calls', Lost(forgotten, R), stranded'),
           calls' \in 0..MaxCalls, stops' \in 0..MaxStops, stranded' \subseteq Elements
    PROVE  IInv'
<1>1. forgotten' = Lost(forgotten, R) /\ fx' = R
  BY DEF Becomes, Lost
<1>2. forgotten' \subseteq Elements
  BY <1>1 DEF IInv, Lost
<1>. QED BY <1>1, <1>2 DEF IInv

(* A call of the page, a tick or a timeout does. *)
LEMMA Calling ==
    ASSUME IInv, NEW R, Call(R), Sound(R, calls', Lost(forgotten, R), stranded),
           calls' \in 0..MaxCalls
    PROVE  IInv'
BY Becoming DEF Call, IInv

(* A call of animate keeps the invariant. *)
LEMMA AnimateIInv ==
    ASSUME IInv, NEW e \in Widgets, Animate(e) PROVE IInv'
<1>1. PICK left \in Durations :
         Call(queue(fx, e, [op |-> "animate", id |-> calls + 1, part |-> 0, left |-> left]))
  BY DEF Animate
<1>. DEFINE it == [op |-> "animate", id |-> calls + 1, part |-> 0, left |-> left]
            R == queue(fx, e, it)
<1>2. /\ calls \in Nat /\ calls' = calls + 1 /\ calls' \in 0..MaxCalls /\ calls + 1 \in Ids
      /\ Sound(fx, calls, forgotten, stranded)
  BY EffectsAssumption DEF Animate, IInv, Ids
<1>3. it \in Job /\ it.id = calls + 1 /\ it.op = "animate" /\ it.part = 0
  BY <1>2, EffectsAssumption DEF Job
<1>4. Call(R) /\ Quiet(fx) /\ fx.loop.do = "none"
  BY <1>1, Between DEF Call
<1>. HIDE DEF it
<1>5. it.op \in {"animate", "delay"}
  BY <1>3
<1>6. Sound(R, calls + 1, Lost(forgotten, R), stranded)
  BY <1>2, <1>3, <1>4, <1>5, CallStep
<1>. HIDE DEF R
<1>. QED BY <1>2, <1>4, <1>6, Calling

(* A call of delay does. *)
LEMMA DelayIInv ==
    ASSUME IInv, NEW e \in Widgets, Delay(e) PROVE IInv'
<1>. DEFINE it == [op |-> "delay", id |-> calls + 1, part |-> 0, left |-> 0]
            R == queue(fx, e, it)
<1>2. /\ calls \in Nat /\ calls' = calls + 1 /\ calls' \in 0..MaxCalls /\ calls + 1 \in Ids
      /\ Sound(fx, calls, forgotten, stranded)
  BY EffectsAssumption DEF Delay, IInv, Ids
<1>3. it \in Job /\ it.id = calls + 1 /\ it.op = "delay" /\ it.part = 0
  BY <1>2 DEF Job
<1>4. Call(R) /\ Quiet(fx) /\ fx.loop.do = "none"
  BY Between DEF Delay, Call
<1>. HIDE DEF it
<1>5. it.op \in {"animate", "delay"}
  BY <1>3
<1>6. Sound(R, calls + 1, Lost(forgotten, R), stranded)
  BY <1>2, <1>3, <1>4, <1>5, CallStep
<1>. HIDE DEF R
<1>. QED BY <1>2, <1>4, <1>6, Calling

(* A call of animate outside of the queue does. *)
LEMMA AnimateUnqueuedIInv ==
    ASSUME IInv, NEW e \in Widgets, AnimateUnqueued(e) PROVE IInv'
<1>1. PICK left \in Durations :
         Call(Animation(fx, [elem |-> e, id |-> calls + 1, part |-> 0, left |-> left,
                             queued |-> FALSE, dequeues |-> FALSE, settled |-> FALSE]))
  BY DEF AnimateUnqueued
<1>. DEFINE a == [elem |-> e, id |-> calls + 1, part |-> 0, left |-> left,
                  queued |-> FALSE, dequeues |-> FALSE, settled |-> FALSE]
            R == Animation(fx, a)
<1>2. /\ calls \in Nat /\ calls' = calls + 1 /\ calls' \in 0..MaxCalls /\ calls + 1 \in Ids
      /\ Sound(fx, calls, forgotten, stranded)
  BY EffectsAssumption DEF AnimateUnqueued, IInv, Ids
<1>3. /\ a \in Timer /\ a.elem \in Widgets /\ a.id = calls + 1 /\ a.part = 0
      /\ ~a.dequeues /\ ~a.settled
  BY <1>2, EffectsAssumption DEF Timer, Elements
<1>4. Call(R) /\ Quiet(fx) /\ fx.loop.do = "none"
  BY <1>1, Between DEF Call
<1>. HIDE DEF a
<1>6. Sound(R, calls + 1, Lost(forgotten, R), stranded)
  BY <1>2, <1>3, <1>4, UnqueuedStep
<1>. HIDE DEF R
<1>. QED BY <1>2, <1>4, <1>6, Calling

(* The highlight of a box does. *)
LEMMA HighlightBoxIInv ==
    ASSUME IInv, HighlightBox PROVE IInv'
<1>. DEFINE it == [op |-> "highlight", id |-> calls + 1, part |-> 0, left |-> Longest]
            L == Locks(fx, calls + 2)
            R == queue(L, title, it)
<1>2. /\ calls \in Nat /\ calls' = calls + 2 /\ calls' \in 0..MaxCalls
      /\ calls + 1 \in Ids /\ calls + 2 \in Ids
      /\ Sound(fx, calls, forgotten, stranded) /\ ~fx.removed
  BY EffectsAssumption DEF HighlightBox, IInv, Ids
<1>3. it \in Job /\ it.id = calls + 1 /\ it.op = "highlight" /\ it.part = 0
  BY <1>2, LongestIs DEF Job
<1>4. Call(R)
  BY DEF HighlightBox, Locks
<1>5. Quiet(fx) /\ fx.loop.do = "none"
  BY <1>4, Between DEF Call
<1>. HIDE DEF it
<1>6. Sound(R, calls + 2, Lost(forgotten, R), stranded)
  BY <1>2, <1>3, <1>5, HighlightBoxStep
<1>. HIDE DEF R
<1>. QED BY <1>2, <1>4, <1>6, Calling

(* The removal of the box does. *)
LEMMA RemoveBoxIInv ==
    ASSUME IInv, RemoveBox PROVE IInv'
<1>. DEFINE R == Closed(fx)
<1>1. Call(R) /\ calls' = calls
  BY DEF RemoveBox, Closed, Forgets
<1>2. /\ calls \in Nat /\ calls \in 0..MaxCalls
      /\ Sound(fx, calls, forgotten, stranded) /\ fx \in State
  BY EffectsAssumption DEF IInv, Sound, Typed
<1>3. Quiet(fx) /\ fx.loop.do = "none"
  BY <1>1, Between DEF Call
<1>4. Closes(fx, R)
  BY <1>2, ClosesWay
<1>. HIDE DEF R
<1>5. Sound(R, calls, Lost(forgotten, R), stranded)
  BY <1>2, <1>3, <1>4, CloseStep
<1>. QED BY <1>1, <1>2, <1>5, Calling

(* A call of stop does. *)
LEMMA StopIInv ==
    ASSUME IInv, NEW e \in Widgets, Stop(e) PROVE IInv'
<1>1. PICK clear \in BOOLEAN, gotoEnd \in BOOLEAN :
        /\ BetweenTurns
        /\ stops < MaxStops
        /\ stops' = stops + 1
        /\ Becomes(stop(fx, e, clear, gotoEnd))
        /\ stranded' = IF <<e, fx.stop[e]>> \in fx.timeouts /\ gotoEnd /\ HasTimer(fx, e)
                       THEN stranded \cup {e} ELSE stranded
        /\ UNCHANGED calls
  BY DEF Stop
<1>. DEFINE R == stop(fx, e, clear, gotoEnd)
<1>2. /\ calls \in Nat /\ calls' = calls /\ calls' \in 0..MaxCalls /\ stops' \in 0..MaxStops
      /\ Sound(fx, calls, forgotten, stranded) /\ fx \in State
  BY <1>1, EffectsAssumption DEF IInv, Sound, Typed
<1>3. Quiet(fx) /\ fx.loop.do = "none"
  BY <1>1, Between
<1>4. /\ stranded \subseteq stranded' /\ stranded' \subseteq Elements
      /\ <<e, fx.stop[e]>> \in fx.timeouts /\ gotoEnd /\ HasTimer(fx, e) => e \in stranded'
  BY <1>1 DEF IInv, Elements
<1>5. PICK s \in Nat : Stops(fx, R, e, clear, gotoEnd, s)
  BY <1>2, StopWay
<1>6. Becomes(R)
  BY <1>1
<1>. HIDE DEF R
<1>7. Sound(R, calls, Lost(forgotten, R), stranded')
  BY <1>2, <1>3, <1>4, <1>5, StopStep
<1>. QED BY <1>2, <1>4, <1>6, <1>7, Becoming

(* A call of finish does. *)
LEMMA FinishIInv ==
    ASSUME IInv, NEW e \in Widgets, Finish(e) PROVE IInv'
<1>. DEFINE R == finish(fx, e)
<1>1. /\ Becomes(R) /\ BetweenTurns /\ stranded' = stranded
  BY DEF Finish
<1>2. /\ calls \in Nat /\ calls' = calls /\ calls' \in 0..MaxCalls /\ stops' \in 0..MaxStops
      /\ Sound(fx, calls, forgotten, stranded) /\ stranded \subseteq Elements
  BY EffectsAssumption DEF Finish, IInv
<1>3. Quiet(fx) /\ fx.loop.do = "none"
  BY <1>1, Between
<1>4. Sound(R, calls, Lost(forgotten, R), stranded)
  BY <1>2, <1>3, FinishStep
<1>. HIDE DEF R
<1>. QED BY <1>1, <1>2, <1>4, Becoming

(* A tick of the interval timer does. *)
LEMMA TickIInv ==
    ASSUME IInv, Tick PROVE IInv'
<1>1. PICK passed \in {1, Longest} : Call(tick(fx, passed))
  BY DEF Tick
<1>. DEFINE R == tick(fx, passed)
<1>2. /\ calls \in Nat /\ calls' = calls /\ calls' \in 0..MaxCalls
      /\ Sound(fx, calls, forgotten, stranded) /\ fx \in State
  BY EffectsAssumption DEF Tick, IInv, Sound, Typed
<1>3. Call(R) /\ Quiet(fx) /\ fx.loop.do = "none"
  BY <1>1, Between DEF Call
<1>4. Ticks(fx, R)
  BY <1>2, LongestIs, TicksWay
<1>. HIDE DEF R
<1>5. Sound(R, calls, Lost(forgotten, R), stranded)
  BY <1>2, <1>3, <1>4, TickStep
<1>. QED BY <1>2, <1>3, <1>5, Calling

(* The timeout of a delay does. *)
LEMMA TimeoutFiresIInv ==
    ASSUME IInv, TimeoutFires PROVE IInv'
<1>1. PICK t \in fx.timeouts :
        Call(Before([fx EXCEPT !.timeouts = @ \ {t}, !.completed[t[2]] = @ + 1],
                    toDequeue(t[1])))
  BY DEF TimeoutFires
<1>2. /\ calls \in Nat /\ calls' = calls /\ calls' \in 0..MaxCalls
      /\ Sound(fx, calls, forgotten, stranded) /\ fx \in State
  BY EffectsAssumption DEF TimeoutFires, IInv, Sound, Typed
<1>3. t \in Elements \X Ids
  BY <1>2 DEF State
<1>. DEFINE e == t[1]
            id == t[2]
            N == Fired(fx, e, id)
            R == Before(N, toDequeue(e))
<1>4. e \in Elements /\ id \in Ids /\ t = <<e, id>> /\ <<e, id>> \in fx.timeouts
  BY <1>3
<1>5. Call(R)
  BY <1>1, <1>4 DEF Fired
<1>6. Quiet(fx) /\ fx.loop.do = "none"
  BY <1>5, Between DEF Call
<1>. HIDE DEF e, id
<1>7. Sound(R, calls, Lost(forgotten, R), stranded)
  BY <1>2, <1>4, <1>6, FiresStep
<1>. HIDE DEF R
<1>. QED BY <1>2, <1>5, <1>7, Calling

(* The turn goes on. *)
LEMMA Going ==
    ASSUME IInv, NEW R, Goes(R), Sound(R, calls, Lost(forgotten, R), stranded)
    PROVE  IInv'
<1>1. calls' = calls /\ stops' = stops /\ stranded' = stranded /\ Becomes(R)
  BY DEF Goes
<1>. QED BY <1>1, Becoming DEF IInv

(* The next call of a turn does. *)
LEMMA CalledIInv ==
    ASSUME IInv, Called PROVE IInv'
<1>. DEFINE f == Head(fx.todo)
            T == [fx EXCEPT !.todo = Tail(@)]
<1>1. /\ fx.todo # << >>
      /\ \/ f.do = "dequeue" /\ Goes(dequeue(T, f.elem))
         \/ f.do = "always" /\ Goes(always(T, f.elem))
  BY DEF Called
<1>2. calls \in Nat /\ Sound(fx, calls, forgotten, stranded)
  BY EffectsAssumption DEF IInv
<1>3. CASE f.do = "dequeue" /\ Goes(dequeue(T, f.elem))
  <2>. DEFINE R == dequeue(T, f.elem)
  <2>1. Goes(R)
    BY <1>3
  <2>2. Sound(R, calls, Lost(forgotten, R), stranded)
    BY <1>1, <1>2, <1>3, DequeueStep
  <2>. HIDE DEF R
  <2>. QED BY <2>1, <2>2, Going
<1>4. CASE f.do = "always" /\ Goes(always(T, f.elem))
  <2>. DEFINE R == always(T, f.elem)
  <2>1. Goes(R)
    BY <1>4
  <2>2. Sound(R, calls, Lost(forgotten, R), stranded)
    BY <1>1, <1>2, <1>4, AlwaysStep
  <2>. HIDE DEF R
  <2>. QED BY <2>1, <2>2, Going
<1>. QED BY <1>1, <1>3, <1>4

(* The next round of a loop does. *)
LEMMA LoopsIInv ==
    ASSUME IInv, Loops PROVE IInv'
<1>. DEFINE N == NoSecond(fx)
            it == [op |-> "bounce", id |-> fx.loop.id, part |-> 0, left |-> 1]
<1>1. \/ fx.loop.do = "stop" /\ Goes(stopLoop(fx))
      \/ fx.loop.do = "finish" /\ Goes(finishLoop(fx))
      \/ fx.loop.do = "tick" /\ Goes(tickLoop(fx))
      \/ fx.loop.do = "effect" /\ Goes(queue(N, box, it))
  BY DEF Loops, NoSecond
<1>2. calls \in Nat /\ Sound(fx, calls, forgotten, stranded) /\ fx \in State
  BY EffectsAssumption DEF IInv, Sound, Typed
<1>3. Quiet(fx)
  BY DEF Loops, Quiet
<1>4. CASE fx.loop.do = "stop" /\ Goes(stopLoop(fx))
  <2>. DEFINE R == stopLoop(fx)
  <2>1. Goes(R)
    BY <1>4
  <2>2. Sound(R, calls, Lost(forgotten, R), stranded)
    BY <1>2, <1>3, <1>4, StopLoopStep
  <2>. HIDE DEF R
  <2>. QED BY <2>1, <2>2, Going
<1>5. CASE fx.loop.do = "finish" /\ Goes(finishLoop(fx))
  <2>. DEFINE R == finishLoop(fx)
  <2>1. Goes(R)
    BY <1>5
  <2>2. Sound(R, calls, Lost(forgotten, R), stranded)
    BY <1>2, <1>3, <1>5, FinishLoopStep
  <2>. HIDE DEF R
  <2>. QED BY <2>1, <2>2, Going
<1>6. CASE fx.loop.do = "tick" /\ Goes(tickLoop(fx))
  <2>. DEFINE R == tickLoop(fx)
  <2>1. Goes(R)
    BY <1>6
  <2>2. Sound(R, calls, Lost(forgotten, R), stranded)
    BY <1>2, <1>3, <1>6, TickLoopStep
  <2>. HIDE DEF R
  <2>. QED BY <2>1, <2>2, Going
<1>7. CASE fx.loop.do = "effect" /\ Goes(queue(N, box, it))
  <2>. DEFINE R == queue(N, box, it)
  <2>1. Goes(R)
    BY <1>7
  <2>2. it \in Job /\ it.id = fx.loop.id /\ it.op = "bounce" /\ it.part = 0
    BY <1>2, <1>7, LoopTypes DEF Job
  <2>. HIDE DEF it
  <2>3. Sound(R, calls, Lost(forgotten, R), stranded)
    BY <1>2, <1>3, <1>7, <2>2, SecondStep
  <2>. HIDE DEF R
  <2>. QED BY <2>1, <2>3, Going
<1>. QED BY <1>1, <1>4, <1>5, <1>6, <1>7

-----------------------------------------------------------------------------
(* The theorems. *)

(* Every step keeps the invariant. *)
LEMMA NextIInv == IInv /\ [Next]_vars => IInv'
<1>. SUFFICES ASSUME IInv, [Next]_vars PROVE IInv'
  OBVIOUS
<1>1. ASSUME NEW e \in Widgets,
             Animate(e) \/ AnimateUnqueued(e) \/ Delay(e) \/ Stop(e) \/ Finish(e)
      PROVE  IInv'
  BY <1>1, AnimateIInv, AnimateUnqueuedIInv, DelayIInv, StopIInv, FinishIInv
<1>2. CASE HighlightBox \/ RemoveBox \/ Tick \/ TimeoutFires
  BY <1>2, HighlightBoxIInv, RemoveBoxIInv, TickIInv, TimeoutFiresIInv
<1>3. CASE Turn
  BY <1>3, CalledIInv, LoopsIInv DEF Turn
<1>4. CASE UNCHANGED vars
  <2>1. /\ fx' = fx /\ calls' = calls /\ stops' = stops
        /\ forgotten' = forgotten /\ stranded' = stranded
    BY <1>4 DEF vars
  <2>. QED BY <2>1 DEF IInv
<1>. QED BY <1>1, <1>2, <1>3, <1>4 DEF Next

(* The invariant holds in every state. *)
LEMMA Inductive == Spec => []IInv
<1>1. Init => IInv
  BY InitIInv
<1>2. IInv /\ [Next]_vars => IInv'
  BY NextIInv
<1>. QED BY <1>1, <1>2, PTL DEF Spec

(* The state of the effects has its type, and the finishing flag of an     *)
(* element is set exactly while finish runs on it.                         *)
THEOREM EffectsTyped == Spec => []TypeOK
<1>1. IInv => TypeOK
  BY DEF IInv, Sound, Typed, TypeOK
<1>. QED BY <1>1, Inductive, PTL

(* What is at work for an element is one thing. *)
LEMMA OneRuns ==
    ASSUME IInv, NEW e \in Elements \ forgotten
    PROVE  \A x, y \in Running(e) : x = y
<1>1. OneAtWork(fx, e)
  BY DEF IInv, Sound
<1>. DEFINE A == { <<fx.timers[i].id, fx.timers[i].part>> : i \in AtWork(fx, e) }
            D == { <<t[2], 0>> : t \in Delayed(fx, e) }
<1>2. Running(e) = A \cup D
  BY DEF Running, AtWork, Delayed
<1>3. \A x, y \in A : x = y
  BY <1>1 DEF OneAtWork
<1>4. \A x, y \in D : x = y
  BY <1>1 DEF OneAtWork
<1>5. D # {} => A = {}
  BY <1>1 DEF OneAtWork
<1>. HIDE DEF A, D
<1>. QED BY <1>2, <1>3, <1>4, <1>5

(* A set that has no two elements. *)
LEMMA NoTwo ==
    ASSUME NEW X, \A x, y \in X : x = y
    PROVE  Cardinality(X) <= 1
<1>1. X = {} \/ \E z : X = {z}
  OBVIOUS
<1>2. Cardinality(X) = 0 \/ Cardinality(X) = 1
  BY <1>1, FS_EmptySet, FS_Singleton
<1>. QED BY <1>2

(* While one function of a queue is at work no other one of that queue     *)
(* begins, and the functions begin in the order of the calls.              *)
THEOREM InTurnHolds == Spec => []InTurn
<1>1. ASSUME IInv PROVE InTurn
  <2>1. ASSUME NEW e \in Elements \ forgotten PROVE Cardinality(Running(e)) <= 1
    BY <1>1, OneRuns, NoTwo
  <2>2. ASSUME NEW e \in Elements, NEW i \in 1..(Len(fx.begun[e]) - 1)
        PROVE  fx.begun[e][i] <= fx.begun[e][i + 1]
    <3>1. fx.begun[e] \in Seq(Ids)
      BY <1>1 DEF IInv, Sound, Typed, State
    <3>2. i \in DOMAIN fx.begun[e] /\ i + 1 \in DOMAIN fx.begun[e] /\ i <= i + 1
      BY <3>1, LenProperties
    <3>3. InOrder(fx)
      BY <1>1 DEF IInv, Sound
    <3>. QED BY <3>2, <3>3 DEF InOrder
  <2>. QED BY <2>1, <2>2 DEF InTurn
<1>. QED BY <1>1, Inductive, PTL

(* Between the turns no queue waits for nobody: it begins with the         *)
(* sentinel, and something is at work that will dequeue it.                *)
THEOREM DrivenHolds == Spec => []Driven
<1>1. ASSUME IInv PROVE Driven
  <2>1. ASSUME BetweenTurns, NEW e \in Elements \ stranded, fx.queue[e] # << >>
        PROVE  Head(fx.queue[e]) = inprogress /\ Running(e) # {}
    <3>1. fx.todo = << >> /\ fx.loop.do = "none"
      BY <2>1 DEF BetweenTurns, NoLoop
    <3>2. Headed(fx) /\ Attended(fx, e)
      BY <1>1, <2>1 DEF IInv, Sound
    <3>3. ~Due(fx, e)
      BY <3>1 DEF Due
    <3>4. Head(fx.queue[e]) = inprogress
      BY <2>1, <3>2, <3>3 DEF Headed
    <3>5. AtWork(fx, e) # {} \/ Delayed(fx, e) # {}
      BY <2>1, <3>1, <3>2, <3>3 DEF Attended
    <3>6. Running(e) # {}
      BY <3>5 DEF Running, AtWork, Delayed
    <3>. QED BY <3>4, <3>6
  <2>2. fx.timers # << >> => fx.timerId
    BY <1>1 DEF IInv, Sound, Shape
  <2>. QED BY <2>1, <2>2 DEF Driven
<1>. QED BY <1>1, Inductive, PTL

(* The callback of a call is called once at most, and never after the call *)
(* was given up.                                                           *)
THEOREM CalledOnceHolds == Spec => []CalledOnce
<1>1. ASSUME IInv PROVE CalledOnce
  BY <1>1 DEF IInv, Sound, Placed, InOnePlace, CalledOnce
<1>. QED BY <1>1, Inductive, PTL

=============================================================================
